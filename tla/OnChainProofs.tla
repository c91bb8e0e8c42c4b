--------------------------- MODULE OnChainProofs ---------------------------
(***************************************************************************)
(* verify_payment_on_chain.  What it accepts was received, and a payment   *)
(* on the merchant's only account is accepted, for any number of accounts, *)
(* owners and tokens; its poll adds little to the calls of the RPC and     *)
(* sees a typical transaction, for all latencies and times of finality.    *)
(***************************************************************************)
EXTENDS TokenBalances, PollSchedule, WellFoundedInduction, TLAPS

-----------------------------------------------------------------------------
(* The balances.                                                           *)

\* A nonempty set of positions has a first one.
LEMMA FirstIsLeast ==
    ASSUME NEW S \in SUBSET Positions, S # {}
    PROVE  FirstOf(S) \in S /\ \A q \in S : FirstOf(S) <= q
<1> DEFINE Less == {ss \in Nat \X Nat : ss[1] < ss[2]}
<1>1. IsWellFoundedOn(Less, Nat)
  BY NatLessThanWellFounded DEF OpToRel
<1>2. S \subseteq Nat
  BY BalanceAssumption
<1>3. PICK x \in S : \A y \in S : ~(<<y, x>> \in Less)
  BY <1>1, <1>2, WFMin
<1>4. ASSUME NEW y \in S PROVE x <= y
  <2>1. <<y, x>> \in Nat \X Nat /\ <<y, x>>[1] = y /\ <<y, x>>[2] = x
    BY <1>2
  <2>2. ~(y < x)
    BY <1>3, <2>1
  <2> QED
    BY <1>2, <2>2
<1> QED
  BY <1>4 DEF FirstOf

-----------------------------------------------------------------------------

AccountsInvariant == BalanceType /\ MerchantKeepsAccounts

LEMMA InitKeepsAccounts == BalanceInit => AccountsInvariant
<1> SUFFICES ASSUME BalanceInit PROVE AccountsInvariant
  OBVIOUS
<1>1. BalanceType
  BY DEF BalanceInit, BalanceType, Metas
<1>2. MerchantKeepsAccounts
  <2> SUFFICES ASSUME NEW p \in Positions, HoldsUsdc(before, p)
               PROVE  HoldsUsdc(account, p) /\ account[p].amount >= before[p].amount
    BY DEF MerchantKeepsAccounts
  <2>1. account[p] \in TokenAccounts
    BY <1>1 DEF BalanceType, BalanceInit, HoldsUsdc
  <2> QED
    BY <2>1, BalanceAssumption DEF BalanceInit, HoldsUsdc, TokenAccounts
<1> QED
  BY <1>1, <1>2 DEF AccountsInvariant

LEMMA TransferKeepsAccounts ==
    ASSUME AccountsInvariant, NEW p \in Positions, NEW q \in Positions,
           NEW n \in 1 .. Supply, Transfer(p, q, n)
    PROVE  AccountsInvariant'
<1> USE DEF AccountsInvariant
<1>1. account[p] \in TokenAccounts /\ account[q] \in TokenAccounts /\ p # q
  BY DEF Transfer, BalanceType
<1>2. account' = [account EXCEPT ![p].amount = account[p].amount - n,
                                 ![q].amount = account[q].amount + n]
  BY DEF Transfer
<1>3. account[p].amount - n \in 0 .. Supply /\ account[q].amount + n \in 0 .. Supply
  BY <1>1, BalanceAssumption DEF Transfer, TokenAccounts
<1>4. /\ account'[p] = [account[p] EXCEPT !.amount = account[p].amount - n]
      /\ account'[q] = [account[q] EXCEPT !.amount = account[q].amount + n]
      /\ \A o \in Positions : o # p /\ o # q => account'[o] = account[o]
  BY <1>1, <1>2 DEF BalanceType
<1>5. account'[p] \in TokenAccounts /\ account'[q] \in TokenAccounts
  BY <1>1, <1>3, <1>4 DEF TokenAccounts
<1>6. BalanceType'
  <2>1. \A o \in Positions : account'[o] \in TokenAccounts \cup {None}
    BY <1>4, <1>5 DEF BalanceType
  <2>2. account' \in [Positions -> TokenAccounts \cup {None}]
    BY <1>2, <2>1 DEF BalanceType
  <2> QED
    BY <2>2 DEF Transfer, BalanceType
<1>7. MerchantKeepsAccounts'
  <2> SUFFICES ASSUME NEW o \in Positions, HoldsUsdc(before, o)
               PROVE  HoldsUsdc(account', o) /\ account'[o].amount >= before[o].amount
    BY DEF MerchantKeepsAccounts, Transfer, HoldsUsdc
  <2>1. /\ HoldsUsdc(account, o) /\ account[o].amount >= before[o].amount
        /\ before[o] \in TokenAccounts
    BY DEF MerchantKeepsAccounts, BalanceType, HoldsUsdc
  <2>2. o # p
    BY <2>1 DEF Transfer, Signs, HoldsUsdc
  <2>3. CASE o = q
    <3>1. /\ account'[q].amount = account[q].amount + n
          /\ account'[q].owner = account[q].owner
          /\ account'[q].mint = account[q].mint
      BY <1>1, <1>4 DEF TokenAccounts
    <3>2. account'[q].amount >= before[q].amount
      BY <1>1, <2>1, <2>3, <3>1, BalanceAssumption DEF TokenAccounts
    <3> QED
      BY <1>5, <2>1, <2>3, <3>1, <3>2, NoneIsNoAccount DEF HoldsUsdc
  <2>4. CASE o # q
    BY <1>4, <2>1, <2>2, <2>4 DEF HoldsUsdc
  <2> QED
    BY <2>3, <2>4
<1> QED
  BY <1>6, <1>7

LEMMA OpenKeepsAccounts ==
    ASSUME AccountsInvariant, NEW p \in Positions, NEW owner \in Owners,
           NEW mint \in Mints, OpenAccount(p, owner, mint)
    PROVE  AccountsInvariant'
<1> USE DEF AccountsInvariant
<1>1. [owner |-> owner, mint |-> mint, amount |-> 0] \in TokenAccounts
  BY BalanceAssumption DEF TokenAccounts
<1>2. BalanceType'
  BY <1>1 DEF OpenAccount, BalanceType
<1>3. ASSUME NEW o \in Positions, HoldsUsdc(before, o)
      PROVE  account'[o] = account[o] /\ HoldsUsdc(account, o)
  BY <1>3 DEF OpenAccount, MerchantKeepsAccounts, HoldsUsdc, BalanceType
<1>4. MerchantKeepsAccounts'
  BY <1>3 DEF OpenAccount, MerchantKeepsAccounts, HoldsUsdc
<1> QED
  BY <1>2, <1>4

LEMMA CloseKeepsAccounts ==
    ASSUME AccountsInvariant, NEW p \in Positions, CloseAccount(p)
    PROVE  AccountsInvariant'
<1> USE DEF AccountsInvariant
<1>1. BalanceType'
  BY DEF CloseAccount, BalanceType
<1>2. ASSUME NEW o \in Positions, HoldsUsdc(before, o)
      PROVE  account'[o] = account[o] /\ HoldsUsdc(account, o)
  BY <1>2 DEF CloseAccount, Signs, MerchantKeepsAccounts, HoldsUsdc, BalanceType
<1>3. MerchantKeepsAccounts'
  BY <1>2 DEF CloseAccount, MerchantKeepsAccounts, HoldsUsdc
<1> QED
  BY <1>1, <1>3

\* Where the accounts are those the transaction began with, none is lost.
LEMMA SameAccountsAreKept ==
    ASSUME BalanceType', before' = account'
    PROVE  MerchantKeepsAccounts'
<1> SUFFICES ASSUME NEW o \in Positions, HoldsUsdc(before', o)
             PROVE  HoldsUsdc(account', o) /\ account'[o].amount >= before'[o].amount
  BY DEF MerchantKeepsAccounts, HoldsUsdc
<1>1. account'[o] \in TokenAccounts
  BY DEF BalanceType, HoldsUsdc
<1> QED
  BY <1>1, BalanceAssumption DEF HoldsUsdc, TokenAccounts

LEMMA BeginKeepsAccounts ==
    ASSUME AccountsInvariant, BeginTransaction
    PROVE  AccountsInvariant'
<1>1. BalanceType' /\ before' = account'
  BY DEF AccountsInvariant, BeginTransaction, BalanceType
<1> QED
  BY <1>1, SameAccountsAreKept DEF AccountsInvariant

LEMMA FinalizeKeepsAccounts ==
    ASSUME AccountsInvariant, Finalize
    PROVE  AccountsInvariant'
<1>1. BalanceType'
  BY DEF AccountsInvariant, Finalize, BalanceType, Metas
<1>2. CASE meta'.err
  BY <1>1, <1>2, SameAccountsAreKept DEF AccountsInvariant, Finalize
<1>3. CASE ~meta'.err
  BY <1>1, <1>3 DEF AccountsInvariant, Finalize, MerchantKeepsAccounts, HoldsUsdc
<1> QED
  BY <1>2, <1>3

LEMMA StepKeepsAccounts ==
    ASSUME AccountsInvariant, [BalanceNext]_balanceVars
    PROVE  AccountsInvariant'
<1>1. CASE BeginTransaction
  BY <1>1, BeginKeepsAccounts
<1>2. CASE Finalize
  BY <1>2, FinalizeKeepsAccounts
<1>3. ASSUME NEW p \in Positions, NEW q \in Positions, NEW n \in 1 .. Supply,
             Transfer(p, q, n)
      PROVE  AccountsInvariant'
  BY <1>3, TransferKeepsAccounts
<1>4. ASSUME NEW p \in Positions, NEW owner \in Owners, NEW mint \in Mints,
             OpenAccount(p, owner, mint)
      PROVE  AccountsInvariant'
  BY <1>4, OpenKeepsAccounts
<1>5. ASSUME NEW p \in Positions, CloseAccount(p)
      PROVE  AccountsInvariant'
  BY <1>5, CloseKeepsAccounts
<1>6. CASE UNCHANGED balanceVars
  BY <1>6 DEF balanceVars, AccountsInvariant, BalanceType, MerchantKeepsAccounts, HoldsUsdc
<1> QED
  BY <1>1, <1>2, <1>3, <1>4, <1>5, <1>6 DEF BalanceNext

-----------------------------------------------------------------------------

\* What the handler finds in a list, whole or missing, is a balance.
LEMMA BalanceIsNat ==
    ASSUME NEW accounts \in [Positions -> TokenAccounts \cup {None}], NEW listed \in BOOLEAN
    PROVE  /\ FindMerchantBalance(Reported(accounts, listed)) \in Nat
           /\ ~listed => FindMerchantBalance(Reported(accounts, listed)) = 0
<1> DEFINE balances == Reported(accounts, listed)
           mine == MerchantEntries(balances)
<1>1. balances \in [Positions -> TokenAccounts \cup {None}] /\ (~listed => mine = {})
  BY DEF Reported, MerchantEntries
<1>2. CASE mine = {}
  BY <1>2 DEF FindMerchantBalance
<1>3. CASE mine # {}
  <2>1. FirstOf(mine) \in mine
    BY <1>3, FirstIsLeast DEF MerchantEntries
  <2>2. balances[FirstOf(mine)] \in TokenAccounts
    BY <1>1, <2>1 DEF MerchantEntries
  <2>3. balances[FirstOf(mine)].amount \in Nat
    BY <2>2, BalanceAssumption DEF TokenAccounts
  <2> QED
    BY <1>1, <1>3, <2>3 DEF FindMerchantBalance
<1> QED
  BY <1>2, <1>3

LEMMA AcceptedIsReceived == AccountsInvariant => VerifiedIsReceived
<1> SUFFICES ASSUME AccountsInvariant, meta.post => meta.pre,
                    NEW n \in 1 .. Supply, VerifyPayment(n)
             PROVE  \E p \in Positions : Received(p, n)
  BY DEF VerifiedIsReceived
<1> USE DEF AccountsInvariant
<1> DEFINE found == MerchantEntries(account)
           held  == MerchantEntries(before)
           p     == FirstOf(found)
<1>1. n \in Nat /\ n > 0
  BY BalanceAssumption
<1>2. meta.post /\ meta.pre
  <2> SUFFICES ASSUME ~meta.post PROVE FALSE
    OBVIOUS
  <2>1. /\ FindMerchantBalance(Reported(account, meta.post)) = 0
        /\ FindMerchantBalance(Reported(before, meta.pre)) \in Nat
    BY BalanceIsNat DEF BalanceType, Metas
  <2>2. Delta = 0
    BY <2>1 DEF Delta, SaturatingSub
  <2> QED
    BY <1>1, <2>2 DEF VerifyPayment
<1>3. Delta = SaturatingSub(FindMerchantBalance(account), FindMerchantBalance(before))
  BY <1>2 DEF Delta, Reported
<1>4. /\ found \in SUBSET Positions /\ held \in SUBSET Positions
      /\ \A o \in Positions : o \in found <=> HoldsUsdc(account, o)
      /\ \A o \in Positions : o \in held <=> HoldsUsdc(before, o)
  BY DEF MerchantEntries, HoldsUsdc
<1>5. /\ \A o \in found : account[o] \in TokenAccounts /\ account[o].amount \in Nat
      /\ \A o \in held : before[o] \in TokenAccounts /\ before[o].amount \in Nat
  <2>1. /\ \A o \in found : account[o] \in TokenAccounts
        /\ \A o \in held : before[o] \in TokenAccounts
    BY <1>4 DEF BalanceType, HoldsUsdc
  <2> QED
    BY <2>1, BalanceAssumption DEF TokenAccounts
<1>6. /\ FindMerchantBalance(account) = IF found = {} THEN 0 ELSE account[FirstOf(found)].amount
      /\ FindMerchantBalance(before) = IF held = {} THEN 0 ELSE before[FirstOf(held)].amount
      /\ found # {} => FirstOf(found) \in found /\ \A q \in found : FirstOf(found) <= q
      /\ held # {} => FirstOf(held) \in held /\ \A q \in held : FirstOf(held) <= q
  BY <1>4, FirstIsLeast DEF FindMerchantBalance
<1> HIDE DEF found, held
<1>7. FindMerchantBalance(before) \in Nat
  BY <1>5, <1>6
<1>8. found # {}
  <2> SUFFICES ASSUME found = {} PROVE FALSE
    OBVIOUS
  <2>1. FindMerchantBalance(account) = 0
    BY <1>6
  <2>2. Delta = 0
    BY <1>3, <1>7, <2>1 DEF SaturatingSub
  <2> QED
    BY <1>1, <2>2 DEF VerifyPayment
<1>9. /\ p \in Positions /\ HoldsUsdc(account, p)
      /\ \A q \in found : p <= q
      /\ FindMerchantBalance(account) = account[p].amount
  BY <1>4, <1>6, <1>8
<1>10. account[p].amount \in Nat
  BY <1>5, <1>6, <1>8
<1>11. account[p].amount >= n + FindMerchantBalance(before)
  BY <1>1, <1>3, <1>9, <1>10, <1>7 DEF VerifyPayment, SaturatingSub
<1>12. CASE HoldsUsdc(before, p)
  <2>1. held # {} /\ FirstOf(held) \in held /\ FirstOf(held) <= p
    BY <1>4, <1>6, <1>9, <1>12
  <2>2. FirstOf(held) \in found
    BY <1>4, <2>1 DEF MerchantKeepsAccounts
  <2>3. FirstOf(held) = p
    <3>1. FirstOf(held) \in Nat /\ p \in Nat
      BY <1>4, <1>9, <2>1, BalanceAssumption
    <3> QED
      BY <1>9, <2>1, <2>2, <3>1
  <2>4. FindMerchantBalance(before) = before[p].amount
    BY <1>6, <2>1, <2>3
  <2> QED
    BY <1>9, <1>11, <1>12, <2>4 DEF Received
<1>13. CASE ~HoldsUsdc(before, p)
  <2>1. account[p].amount >= n
    BY <1>1, <1>10, <1>11, <1>7
  <2> QED
    BY <1>1, <1>9, <1>13, <2>1 DEF Received
<1> QED
  BY <1>12, <1>13

\* With one account after the transaction there was no other one before it.
LEMMA SoleAccountIsFound == AccountsInvariant => SoleAccountIsSeen
<1> SUFFICES ASSUME AccountsInvariant, ~meta.err, meta.post,
                    NEW p \in Positions, NEW n \in 1 .. Supply, Received(p, n),
                    \A q \in Positions : HoldsUsdc(account, q) => q = p
             PROVE  VerifyPayment(n)
  BY DEF SoleAccountIsSeen
<1> USE DEF AccountsInvariant
<1> DEFINE found == MerchantEntries(account)
           held  == MerchantEntries(before)
<1>1. HoldsUsdc(account, p)
  BY DEF Received
<1>2. /\ \A o \in Positions : o \in found <=> HoldsUsdc(account, o)
      /\ \A o \in Positions : o \in held <=> HoldsUsdc(before, o)
      /\ found \in SUBSET Positions /\ held \in SUBSET Positions
  BY DEF MerchantEntries, HoldsUsdc
<1>3. found = {p}
  BY <1>1, <1>2
<1>4. held = IF HoldsUsdc(before, p) THEN {p} ELSE {}
  <2>1. \A o \in Positions : HoldsUsdc(before, o) => o = p
    BY DEF MerchantKeepsAccounts
  <2> QED
    BY <1>2, <2>1
<1>5. FirstOf({p}) = p
  <2>1. {p} \in SUBSET Positions /\ {p} # {}
    OBVIOUS
  <2> QED
    BY <2>1, FirstIsLeast
<1>6. FindMerchantBalance(account) = account[p].amount
  BY <1>3, <1>5 DEF FindMerchantBalance
<1>7. FindMerchantBalance(before) = IF HoldsUsdc(before, p) THEN before[p].amount ELSE 0
  BY <1>4, <1>5 DEF FindMerchantBalance
<1>8. account[p].amount \in Nat /\ (HoldsUsdc(before, p) => before[p].amount \in Nat)
  <2>1. account[p] \in TokenAccounts /\ (HoldsUsdc(before, p) => before[p] \in TokenAccounts)
    BY <1>1 DEF BalanceType, HoldsUsdc
  <2> QED
    BY <2>1, BalanceAssumption DEF TokenAccounts
<1> DEFINE reported == FindMerchantBalance(Reported(before, meta.pre))
<1>9. Delta = SaturatingSub(FindMerchantBalance(account), reported)
  BY DEF Delta, Reported
<1>10. n \in Nat /\ account[p].amount >= n + FindMerchantBalance(before)
  BY <1>7, BalanceAssumption DEF Received
<1>11. reported \in Nat /\ reported <= FindMerchantBalance(before)
  <2>1. meta.pre \in BOOLEAN /\ FindMerchantBalance(before) \in Nat
    BY <1>7, <1>8 DEF BalanceType, Metas
  <2>2. CASE meta.pre
    BY <2>1, <2>2 DEF Reported
  <2>3. CASE ~meta.pre
    <3>1. reported = 0
      BY <2>1, <2>3, BalanceIsNat DEF BalanceType
    <3> QED
      BY <2>1, <3>1
  <2> QED
    BY <2>2, <2>3
<1>12. Delta >= n
  <2>1. FindMerchantBalance(before) \in Nat
    BY <1>7, <1>8
  <2> HIDE DEF reported
  <2> QED
    BY <1>6, <1>8, <1>9, <1>10, <1>11, <2>1 DEF SaturatingSub
<1> QED
  BY <1>12 DEF VerifyPayment

\* In every reachable state of a transaction the merchant still has the
\* accounts it began with.
LEMMA AccountsKept == BalanceSpec => []AccountsInvariant
<1>1. AccountsInvariant /\ [BalanceNext]_balanceVars => AccountsInvariant'
  BY StepKeepsAccounts
<1> QED
  BY InitKeepsAccounts, <1>1, PTL DEF BalanceSpec

\* What verify_payment_on_chain accepts was received on one account of the
\* merchant's, for any number of accounts, owners and tokens, unless the RPC
\* reports the balances after the transaction without those before it.
THEOREM AcceptedPaymentsAreReceived == BalanceSpec => []VerifiedIsReceived
<1> QED
  BY AccountsKept, AcceptedIsReceived, PTL

\* A merchant with one account is never told that a payment it received is
\* missing, for any number of accounts of others beside it.
THEOREM SoleAccountsAreSeen == BalanceSpec => []SoleAccountIsSeen
<1> QED
  BY AccountsKept, SoleAccountIsFound, PTL

-----------------------------------------------------------------------------
(* The schedule.                                                           *)

\* The pause after each attempt, and what the pauses amount to.
LEMMA DelayTable ==
    /\ Delay(0) = 1 /\ Delay(1) = 2 /\ Delay(2) = 4
    /\ \A n \in 3 .. (MaxAttempts - 1) : Delay(n) = 8
<1>1. 2 ^ 0 = 1 /\ 2 ^ 1 = 2 /\ 2 ^ 2 = 4
  OBVIOUS
<1>2. 2 ^ 3 = 8 /\ 2 ^ 4 = 16 /\ 2 ^ 5 = 32 /\ 2 ^ 6 = 64
  OBVIOUS
<1>3. 2 ^ 7 = 128 /\ 2 ^ 8 = 256 /\ 2 ^ 9 = 512
  OBVIOUS
<1>4. Delay(0) = 1 /\ Delay(1) = 2 /\ Delay(2) = 4
  BY <1>1 DEF Delay, InitialDelay
<1>5. ASSUME NEW n \in 3 .. (MaxAttempts - 1) PROVE Delay(n) = 8
  <2>1. n = 3 \/ n = 4 \/ n = 5 \/ n = 6 \/ n = 7 \/ n = 8 \/ n = 9
    BY DEF MaxAttempts
  <2>2. Delay(3) = 8 /\ Delay(4) = 8 /\ Delay(5) = 8 /\ Delay(6) = 8
    BY <1>2 DEF Delay, InitialDelay
  <2>3. Delay(7) = 8 /\ Delay(8) = 8 /\ Delay(9) = 8
    BY <1>3 DEF Delay, InitialDelay
  <2> QED
    BY <2>1, <2>2, <2>3
<1> QED
  BY <1>4, <1>5

LEMMA PausesAddUp ==
    ASSUME NEW n \in 0 .. (MaxAttempts - 1)
    PROVE  /\ Paused(n) \in Nat /\ Delay(n) \in Nat
           /\ Paused(n + 1) = Paused(n) + Delay(n)
           /\ Paused(n) <= 55
           /\ n >= 4 => Paused(n) >= 15
<1>1. n = 0 \/ n = 1 \/ n = 2 \/ n = 3 \/ n \in 4 .. 9
  BY DEF MaxAttempts
<1>2. CASE n \in {0, 1, 2}
  BY <1>2, DelayTable DEF Paused
<1>3. CASE n = 3
  BY <1>3, DelayTable DEF Paused, MaxAttempts
<1>4. CASE n \in 4 .. 9
  BY <1>4, DelayTable DEF Paused, MaxAttempts
<1> QED
  BY <1>1, <1>2, <1>3, <1>4

-----------------------------------------------------------------------------

ScheduleInvariant == PollType /\ OnSchedule

LEMMA InitOnSchedule == PollInit => ScheduleInvariant
  BY ScheduleAssumption
  DEF PollInit, ScheduleInvariant, PollType, OnSchedule, Paused, MaxAttempts

LEMMA FoundOnSchedule ==
    ASSUME ScheduleInvariant, NEW latency \in Latencies, Found(latency)
    PROVE  ScheduleInvariant'
<1> USE DEF ScheduleInvariant
<1>1. /\ now' = now + latency /\ asked' = asked + latency
      /\ pc = "asking" /\ pc' = "found"
      /\ attempt' = attempt /\ finalAt' = finalAt /\ errors' = errors
  BY DEF Found
<1>2. latency \in Nat /\ Paused(attempt) \in Nat
  BY ScheduleAssumption, PausesAddUp DEF PollType
<1>3. PollType'
  BY <1>1, <1>2 DEF PollType
<1>4. OnSchedule'
  BY <1>1, <1>2 DEF OnSchedule, PollType, MaxAttempts
<1> QED
  BY <1>3, <1>4

\* An attempt without the transaction: an error, or too early for finality.
LEMMA RetryOnSchedule ==
    ASSUME ScheduleInvariant, NEW latency \in Latencies, Retry(latency),
           errors' = errors + 1 \/ (errors' = errors /\ finalAt > now)
    PROVE  ScheduleInvariant'
<1> USE DEF ScheduleInvariant
<1>1. /\ latency \in Nat /\ Paused(attempt) \in Nat /\ Delay(attempt) \in Nat
      /\ Paused(attempt + 1) = Paused(attempt) + Delay(attempt)
      /\ attempt >= 4 => Paused(attempt) >= 15
  BY ScheduleAssumption, PausesAddUp DEF PollType
<1>2. pc = "asking" /\ finalAt' = finalAt /\ asked' = asked + latency
  BY DEF Retry
<1>3. /\ now \in Nat /\ asked \in Nat /\ attempt \in 0 .. 9 /\ finalAt \in Nat /\ errors \in Nat
      /\ now = Paused(attempt) + asked /\ errors <= attempt
      /\ finalAt <= 15 => errors >= attempt - 4
  BY <1>2 DEF PollType, OnSchedule, MaxAttempts
<1>4. /\ errors' \in Nat /\ errors' <= attempt + 1
      /\ finalAt <= 15 => errors' >= attempt + 1 - 4
  BY <1>1, <1>3
<1>5. CASE attempt + 1 < MaxAttempts
  <2>1. now' = now + latency + Delay(attempt) /\ attempt' = attempt + 1 /\ pc' = "asking"
    BY <1>2, <1>5 DEF Retry
  <2>2. PollType'
    BY <1>1, <1>2, <1>3, <1>4, <1>5, <2>1 DEF PollType, MaxAttempts
  <2>3. now' = Paused(attempt') + asked'
    BY <1>1, <1>2, <1>3, <2>1
  <2>4. OnSchedule'
    BY <1>2, <1>3, <1>4, <2>1, <2>3 DEF OnSchedule
  <2> QED
    BY <2>2, <2>4
<1>6. CASE ~(attempt + 1 < MaxAttempts)
  <2>1. now' = now + latency /\ attempt' = attempt /\ pc' = "gaveUp" /\ attempt + 1 = MaxAttempts
    BY <1>3, <1>6 DEF Retry, MaxAttempts
  <2>2. PollType'
    BY <1>1, <1>2, <1>3, <1>4, <2>1 DEF PollType, MaxAttempts
  <2>3. now' = Paused(attempt') + asked'
    BY <1>1, <1>2, <1>3, <2>1
  <2>4. OnSchedule'
    BY <1>2, <1>3, <1>4, <2>1, <2>3 DEF OnSchedule
  <2> QED
    BY <2>2, <2>4
<1> QED
  BY <1>5, <1>6

LEMMA StepOnSchedule ==
    ASSUME ScheduleInvariant, [PollNext]_pollVars
    PROVE  ScheduleInvariant'
<1>1. ASSUME NEW latency \in Latencies, Found(latency) PROVE ScheduleInvariant'
  BY <1>1, FoundOnSchedule
<1>2. ASSUME NEW latency \in Latencies, NotFinal(latency) PROVE ScheduleInvariant'
  BY <1>2, RetryOnSchedule DEF NotFinal
<1>3. ASSUME NEW latency \in Latencies, RpcError(latency) PROVE ScheduleInvariant'
  BY <1>3, RetryOnSchedule DEF RpcError
<1>4. CASE UNCHANGED pollVars
  BY <1>4 DEF pollVars, ScheduleInvariant, PollType, OnSchedule
<1> QED
  BY <1>1, <1>2, <1>3, <1>4 DEF PollNext

LEMMA ScheduleImplies ==
    ScheduleInvariant => OverrunIsTheRpcs /\ TypicalFinalityIsSeen
<1> SUFFICES ASSUME ScheduleInvariant PROVE OverrunIsTheRpcs /\ TypicalFinalityIsSeen
  OBVIOUS
<1> USE DEF ScheduleInvariant
<1>1. Paused(attempt) \in Nat /\ Paused(attempt) <= 55
  BY PausesAddUp DEF PollType
<1>2. OverrunIsTheRpcs
  BY <1>1 DEF OverrunIsTheRpcs, OnSchedule, PollType, MaxTimeoutSeconds
<1>3. TypicalFinalityIsSeen
  BY DEF TypicalFinalityIsSeen, OnSchedule, PollType, MaxAttempts
<1> QED
  BY <1>2, <1>3

\* The attempts are made on schedule, for every latency and finality.
THEOREM PollOnSchedule == PollSpec => []ScheduleInvariant
<1>1. ScheduleInvariant /\ [PollNext]_pollVars => ScheduleInvariant'
  BY StepOnSchedule
<1> QED
  BY InitOnSchedule, <1>1, PTL DEF PollSpec

\* An overrun of max_timeout_seconds is due to the RPC, and not to the pauses.
THEOREM PausesAreBounded == PollSpec => []OverrunIsTheRpcs
<1> QED
  BY PollOnSchedule, ScheduleImplies, PTL

\* A transaction final within 15 seconds is not missed for lack of patience.
THEOREM PollSeesTypicalFinality == PollSpec => []TypicalFinalityIsSeen
<1> QED
  BY PollOnSchedule, ScheduleImplies, PTL

=============================================================================
