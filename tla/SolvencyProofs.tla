---------------------------- MODULE SolvencyProofs ----------------------------
(***************************************************************************)
(* What the books of ShareProofs and LendingProofs come to, for every      *)
(* number of reserves, wallets and obligations: the pool can meet every    *)
(* claim on it, a borrower whose cached values flatter nobody cannot leave *)
(* its limit by withdrawing or by borrowing, and whoever owes can pay.     *)
(***************************************************************************)
EXTENDS ShareProofs

-------------------------------------------------------------------------------
\* The pool is solvent.

\* Redeemed one by one and rounded down, the parts of a supply come to no more than
\* the whole: a family of share balances f, at total over supply.
LEMMA ClaimsOfFamily ==
  ASSUME NEW n \in Nat, NEW f \in [1..n -> Nat], NEW total \in Nat, NEW supply \in Nat \ {0},
         NEW g, g = [i \in 1..n |-> mul_div_floor(f[i], total, supply)]
  PROVE  /\ SumTo(g, n) \in Nat /\ SumTo(f, n) \in Nat
         /\ supply * SumTo(g, n) <= total * SumTo(f, n)
<1>1. ASSUME NEW i \in 1..n
      PROVE  g[i] \in Nat /\ supply * g[i] <= total * f[i]
  <2>1. /\ mul_div_floor(f[i], total, supply) \in Nat
        /\ mul_div_floor(f[i], total, supply) * supply <= f[i] * total
    BY FloorNat
  <2> QED
    BY <2>1
<1>2. g \in [1..n -> Nat]
  BY <1>1
<1>3. f \in [1..n -> Int] /\ g \in [1..n -> Int]
  BY <1>2
<1>4. supply * SumTo(g, n) <= total * SumTo(f, n)
  BY <1>1, <1>3, SumsCompared
<1> QED
  BY <1>2, <1>4, SumOfNaturals

\* All claims on a reserve together are within its total.
LEMMA ClaimsWithinTotal ==
  ASSUME LendingInv, MirrorCoversShares, NEW r \in Reserves, FeesCovered(r)
  PROVE  Claims(r) \in Nat /\ Claims(r) <= total_liquidity(reserve[r])
<1> DEFINE total == total_liquidity(reserve[r])
           supply == AtLeast(reserve[r].share_mint_supply, 1)
           inWallets == [w \in Wallets |-> wallet[w][r]]
           inCustody == [o \in Owners |-> custody[o][r]]
           ofWallets == [w \in Wallets |-> mul_div_floor(wallet[w][r], total, supply)]
           ofCustody == [o \in Owners |-> mul_div_floor(custody[o][r], total, supply)]
           ofFees == mul_div_floor(fee_shares[r], total, supply)
<1>1. /\ NumWallets \in Nat /\ Wallets = 1..NumWallets
      /\ NumOwners \in Nat /\ Owners = 1..NumOwners
  BY LendingAssumption DEF Wallets, Owners
<1>2. reserve[r] \in ReserveType /\ reserve[r].share_mint_supply \in Nat
  BY DEF LendingInv, TypeOK, ReserveType
<1>3. total \in Nat /\ supply \in Nat \ {0}
  <2>1. gross_liquidity(reserve[r]) \in Nat /\ reserve[r].accrued_fees \in Nat
    BY <1>2, UtilizationNat DEF ReserveType
  <2> QED
    BY <1>2, <2>1 DEF FeesCovered, total_liquidity, AtLeast
<1>4. /\ inWallets \in [1..NumWallets -> Nat] /\ inCustody \in [1..NumOwners -> Nat]
      /\ fee_shares[r] \in Nat
  BY <1>1 DEF LendingInv, TypeOK
<1>5. Claims(r) = SumTo(ofWallets, NumWallets) + SumTo(ofCustody, NumOwners) + ofFees
  BY DEF Claims, shares_to_liquidity_floor
<1>6. SharesHeld(r) = SumTo(inWallets, NumWallets) + SumTo(inCustody, NumOwners) + fee_shares[r]
  BY DEF SharesHeld
<1>7. SharesHeld(r) <= supply
  BY <1>2, HeldTyped DEF LendingInv, MirrorCoversShares, AtLeast
<1> HIDE DEF total, supply
<1>8. /\ ofWallets = [i \in 1..NumWallets |-> mul_div_floor(inWallets[i], total, supply)]
      /\ ofCustody = [i \in 1..NumOwners |-> mul_div_floor(inCustody[i], total, supply)]
  BY <1>1
<1> HIDE DEF inWallets, inCustody, ofWallets, ofCustody
<1>9. /\ SumTo(ofWallets, NumWallets) \in Nat /\ SumTo(inWallets, NumWallets) \in Nat
      /\ supply * SumTo(ofWallets, NumWallets) <= total * SumTo(inWallets, NumWallets)
  BY <1>1, <1>3, <1>4, <1>8, ClaimsOfFamily
<1>10. /\ SumTo(ofCustody, NumOwners) \in Nat /\ SumTo(inCustody, NumOwners) \in Nat
       /\ supply * SumTo(ofCustody, NumOwners) <= total * SumTo(inCustody, NumOwners)
  BY <1>1, <1>3, <1>4, <1>8, ClaimsOfFamily
<1>11. ofFees \in Nat /\ ofFees * supply <= fee_shares[r] * total
  BY <1>3, <1>4, FloorNat
<1> HIDE DEF ofFees
<1> DEFINE a == SumTo(ofWallets, NumWallets)
           b == SumTo(ofCustody, NumOwners)
           x == SumTo(inWallets, NumWallets)
           y == SumTo(inCustody, NumOwners)
           z == fee_shares[r]
<1>12. /\ a \in Nat /\ b \in Nat /\ x \in Nat /\ y \in Nat /\ z \in Nat
       /\ supply * a <= total * x /\ supply * b <= total * y /\ ofFees * supply <= z * total
       /\ x + y + z <= supply
  BY <1>4, <1>6, <1>7, <1>9, <1>10, <1>11
<1>13. Claims(r) = a + b + ofFees
  BY <1>5
<1> HIDE DEF a, b, x, y, z
<1>14. (a + b + ofFees) * supply <= total * (x + y + z)
  <2>1. (a + b + ofFees) * supply = supply * a + supply * b + ofFees * supply
    BY <1>3, <1>11, <1>12
  <2>2. total * (x + y + z) = total * x + total * y + z * total
    BY <1>3, <1>12
  <2>3. /\ supply * a \in Nat /\ supply * b \in Nat /\ ofFees * supply \in Nat
        /\ total * x \in Nat /\ total * y \in Nat /\ z * total \in Nat
    BY <1>3, <1>11, <1>12, ProductNat
  <2> QED
    BY <1>12, <2>1, <2>2, <2>3
<1>15. total * (x + y + z) <= total * supply
  BY <1>3, <1>12
<1>16. a + b + ofFees <= total
  <2> DEFINE claims == a + b + ofFees
  <2>1. claims \in Nat
    BY <1>11, <1>12
  <2>2. claims * supply <= total * supply
    <3>1. /\ claims * supply \in Nat /\ total * (x + y + z) \in Nat /\ total * supply \in Nat
      BY <1>3, <1>12, <2>1, ProductNat
    <3> QED
      BY <1>14, <1>15, <3>1
  <2> HIDE DEF claims
  <2>3. claims <= total
    BY <1>3, <2>1, <2>2
  <2> QED
    BY <2>3 DEF claims
<1> QED
  BY <1>11, <1>12, <1>13, <1>16 DEF total

\* What the holders of shares and the booked fees can claim is in the vault or owed.
THEOREM PoolIsAlwaysSolvent == Spec => []PoolIsSolvent
<1>1. LendingInv /\ MirrorCoversShares /\ PoolDebtIsOwed => PoolIsSolvent
  <2> SUFFICES ASSUME LendingInv, MirrorCoversShares, PoolDebtIsOwed,
                      NEW r \in Reserves, FeesCovered(r)
               PROVE  Claims(r) + reserve[r].accrued_fees
                        <= vault[r] + SumTo([o \in Owners |-> Debt(o, r)], NumOwners)
    BY DEF PoolIsSolvent
  <2> DEFINE lent == current_borrowed_amount(reserve[r])
             owed == SumTo([o \in Owners |-> Debt(o, r)], NumOwners)
  <2>1. Claims(r) \in Nat /\ Claims(r) <= total_liquidity(reserve[r])
    BY ClaimsWithinTotal
  <2>2. /\ reserve[r].available_liquidity \in Nat /\ reserve[r].accrued_fees \in Nat
        /\ lent \in Nat /\ vault[r] \in Nat
    <3>1. reserve[r] \in ReserveType /\ vault[r] \in Nat
      BY DEF LendingInv, TypeOK
    <3> QED
      BY <3>1, UtilizationNat DEF ReserveType
  <2>3. total_liquidity(reserve[r])
          = reserve[r].available_liquidity + lent - reserve[r].accrued_fees
    BY <2>2 DEF total_liquidity, gross_liquidity
  <2>4. reserve[r].available_liquidity <= vault[r]
    BY DEF LendingInv, VaultBacksBooks
  <2>5. owed \in Nat /\ lent <= owed
    <3>1. NumOwners \in Nat /\ Owners = 1..NumOwners
      BY LendingAssumption DEF Owners
    <3>2. ASSUME NEW o \in Owners PROVE Debt(o, r) \in Nat
      <4>1. obligation[o].borrows[r] \in Nat /\ reserve[r].borrow_index \in Nat
        BY DEF LendingInv, TypeOK, ReserveType, ObligationType
      <4> QED
        BY <4>1, DebtNat DEF Debt
    <3>3. [o \in Owners |-> Debt(o, r)] \in [1..NumOwners -> Nat]
      BY <3>1, <3>2
    <3> QED
      BY <3>1, <3>3, SumOfNaturals DEF PoolDebtIsOwed
  <2> HIDE DEF lent, owed
  <2>6. Claims(r) + reserve[r].accrued_fees <= vault[r] + owed
    BY <2>1, <2>2, <2>3, <2>4, <2>5
  <2> QED
    BY <2>6 DEF owed
<1> QED
  BY <1>1, LendingInvariant, MirrorAlwaysCoversShares, PoolDebtIsAlwaysOwed, PTL

-------------------------------------------------------------------------------
\* Withdrawing collateral keeps the limit.

\* What shares of r add to a limit that counts their worth at a weight: the loan to
\* value for the borrow limit, the threshold for the liquidation limit.
WeightedWorth(r, shares, weight) ==
  mul_div_floor(EffectiveWorth(r, shares), weight, BPS_DENOMINATOR)

\* The same with every step rounded up.
WeightedWorthCeil(r, shares, weight) ==
  mul_div_ceil(
    mul_div_ceil(
      market_value_ceil(shares_to_liquidity_ceil(reserve[r], shares),
                        TokenUnit[r], oracle[r].rate),
      BPS_DENOMINATOR - config[r].collateral_haircut_bps, BPS_DENOMINATOR),
    weight, BPS_DENOMINATOR)

\* What shares of r add to the borrow limit of the position they secure.
Allowance(r, shares) == WeightedWorth(r, shares, config[r].loan_to_value_bps)

LEMMA WeightedWorthNat ==
  ASSUME LendingInv, NEW r \in Reserves, NEW shares \in Nat, NEW weight \in Nat,
         TotalDefined(reserve[r]) \/ shares = 0
  PROVE  WeightedWorth(r, shares, weight) \in Nat
<1>1. shares_to_liquidity_floor(reserve[r], shares) \in Nat
  BY LiquidityTyped DEF LendingInv, TypeOK
<1>2. oracle[r].rate \in Nat /\ TokenUnit[r] \in Nat \ {0}
  BY ConfigTyped DEF LendingInv, TypeOK, OracleType
<1>3. /\ config[r].collateral_haircut_bps \in Nat
      /\ config[r].collateral_haircut_bps <= BPS_DENOMINATOR
  BY ConfigTyped DEF LendingInv
<1>4. EffectiveWorth(r, shares) \in Nat
  BY <1>1, <1>2, <1>3, ValueNat, HaircutNat DEF EffectiveWorth
<1> QED
  BY <1>4, FloorNat, ScaleAssumption DEF WeightedWorth

\* Taking shares away lowers a limit by no more than their worth rounded up: four
\* roundings down of the whole against four up of what is taken.
LEMMA WeightedWorthSplits ==
  ASSUME LendingInv, NEW r \in Reserves, NEW left \in Nat, NEW taken \in Nat,
         NEW weight \in Nat, TotalDefined(reserve[r])
  PROVE  /\ WeightedWorthCeil(r, taken, weight) \in Nat
         /\ WeightedWorth(r, left + taken, weight)
              <= WeightedWorth(r, left, weight) + WeightedWorthCeil(r, taken, weight)
<1> DEFINE total == total_liquidity(reserve[r])
           supply == AtLeast(reserve[r].share_mint_supply, 1)
           kept == BPS_DENOMINATOR - config[r].collateral_haircut_bps
           price == oracle[r].rate
           unit == TokenUnit[r]
           whole == left + taken
           w1 == mul_div_floor(whole, total, supply)
           l1 == mul_div_floor(left, total, supply)
           t1 == mul_div_ceil(taken, total, supply)
           w2 == mul_div_floor(w1, price, unit)
           l2 == mul_div_floor(l1, price, unit)
           t2 == mul_div_ceil(t1, price, unit)
           w3 == mul_div_floor(w2, kept, BPS_DENOMINATOR)
           l3 == mul_div_floor(l2, kept, BPS_DENOMINATOR)
           t3 == mul_div_ceil(t2, kept, BPS_DENOMINATOR)
           w4 == mul_div_floor(w3, weight, BPS_DENOMINATOR)
           l4 == mul_div_floor(l3, weight, BPS_DENOMINATOR)
           t4 == mul_div_ceil(t3, weight, BPS_DENOMINATOR)
<1>1. total \in Nat /\ supply \in Nat \ {0}
  <2>1. reserve[r] \in ReserveType
    BY DEF LendingInv, TypeOK
  <2>2. gross_liquidity(reserve[r]) \in Nat /\ reserve[r].accrued_fees \in Nat
    BY <2>1, UtilizationNat DEF ReserveType
  <2> QED
    BY <2>1, <2>2 DEF TotalDefined, total_liquidity, AtLeast, ReserveType
<1>2. /\ kept \in Nat /\ weight \in Nat /\ price \in Nat /\ unit \in Nat \ {0}
      /\ BPS_DENOMINATOR \in Nat \ {0}
  <2>1. price \in Nat
    BY DEF LendingInv, TypeOK, OracleType
  <2> QED
    BY <2>1, ConfigTyped, ScaleAssumption DEF LendingInv
<1>3. /\ WeightedWorth(r, left + taken, weight) = w4
      /\ WeightedWorth(r, left, weight) = l4
      /\ WeightedWorthCeil(r, taken, weight) = t4
  BY DEF WeightedWorth, EffectiveWorth, WeightedWorthCeil, shares_to_liquidity_floor,
         shares_to_liquidity_ceil, market_value_floor, market_value_ceil, apply_haircut
<1>4. whole \in Nat /\ whole <= left + taken
  OBVIOUS
<1> HIDE DEF total, supply, kept, price, unit, whole
<1>5. w1 \in Nat /\ l1 \in Nat /\ t1 \in Nat /\ w1 <= l1 + t1
  BY <1>1, <1>4, FloorNat, CeilNat, FloorSplits
<1> HIDE DEF w1, l1, t1
<1>6. w2 \in Nat /\ l2 \in Nat /\ t2 \in Nat /\ w2 <= l2 + t2
  BY <1>2, <1>5, FloorNat, CeilNat, FloorSplits
<1> HIDE DEF w2, l2, t2
<1>7. w3 \in Nat /\ l3 \in Nat /\ t3 \in Nat /\ w3 <= l3 + t3
  BY <1>2, <1>6, FloorNat, CeilNat, FloorSplits
<1> HIDE DEF w3, l3, t3
<1>8. w4 \in Nat /\ l4 \in Nat /\ t4 \in Nat /\ w4 <= l4 + t4
  BY <1>2, <1>7, FloorNat, CeilNat, FloorSplits
<1> HIDE DEF w4, l4, t4
<1> QED
  BY <1>3, <1>8

LEMMA AllowanceNat ==
  ASSUME LendingInv, NEW r \in Reserves, NEW shares \in Nat,
         TotalDefined(reserve[r]) \/ shares = 0
  PROVE  Allowance(r, shares) \in Nat
BY ConfigTyped, WeightedWorthNat DEF LendingInv, Allowance

\* What withdraw_collateral takes off the borrow limit covers what is taken.
LEMMA AllowanceSplits ==
  ASSUME LendingInv, NEW r \in Reserves, NEW left \in Nat, NEW taken \in Nat,
         TotalDefined(reserve[r])
  PROVE  /\ RemovedAllowance(r, taken) \in Nat
         /\ Allowance(r, left + taken) <= Allowance(r, left) + RemovedAllowance(r, taken)
<1>1. config[r].loan_to_value_bps \in Nat
  BY ConfigTyped DEF LendingInv
<1>2. RemovedAllowance(r, taken) = WeightedWorthCeil(r, taken, config[r].loan_to_value_bps)
  BY DEF RemovedAllowance, WeightedWorthCeil
<1> QED
  BY <1>1, <1>2, WeightedWorthSplits DEF Allowance

LEMMA WithdrawalStep ==
  ASSUME LendingInv, NEW o \in Owners, NEW r \in Reserves, NEW n \in Nat,
         WithdrawCollateral(o, r, n), Unflattering(o), Readable(o)
  PROVE  BorrowedValue(o)' <= AllowedValue(o)'
<1> DEFINE shares(q) == obligation[o].deposits[q]
           f == [q \in Reserves |-> Allowance(q, shares(q))]
           after == Allowance(r, shares(r) - n)
           removed == RemovedAllowance(r, n)
<1>1. /\ TotalDefined(reserve[r]) /\ n <= shares(r)
      /\ obligation[o].borrowed_value
           <= saturating_sub(obligation[o].allowed_borrow_value, removed)
      /\ obligation' = WithDeposit(o, r, -n)
      /\ UNCHANGED <<config, reserve, oracle>>
  BY DEF WithdrawCollateral
<1>2. NumReserves \in Nat /\ Reserves = 1..NumReserves
  BY LendingAssumption DEF Reserves
<1>3. /\ \A q \in Reserves : shares(q) \in Nat
      /\ obligation[o].borrowed_value \in Nat /\ obligation[o].allowed_borrow_value \in Nat
      /\ shares(r) - n \in Nat /\ (shares(r) - n) + n = shares(r)
  BY <1>1 DEF LendingInv, TypeOK, ObligationType
<1>4. /\ obligation'[o].borrows = obligation[o].borrows
      /\ obligation'[o].deposits = [obligation[o].deposits EXCEPT ![r] = shares(r) - n]
  <2>1. obligation \in [Owners -> ObligationType] /\ obligation[o].deposits[r] + (-n) = shares(r) - n
    BY <1>3 DEF LendingInv, TypeOK
  <2>2. obligation'[o] = [obligation[o] EXCEPT !.deposits[r] = @ + (-n), !.stale = TRUE]
    BY <1>1, <2>1 DEF WithDeposit
  <2> QED
    BY <2>1, <2>2 DEF ObligationType
<1>5. BorrowedValue(o)' = BorrowedValue(o)
  BY <1>1, <1>4 DEF BorrowedValue, Debt
<1>6. ASSUME NEW q \in Reserves PROVE f[q] \in Nat
  <2>1. TotalDefined(reserve[q]) \/ shares(q) = 0
    BY <1>3 DEF Readable, Entries
  <2> QED
    BY <1>3, <2>1, AllowanceNat
<1>7. f \in [1..NumReserves -> Nat] /\ r \in 1..NumReserves
  BY <1>2, <1>6
<1>8. after \in Nat
  BY <1>1, <1>3, AllowanceNat
<1>9. AllowedValue(o) = SumTo(f, NumReserves)
  BY DEF AllowedValue, EffectiveValue, EffectiveWorth, WeightedWorth, Allowance
<1>10. AllowedValue(o)' = SumTo([f EXCEPT ![r] = after], NumReserves)
  <2> DEFINE value(q) == mul_div_floor(EffectiveValue(o, q)', config'[q].loan_to_value_bps,
                                       BPS_DENOMINATOR)
  <2>1. ASSUME NEW q \in Reserves
        PROVE  value(q) = Allowance(q, obligation'[o].deposits[q])
    BY <1>1 DEF EffectiveValue, EffectiveWorth, WeightedWorth, Allowance
  <2>2. ASSUME NEW q \in Reserves
        PROVE  obligation'[o].deposits[q] = IF q = r THEN shares(r) - n ELSE shares(q)
    BY <1>4 DEF LendingInv, TypeOK, ObligationType
  <2>3. AllowedValue(o)' = SumTo([q \in Reserves |-> value(q)], NumReserves)
    BY DEF AllowedValue
  <2> HIDE DEF value
  <2>4. [q \in Reserves |-> value(q)] = [f EXCEPT ![r] = after]
    BY <2>1, <2>2
  <2> QED
    BY <2>3, <2>4
<1>11. f[r] \in Nat /\ removed \in Nat /\ f[r] <= after + removed
  BY <1>1, <1>3, <1>6, AllowanceSplits
<1>12. SumTo([f EXCEPT ![r] = after], NumReserves) = SumTo(f, NumReserves) - f[r] + after
  <2>1. f \in [1..NumReserves -> Int] /\ after \in Int
    BY <1>7, <1>8
  <2> QED
    BY <1>2, <1>7, <2>1, SumUpdate
<1>13. SumTo(f, NumReserves) \in Nat /\ SumTo([f EXCEPT ![r] = after], NumReserves) \in Nat
  <2>1. [f EXCEPT ![r] = after] \in [1..NumReserves -> Nat]
    BY <1>7, <1>8
  <2> QED
    BY <1>2, <1>7, <2>1, SumOfNaturals
<1>14. /\ obligation[o].borrowed_value = BorrowedValue(o)
       /\ obligation[o].allowed_borrow_value <= AllowedValue(o)
  BY DEF Unflattering
<1> HIDE DEF f, after, removed
<1>15. CASE obligation[o].allowed_borrow_value >= removed
  BY <1>1, <1>3, <1>5, <1>8, <1>9, <1>10, <1>11, <1>12, <1>13, <1>14, <1>15
     DEF saturating_sub
<1>16. CASE ~ (obligation[o].allowed_borrow_value >= removed)
  BY <1>1, <1>3, <1>5, <1>10, <1>13, <1>14, <1>16 DEF saturating_sub
<1> QED
  BY <1>15, <1>16

\* Whoever may withdraw collateral is still within the limit a refresh would find.
THEOREM WithdrawalAlwaysInLimit == Spec => WithdrawalStaysInLimit
<1>1. ASSUME LendingInv, NEW o \in Owners, NEW r \in Reserves, NEW n \in Amounts,
             WithdrawCollateral(o, r, n), Unflattering(o), Readable(o)
      PROVE  BorrowedValue(o)' <= AllowedValue(o)'
  <2>1. n \in Nat
    BY LendingAssumption
  <2> QED
    BY <1>1, <2>1, WithdrawalStep
<1>2. LendingInv
        => [\A o \in Owners, r \in Reserves, n \in Amounts :
              WithdrawCollateral(o, r, n) /\ Unflattering(o) /\ Readable(o)
              => BorrowedValue(o)' <= AllowedValue(o)']_vars
  BY <1>1
<1> QED
  BY <1>2, LendingInvariant, PTL DEF Spec, WithdrawalStaysInLimit

-------------------------------------------------------------------------------
\* Borrowing keeps the limit.

\* What a debt of r is worth to refresh_obligation.
DebtWorth(r, debt) == market_value_ceil(debt, TokenUnit[r], oracle[r].rate)

\* A new debt adds at most its own value and the slack of the rounded principal.
LEMMA NewDebtWorth ==
  ASSUME LendingInv, NEW o \in Owners, NEW r \in Reserves, NEW n \in Nat
  PROVE  /\ DebtWorth(r, Debt(o, r)) \in Nat /\ DebtWorth(r, n) \in Nat /\ BorrowSlack(r) \in Nat
         /\ DebtWorth(r, debt_at(obligation[o].borrows[r] + ScaledDebt(r, n),
                                 reserve[r].borrow_index)) \in Nat
         /\ DebtWorth(r, debt_at(obligation[o].borrows[r] + ScaledDebt(r, n),
                                 reserve[r].borrow_index))
              <= DebtWorth(r, Debt(o, r)) + (DebtWorth(r, n) + BorrowSlack(r))
<1> DEFINE principal == obligation[o].borrows[r]
           index == reserve[r].borrow_index
           old == debt_at(principal, index)
           new == debt_at(principal + ScaledDebt(r, n), index)
           one == mul_div_ceil(1, index, FIXED_POINT_SCALE)
           price == oracle[r].rate
           unit == TokenUnit[r]
<1>1. principal \in Nat /\ index \in Nat \ {0} /\ FIXED_POINT_SCALE \in Nat \ {0}
  <2>1. principal \in Nat /\ index \in Nat
    BY DEF LendingInv, TypeOK, ObligationType, ReserveType
  <2>2. index >= FIXED_POINT_SCALE /\ FIXED_POINT_SCALE \in Nat \ {0}
    BY ScaleAssumption DEF LendingInv, IndexAtLeastOne
  <2> QED
    BY <2>1, <2>2
<1>2. price \in Nat /\ unit \in Nat \ {0}
  BY ConfigTyped DEF LendingInv, TypeOK, OracleType
<1>3. /\ DebtWorth(r, Debt(o, r)) = mul_div_ceil(old, price, unit)
      /\ DebtWorth(r, n) = mul_div_ceil(n, price, unit)
      /\ DebtWorth(r, new) = mul_div_ceil(new, price, unit)
      /\ BorrowSlack(r) = mul_div_ceil(one, price, unit)
  BY DEF DebtWorth, Debt, BorrowSlack, market_value_ceil
<1>4. new <= old + (n + one)
  BY <1>1, DebtGrowsAtMost DEF ScaledDebt
<1>5. old \in Nat /\ new \in Nat /\ one \in Nat
  <2>1. ScaledDebt(r, n) \in Nat /\ one \in Nat
    BY <1>1, CeilNat DEF ScaledDebt
  <2>2. principal + ScaledDebt(r, n) \in Nat /\ index \in Nat
    BY <1>1, <2>1
  <2> QED
    BY <1>1, <2>1, <2>2, DebtNat
<1> HIDE DEF principal, index, old, new, one, price, unit
<1> DEFINE both == n + one
<1>6. both \in Nat /\ both <= n + one /\ new <= old + both
  BY <1>4, <1>5
<1> HIDE DEF both
<1>7. mul_div_ceil(new, price, unit) <= mul_div_ceil(old, price, unit) + mul_div_ceil(both, price, unit)
  BY <1>2, <1>5, <1>6, CeilSplits
<1>8. mul_div_ceil(both, price, unit) <= mul_div_ceil(n, price, unit) + mul_div_ceil(one, price, unit)
  BY <1>2, <1>5, <1>6, CeilSplits
<1>9. /\ mul_div_ceil(new, price, unit) \in Nat /\ mul_div_ceil(old, price, unit) \in Nat
      /\ mul_div_ceil(both, price, unit) \in Nat /\ mul_div_ceil(n, price, unit) \in Nat
      /\ mul_div_ceil(one, price, unit) \in Nat
  BY <1>2, <1>5, <1>6, CeilNat
<1>10. DebtWorth(r, new) <= DebtWorth(r, Debt(o, r)) + (DebtWorth(r, n) + BorrowSlack(r))
  BY <1>3, <1>7, <1>8, <1>9
<1> QED
  BY <1>3, <1>9, <1>10 DEF new, principal, index

LEMMA BorrowStep ==
  ASSUME LendingInv, LendingInv', CollateralHasSupply, CollateralHasSupply',
         NEW o \in Owners, NEW r \in Reserves, NEW n \in Nat,
         Borrow(o, r, n), Unflattering(o)
  PROVE  BorrowedValue(o)' <= AllowedValue(o)' + BorrowSlack(r)
<1> DEFINE f == [q \in Reserves |-> DebtWorth(q, Debt(o, q))]
           scaled == ScaledDebt(r, n)
           after == DebtWorth(r, debt_at(obligation[o].borrows[r] + scaled,
                                         reserve[r].borrow_index))
<1>1. /\ ProjectedValue(o, r, n) <= obligation[o].allowed_borrow_value
      /\ obligation' = WithDebt(o, r, scaled)
      /\ UNCHANGED <<config, oracle>>
  BY DEF Borrow
<1>2. NumReserves \in Nat /\ Reserves = 1..NumReserves
  BY LendingAssumption DEF Reserves
<1>3. /\ obligation'[o].deposits = obligation[o].deposits
      /\ obligation'[o].borrows =
           [obligation[o].borrows EXCEPT ![r] = obligation[o].borrows[r] + scaled]
  <2>1. obligation \in [Owners -> ObligationType]
    BY DEF LendingInv, TypeOK
  <2>2. obligation'[o] = [obligation[o] EXCEPT !.borrows[r] = @ + scaled, !.stale = TRUE]
    BY <1>1, <2>1 DEF WithDebt
  <2> QED
    BY <2>1, <2>2 DEF ObligationType
<1>4. \A q \in Reserves : reserve'[q].borrow_index = reserve[q].borrow_index
  BY DEF Borrow, LendingInv, TypeOK, ReserveType
<1>5. ASSUME NEW q \in Reserves PROVE f[q] \in Nat
  BY NewDebtWorth
<1>6. /\ f[r] \in Nat /\ DebtWorth(r, n) \in Nat /\ BorrowSlack(r) \in Nat /\ after \in Nat
      /\ after <= f[r] + (DebtWorth(r, n) + BorrowSlack(r))
  BY NewDebtWorth
<1>7. BorrowedValue(o) = SumTo(f, NumReserves)
  BY DEF BorrowedValue, DebtWorth
<1>8. BorrowedValue(o)' = SumTo([f EXCEPT ![r] = after], NumReserves)
  <2> DEFINE value(q) == market_value_ceil(Debt(o, q)', TokenUnit[q], oracle'[q].rate)
  <2>1. ASSUME NEW q \in Reserves
        PROVE  value(q) = DebtWorth(q, debt_at(obligation'[o].borrows[q],
                                               reserve[q].borrow_index))
    BY <1>1, <1>4 DEF DebtWorth, Debt
  <2>2. ASSUME NEW q \in Reserves
        PROVE  obligation'[o].borrows[q] = IF q = r THEN obligation[o].borrows[r] + scaled
                                           ELSE obligation[o].borrows[q]
    BY <1>3 DEF LendingInv, TypeOK, ObligationType
  <2>3. BorrowedValue(o)' = SumTo([q \in Reserves |-> value(q)], NumReserves)
    BY DEF BorrowedValue
  <2> HIDE DEF value, scaled
  <2>4. [q \in Reserves |-> value(q)] = [f EXCEPT ![r] = after]
    BY <2>1, <2>2 DEF Debt
  <2> QED
    BY <2>3, <2>4
<1>9. /\ SumTo([f EXCEPT ![r] = after], NumReserves) = SumTo(f, NumReserves) - f[r] + after
      /\ SumTo(f, NumReserves) \in Nat
  <2>1. /\ f \in [1..NumReserves -> Nat] /\ f \in [1..NumReserves -> Int]
        /\ after \in Int /\ r \in 1..NumReserves
    BY <1>2, <1>5, <1>6
  <2> QED
    BY <1>2, <2>1, SumUpdate, SumOfNaturals
<1>10. AllowedValue(o) \in Int /\ AllowedValue(o)' \in Int /\ AllowedValue(o) <= AllowedValue(o)'
  <2>1. ASSUME NEW q \in Reserves PROVE RateHolds(q)
    BY BorrowKeepsRate, KeptRateHolds
  <2>2. \A q \in Entries(obligation[o].deposits) :
          RateHolds(q) /\ oracle'[q].rate = oracle[q].rate /\ config'[q] = config[q]
    BY <1>1, <2>1 DEF Entries
  <2> QED
    BY <1>3, <2>2, LimitsKept
<1>11. /\ ProjectedValue(o, r, n) = obligation[o].borrowed_value + DebtWorth(r, n)
       /\ obligation[o].borrowed_value = BorrowedValue(o)
       /\ obligation[o].allowed_borrow_value <= AllowedValue(o)
       /\ obligation[o].allowed_borrow_value \in Nat
  BY DEF ProjectedValue, DebtWorth, Unflattering, LendingInv, TypeOK, ObligationType
<1> HIDE DEF f, after, scaled
<1> QED
  BY <1>1, <1>6, <1>7, <1>8, <1>9, <1>10, <1>11

\* Whoever may borrow is still within the limit a refresh would find, up to the one
\* unit of principal.
THEOREM BorrowingAlwaysInLimit == Spec => BorrowStaysInLimit
<1>1. LendingInv /\ MirrorCoversShares => CollateralHasSupply
  BY SupplyBehindCollateral
<1>2. ASSUME LendingInv, LendingInv', CollateralHasSupply, CollateralHasSupply',
             NEW o \in Owners, NEW r \in Reserves, NEW n \in Amounts,
             Borrow(o, r, n), Unflattering(o)
      PROVE  BorrowedValue(o)' <= AllowedValue(o)' + BorrowSlack(r)
  <2>1. n \in Nat
    BY LendingAssumption
  <2> QED
    BY <1>2, <2>1, BorrowStep
<1>3. LendingInv /\ LendingInv' /\ CollateralHasSupply /\ CollateralHasSupply'
        => [\A o \in Owners, r \in Reserves, n \in Amounts :
              Borrow(o, r, n) /\ Unflattering(o)
              => BorrowedValue(o)' <= AllowedValue(o)' + BorrowSlack(r)]_vars
  BY <1>2
<1> QED
  BY <1>1, <1>3, LendingInvariant, MirrorAlwaysCoversShares, PTL DEF Spec, BorrowStaysInLimit

-------------------------------------------------------------------------------
\* Liquidation does not drive a position further under.

\* What a payment is worth when the seizure is computed from it.
PaymentWorth(d, paid) == market_value_floor(paid, TokenUnit[d], oracle[d].rate)

\* A liquidation pays at most the debt, whatever the close factor.
LEMMA PaymentWithinDebt ==
  ASSUME LendingInv, NEW o \in Owners, NEW d \in Reserves, NEW n \in Nat
  PROVE  /\ Debt(o, d) \in Nat
         /\ AtMost(n, MaxRepay(o, d)) \in Nat
         /\ AtMost(n, MaxRepay(o, d)) <= Debt(o, d)
<1>1. Debt(o, d) \in Nat
  <2>1. reserve[d].borrow_index \in Nat /\ obligation[o].borrows[d] \in Nat
    BY DEF LendingInv, TypeOK, ReserveType, ObligationType
  <2> QED
    BY <2>1, DebtNat DEF Debt
<1>2. CloseFactor(o, d) \in Nat /\ CloseFactor(o, d) <= BPS_DENOMINATOR
  <2>1. config[d].close_factor_bps \in 1..BPS_DENOMINATOR /\ BPS_DENOMINATOR \in Nat
    BY ConfigTyped, ScaleAssumption DEF LendingInv, ValidConfig
  <2> QED
    BY <2>1 DEF CloseFactor
<1>3. MaxRepay(o, d) \in Nat /\ MaxRepay(o, d) <= Debt(o, d)
  BY <1>1, <1>2, MaxRepayTyped, FloorShrinks, ScaleAssumption DEF MaxRepay
<1> QED
  BY <1>1, <1>3 DEF AtMost

\* The debt left, at its value rounded up, and the payment at its value rounded down
\* are together worth the debt before and the slack of one unit of principal.
LEMMA PaidDebtWorth ==
  ASSUME LendingInv, NEW o \in Owners, NEW d \in Reserves, NEW paid \in Nat,
         paid <= Debt(o, d)
  PROVE  LET after == DebtWorth(d, debt_at(obligation[o].borrows[d] - ScaledPayment(o, d, paid),
                                           reserve[d].borrow_index))
         IN  /\ after \in Nat /\ PaymentWorth(d, paid) \in Nat
             /\ after + PaymentWorth(d, paid) <= DebtWorth(d, Debt(o, d)) + BorrowSlack(d)
<1> DEFINE principal == obligation[o].borrows[d]
           index == reserve[d].borrow_index
           retired == ScaledPayment(o, d, paid)
           old == debt_at(principal, index)
           new == debt_at(principal - retired, index)
           one == mul_div_ceil(1, index, FIXED_POINT_SCALE)
           price == oracle[d].rate
           unit == TokenUnit[d]
<1>1. principal \in Nat /\ index \in Nat \ {0} /\ FIXED_POINT_SCALE \in Nat \ {0}
  BY ReserveTyped, ScaleAssumption DEF LendingInv, TypeOK, ObligationType
<1>2. price \in Nat /\ unit \in Nat \ {0}
  BY ConfigTyped DEF LendingInv, TypeOK, OracleType
<1>3. /\ DebtWorth(d, new) = mul_div_ceil(new, price, unit)
      /\ DebtWorth(d, Debt(o, d)) = mul_div_ceil(old, price, unit)
      /\ PaymentWorth(d, paid) = mul_div_floor(paid, price, unit)
      /\ BorrowSlack(d) = mul_div_ceil(one, price, unit)
  BY DEF DebtWorth, Debt, PaymentWorth, BorrowSlack, market_value_ceil, market_value_floor
<1>4. new + paid <= old + one
  BY <1>1, PaymentTakesOff DEF Debt, ScaledPayment
<1>5. old \in Nat /\ new \in Nat /\ one \in Nat
  <2>1. principal - retired \in Nat /\ index \in Nat
    BY <1>1, PaymentTyped
  <2> QED
    BY <1>1, <2>1, DebtNat, CeilNat
<1> HIDE DEF principal, index, retired, old, new, one, price, unit
<1> DEFINE both == old + one
<1>6. both \in Nat /\ both <= old + one /\ new + paid <= both
  BY <1>4, <1>5
<1> HIDE DEF both
<1>7. mul_div_ceil(new, price, unit) + mul_div_floor(paid, price, unit)
        <= mul_div_ceil(both, price, unit)
  BY <1>2, <1>5, <1>6, CeilPlusFloor
<1>8. mul_div_ceil(both, price, unit) <= mul_div_ceil(old, price, unit) + mul_div_ceil(one, price, unit)
  BY <1>2, <1>5, <1>6, CeilSplits
<1>9. /\ mul_div_ceil(new, price, unit) \in Nat /\ mul_div_floor(paid, price, unit) \in Nat
      /\ mul_div_ceil(both, price, unit) \in Nat /\ mul_div_ceil(old, price, unit) \in Nat
      /\ mul_div_ceil(one, price, unit) \in Nat
  BY <1>2, <1>5, <1>6, CeilNat, FloorNat
<1>10. /\ DebtWorth(d, new) \in Nat /\ PaymentWorth(d, paid) \in Nat
       /\ DebtWorth(d, new) + PaymentWorth(d, paid) <= DebtWorth(d, Debt(o, d)) + BorrowSlack(d)
  BY <1>3, <1>7, <1>8, <1>9
<1> QED
  BY <1>10 DEF new, principal, retired, index

\* A liquidation takes the worth of its payment off the value of the debts.
LEMMA LiquidationLowersDebt ==
  ASSUME LendingInv, NEW w \in Wallets, NEW o \in Owners, NEW d \in Reserves,
         NEW c \in Reserves, NEW n \in Nat, Liquidate(w, o, d, c, n)
  PROVE  LET paid == AtMost(n, MaxRepay(o, d))
         IN  /\ BorrowedValue(o) \in Nat /\ BorrowedValue(o)' \in Nat
             /\ PaymentWorth(d, paid) \in Nat /\ BorrowSlack(d) \in Nat
             /\ BorrowedValue(o)' + PaymentWorth(d, paid) <= BorrowedValue(o) + BorrowSlack(d)
<1> DEFINE paid == AtMost(n, MaxRepay(o, d))
           scaled == ScaledPayment(o, d, paid)
           f == [q \in Reserves |-> DebtWorth(q, Debt(o, q))]
           after == DebtWorth(d, debt_at(obligation[o].borrows[d] - scaled,
                                         reserve[d].borrow_index))
<1>1. NumReserves \in Nat /\ Reserves = 1..NumReserves
  BY LendingAssumption DEF Reserves
<1>2. paid \in Nat /\ paid <= Debt(o, d)
  BY PaymentWithinDebt
<1>3. /\ obligation'[o].borrows = [obligation[o].borrows EXCEPT ![d] = @ + (-scaled)]
      /\ obligation[o].borrows[d] + (-scaled) = obligation[o].borrows[d] - scaled
  <2>1. /\ scaled \in Nat
        /\ \A p \in Owners : obligation'[p].borrows =
             IF p = o THEN [obligation[o].borrows EXCEPT ![d] = @ + (-scaled)]
             ELSE obligation[p].borrows
    <3>1. TradesEntries(o, d, c, paid)
      BY LiquidationEntries
    <3> QED
      BY <3>1 DEF TradesEntries
  <2>2. obligation[o].borrows[d] \in Nat
    BY DEF LendingInv, TypeOK, ObligationType
  <2> HIDE DEF scaled
  <2> QED
    BY <2>1, <2>2
<1>4. oracle' = oracle /\ \A q \in Reserves : reserve'[q].borrow_index = reserve[q].borrow_index
  BY DEF Liquidate, LendingInv, TypeOK, ReserveType
<1>5. ASSUME NEW q \in Reserves PROVE f[q] \in Nat /\ BorrowSlack(q) \in Nat
  BY NewDebtWorth
<1>6. /\ after \in Nat /\ PaymentWorth(d, paid) \in Nat
      /\ after + PaymentWorth(d, paid) <= f[d] + BorrowSlack(d)
  BY <1>2, PaidDebtWorth
<1>7. BorrowedValue(o) = SumTo(f, NumReserves)
  BY DEF BorrowedValue, DebtWorth
<1>8. BorrowedValue(o)' = SumTo([f EXCEPT ![d] = after], NumReserves)
  <2> DEFINE value(q) == market_value_ceil(Debt(o, q)', TokenUnit[q], oracle'[q].rate)
  <2>1. ASSUME NEW q \in Reserves
        PROVE  value(q) = DebtWorth(q, debt_at(obligation'[o].borrows[q],
                                               reserve[q].borrow_index))
    BY <1>4 DEF DebtWorth, Debt
  <2>2. ASSUME NEW q \in Reserves
        PROVE  obligation'[o].borrows[q] = IF q = d THEN obligation[o].borrows[d] - scaled
                                           ELSE obligation[o].borrows[q]
    <3> HIDE DEF scaled
    <3> QED
      BY <1>3 DEF LendingInv, TypeOK, ObligationType
  <2>3. BorrowedValue(o)' = SumTo([q \in Reserves |-> value(q)], NumReserves)
    BY DEF BorrowedValue
  <2> HIDE DEF value, scaled
  <2>4. [q \in Reserves |-> value(q)] = [f EXCEPT ![d] = after]
    BY <2>1, <2>2 DEF Debt
  <2> QED
    BY <2>3, <2>4
<1>9. /\ SumTo([f EXCEPT ![d] = after], NumReserves) = SumTo(f, NumReserves) - f[d] + after
      /\ SumTo(f, NumReserves) \in Nat /\ SumTo([f EXCEPT ![d] = after], NumReserves) \in Nat
  <2> HIDE DEF after
  <2>1. f \in [1..NumReserves -> Nat]
    BY <1>1, <1>5
  <2> HIDE DEF f
  <2>2. /\ f \in [1..NumReserves -> Int] /\ d \in 1..NumReserves
        /\ after \in Nat /\ after \in Int
        /\ [f EXCEPT ![d] = after] \in [1..NumReserves -> Nat]
    BY <1>1, <1>6, <2>1
  <2> QED
    BY <1>1, <2>1, <2>2, SumUpdate, SumOfNaturals
<1>10. f[d] \in Nat /\ BorrowSlack(d) \in Nat
  BY <1>5
<1> HIDE DEF f, after, scaled, paid
<1>11. BorrowedValue(o)' + PaymentWorth(d, paid) <= BorrowedValue(o) + BorrowSlack(d)
  BY <1>6, <1>7, <1>8, <1>9, <1>10
<1> QED
  BY <1>6, <1>7, <1>8, <1>9, <1>10, <1>11 DEF paid

\* The shares seized weigh in the liquidation limit at most what the payment is worth,
\* and one.
LEMMA SeizureWithinThreshold ==
  ASSUME LendingInv, NEW d \in Reserves, NEW c \in Reserves, NEW paid \in Nat,
         SeizesWithinThreshold(c), oracle[c].rate > 0,
         reserve[c].share_mint_supply > 0, TotalDefined(reserve[c])
  PROVE  /\ PaymentWorth(d, paid) \in Nat
         /\ WeightedWorthCeil(c, SeizedShares(d, c, paid), config[c].liquidation_threshold_bps)
              <= PaymentWorth(d, paid) + 1
<1> DEFINE repaid == PaymentWorth(d, paid)
           bonus == config[c].liquidation_bonus_bps
           haircut == config[c].collateral_haircut_bps
           threshold == config[c].liquidation_threshold_bps
           extra == mul_div_floor(repaid, bonus, BPS_DENOMINATOR)
           value == repaid + extra
           shares == SeizedShares(d, c, paid)
           worth == market_value_ceil(shares_to_liquidity_ceil(reserve[c], shares),
                                      TokenUnit[c], oracle[c].rate)
<1>1. /\ bonus \in Nat /\ haircut \in Nat /\ haircut <= BPS_DENOMINATOR
      /\ threshold \in Nat /\ threshold <= BPS_DENOMINATOR /\ BPS_DENOMINATOR \in Nat \ {0}
  BY ConfigTyped, ScaleAssumption DEF LendingInv, ValidConfig
<1>2. repaid \in Nat
  BY ConfigTyped, ValueNat DEF PaymentWorth, LendingInv, TypeOK, OracleType
<1>3. /\ oracle[c].rate \in Nat \ {0} /\ TokenUnit[c] \in Nat \ {0}
      /\ reserve[c] \in ReserveType
  BY ConfigTyped DEF LendingInv, TypeOK, OracleType
<1> HIDE DEF repaid
<1>4. value \in Nat
  <2>1. extra \in Nat
    <3> HIDE DEF bonus
    <3> QED
      BY <1>1, <1>2, FloorNat
  <2> HIDE DEF extra
  <2> QED
    BY <1>2, <2>1
<1>5. shares = liquidity_to_shares(reserve[c], value_to_amount(value, TokenUnit[c], oracle[c].rate))
  BY DEF SeizedShares, seize_shares_for, seize_liquidity, repaid, PaymentWorth
<1> HIDE DEF value, shares
<1>6. worth \in Nat /\ worth <= value
  BY <1>3, <1>4, <1>5, SeizedWithinValue
<1> DEFINE kept == BPS_DENOMINATOR - haircut
<1>7. kept \in Nat
  BY <1>1
<1>8. kept * threshold * (BPS_DENOMINATOR + bonus)
        <= BPS_DENOMINATOR * BPS_DENOMINATOR * BPS_DENOMINATOR
  BY DEF SeizesWithinThreshold
<1>9. WeightedWorthCeil(c, shares, threshold)
        = mul_div_ceil(mul_div_ceil(worth, kept, BPS_DENOMINATOR), threshold, BPS_DENOMINATOR)
  BY DEF WeightedWorthCeil
<1> HIDE DEF worth, kept, threshold, bonus
<1>10. mul_div_ceil(mul_div_ceil(worth, kept, BPS_DENOMINATOR), threshold, BPS_DENOMINATOR)
         <= repaid + 1
  BY <1>1, <1>2, <1>6, <1>7, <1>8, ThresholdWithinPayment DEF value
<1> QED
  BY <1>2, <1>9, <1>10 DEF repaid, shares, threshold

\* A liquidation takes at most the worth of its payment, and one, off the limit.
LEMMA LiquidationLowersLimit ==
  ASSUME LendingInv, LendingInv', CollateralHasSupply, CollateralHasSupply',
         NEW w \in Wallets, NEW o \in Owners, NEW d \in Reserves, NEW c \in Reserves,
         NEW n \in Nat, Liquidate(w, o, d, c, n), SeizesWithinThreshold(c), Readable(o)
  PROVE  LET paid == AtMost(n, MaxRepay(o, d))
         IN  /\ UnhealthyValue(o) \in Int /\ UnhealthyValue(o)' \in Int
             /\ UnhealthyValue(o) <= UnhealthyValue(o)' + (PaymentWorth(d, paid) + 1)
<1> DEFINE paid == AtMost(n, MaxRepay(o, d))
           seized == SeizedShares(d, c, paid)
           shares(q) == obligation[o].deposits[q]
           threshold(q) == config[q].liquidation_threshold_bps
           left(q) == IF q = c THEN shares(c) - seized ELSE shares(q)
           f == [q \in Reserves |-> WeightedWorth(q, shares(q), threshold(q))]
           after == WeightedWorth(c, left(c), threshold(c))
           g == [f EXCEPT ![c] = after]
           removed == WeightedWorthCeil(c, seized, threshold(c))
<1>1. NumReserves \in Nat /\ Reserves = 1..NumReserves
  BY LendingAssumption DEF Reserves
<1>2. paid \in Nat
  BY PaymentWithinDebt
<1>3. /\ seized \in Nat /\ seized <= shares(c)
      /\ obligation'[o].deposits = [obligation[o].deposits EXCEPT ![c] = @ - seized]
  <2>1. /\ seized \in Nat /\ seized <= obligation[o].deposits[c]
        /\ \A p \in Owners : obligation'[p].deposits =
             IF p = o THEN [obligation[o].deposits EXCEPT ![c] = @ - seized]
             ELSE obligation[p].deposits
    <3>1. TradesEntries(o, d, c, paid)
      BY LiquidationEntries
    <3> QED
      BY <3>1 DEF TradesEntries
  <2> HIDE DEF seized
  <2> QED
    BY <2>1
<1>4. /\ shares(c) > 0 /\ oracle[c].rate > 0
      /\ reserve[c].share_mint_supply > 0 /\ TotalDefined(reserve[c])
  <2>1. /\ shares(c) > 0 /\ oracle[c].rate > 0
        /\ reserve[c].share_mint_supply > 0 => TotalDefined(reserve[c])
    BY DEF Liquidate, SeizureDefined, Fresh
  <2> QED
    BY <2>1 DEF CollateralHasSupply
<1>5. config' = config /\ oracle' = oracle
  BY DEF Liquidate
<1>6. ASSUME NEW q \in Reserves PROVE RateHolds(q)
  <2>1. /\ ScaledPayment(o, d, paid) <= reserve[d].borrowed_principal
        /\ reserve' = [reserve EXCEPT ![d].borrowed_principal = @ - ScaledPayment(o, d, paid),
                                      ![d].available_liquidity = @ + paid]
    BY DEF Liquidate
  <2> HIDE DEF paid
  <2> QED
    BY <1>2, <2>1, PaymentKeepsRate, KeptRateHolds
<1> HIDE DEF paid, seized
<1>7. ASSUME NEW q \in Reserves
      PROVE  /\ shares(q) \in Nat /\ left(q) \in Nat /\ left(q) <= shares(q)
             /\ threshold(q) \in Nat /\ obligation'[o].deposits[q] = left(q)
  BY <1>3, ConfigTyped DEF LendingInv, TypeOK, ObligationType
<1>8. left(c) + seized = shares(c)
  BY <1>3, <1>7
<1>9. ASSUME NEW q \in Reserves
      PROVE  f[q] \in Nat /\ WeightedWorth(q, left(q), threshold(q)) \in Nat
  <2>1. TotalDefined(reserve[q]) \/ (shares(q) = 0 /\ left(q) = 0)
    BY <1>7 DEF Readable, Entries
  <2> QED
    BY <1>7, <2>1, WeightedWorthNat
<1>10. removed \in Nat /\ f[c] <= after + removed
  <2>1. WeightedWorth(c, left(c) + seized, threshold(c)) <= after + removed /\ removed \in Nat
    <3> HIDE DEF left, threshold
    <3> QED
      BY <1>3, <1>4, <1>7, WeightedWorthSplits
  <2> QED
    BY <1>8, <2>1
<1>11. PaymentWorth(d, paid) \in Nat /\ removed <= PaymentWorth(d, paid) + 1
  BY <1>2, <1>4, SeizureWithinThreshold DEF seized
<1>12. UnhealthyValue(o) = SumTo(f, NumReserves)
  BY DEF UnhealthyValue, EffectiveValue, EffectiveWorth, WeightedWorth
<1> DEFINE h == [q \in Reserves |-> mul_div_floor(EffectiveValue(o, q)',
                                                  config'[q].liquidation_threshold_bps,
                                                  BPS_DENOMINATOR)]
<1>13. UnhealthyValue(o)' = SumTo(h, NumReserves)
  BY DEF UnhealthyValue
<1>14. ASSUME NEW q \in Reserves
       PROVE  h[q] \in Int /\ WeightedWorth(q, left(q), threshold(q)) <= h[q]
  <2>1. ASSUME NEW m \in Nat, m = left(q)
        PROVE  EffectiveValue(o, q)' = EffectiveWorth(q, m)'
    BY <1>7, <2>1 DEF EffectiveValue, EffectiveWorth
  <2>2. ASSUME NEW m \in Nat, m = left(q)
        PROVE  /\ EffectiveWorth(q, m) \in Int /\ EffectiveWorth(q, m)' \in Int
               /\ EffectiveWorth(q, m) <= EffectiveWorth(q, m)'
    <3>1. m > 0 => shares(q) > 0 /\ obligation'[o].deposits[q] > 0
      BY <1>7, <2>2
    <3>2. m > 0 => /\ reserve[q].share_mint_supply > 0 /\ reserve'[q].share_mint_supply > 0
                   /\ RateHolds(q) /\ oracle'[q].rate = oracle[q].rate /\ config'[q] = config[q]
      BY <3>1, <1>5, <1>6 DEF CollateralHasSupply
    <3> QED
      BY <3>2, EffectiveWorthKept
  <2>3. ASSUME NEW m \in Nat, m = left(q)
        PROVE  h[q] \in Int /\ WeightedWorth(q, m, threshold(q)) <= h[q]
    <3>1. /\ WeightedWorth(q, m, threshold(q))
               = mul_div_floor(EffectiveWorth(q, m), threshold(q), BPS_DENOMINATOR)
          /\ h[q] = mul_div_floor(EffectiveWorth(q, m)', threshold(q), BPS_DENOMINATOR)
      BY <1>5, <2>1, <2>3 DEF WeightedWorth
    <3> HIDE DEF h, threshold
    <3>2. threshold(q) \in Nat /\ BPS_DENOMINATOR \in Nat \ {0}
      BY <1>7, ScaleAssumption
    <3> QED
      BY <2>2, <2>3, <3>1, <3>2, FloorMonotoneInt
  <2> QED
    BY <1>7, <2>3
<1>15. /\ f \in [1..NumReserves -> Int] /\ g \in [1..NumReserves -> Int]
       /\ h \in [1..NumReserves -> Int] /\ c \in 1..NumReserves /\ after \in Int
  <2>1. c \in 1..NumReserves
    BY <1>1
  <2>2. after \in Int
    <3>1. WeightedWorth(c, left(c), threshold(c)) \in Nat
      BY <1>9
    <3> QED
      BY <3>1
  <2>3. h \in [1..NumReserves -> Int]
    BY <1>1, <1>14
  <2>4. f \in [1..NumReserves -> Int]
    <3>1. \A q \in Reserves : f[q] \in Int
      BY <1>9
    <3> QED
      BY <1>1, <3>1
  <2> HIDE DEF f, h, after
  <2> QED
    BY <2>1, <2>2, <2>3, <2>4
<1>16. \A q \in 1..NumReserves : g[q] <= h[q]
  <2> SUFFICES ASSUME NEW q \in Reserves PROVE g[q] <= h[q]
    BY <1>1
  <2>1. g[q] = WeightedWorth(q, left(q), threshold(q))
    <3> HIDE DEF threshold
    <3> QED
      BY DEF left
  <2> QED
    BY <1>14, <2>1
<1>17. SumTo(g, NumReserves) = SumTo(f, NumReserves) - f[c] + after
  <2> HIDE DEF f, after, h
  <2>1. f \in [1..NumReserves -> Int] /\ c \in 1..NumReserves /\ after \in Int
    BY <1>15
  <2> QED
    BY <1>1, <2>1, SumUpdate
<1>18. SumTo(g, NumReserves) <= SumTo(h, NumReserves)
  <2> HIDE DEF g, h
  <2> QED
    BY <1>1, <1>15, <1>16, SumsOrdered
<1>19. /\ SumTo(f, NumReserves) \in Int /\ SumTo(g, NumReserves) \in Int
       /\ SumTo(h, NumReserves) \in Int /\ f[c] \in Int
  <2> HIDE DEF f, g, h
  <2> QED
    BY <1>1, <1>15, PartialSumsAccumulates
<1> HIDE DEF f, g, h, after, removed
<1>20. UnhealthyValue(o) <= UnhealthyValue(o)' + (PaymentWorth(d, paid) + 1)
  BY <1>10, <1>11, <1>12, <1>13, <1>15, <1>17, <1>18, <1>19
<1> QED
  BY <1>12, <1>13, <1>19, <1>20 DEF paid

\* Liquidating a position does not drive it further under, up to a unit of principal
\* and one of value.
THEOREM LiquidationAlwaysHeals == Spec => LiquidationHeals
<1>1. LendingInv /\ MirrorCoversShares => CollateralHasSupply
  BY SupplyBehindCollateral
<1>2. ASSUME LendingInv, LendingInv', CollateralHasSupply, CollateralHasSupply',
             NEW w \in Liquidators, NEW o \in Owners, NEW d \in Reserves, NEW c \in Reserves,
             NEW n \in Amounts, Liquidate(w, o, d, c, n), SeizesWithinThreshold(c), Readable(o)
      PROVE  Shortfall(o)' <= Shortfall(o) + BorrowSlack(d) + 1
  <2> DEFINE worth == PaymentWorth(d, AtMost(n, MaxRepay(o, d)))
  <2>1. n \in Nat /\ w \in Wallets
    BY LendingAssumption
  <2>2. /\ BorrowedValue(o) \in Nat /\ BorrowedValue(o)' \in Nat
        /\ worth \in Nat /\ BorrowSlack(d) \in Nat
        /\ BorrowedValue(o)' + worth <= BorrowedValue(o) + BorrowSlack(d)
    BY <1>2, <2>1, LiquidationLowersDebt
  <2>3. /\ UnhealthyValue(o) \in Int /\ UnhealthyValue(o)' \in Int
        /\ UnhealthyValue(o) <= UnhealthyValue(o)' + (worth + 1)
    BY <1>2, <2>1, LiquidationLowersLimit
  <2> HIDE DEF worth
  <2>4. BorrowedValue(o)' - UnhealthyValue(o)'
          <= BorrowedValue(o) - UnhealthyValue(o) + BorrowSlack(d) + 1
    BY <2>2, <2>3
  <2> QED
    BY <2>4 DEF Shortfall
<1>3. LendingInv /\ LendingInv' /\ CollateralHasSupply /\ CollateralHasSupply'
        => [\A w \in Liquidators, o \in Owners, d \in Reserves, c \in Reserves, n \in Amounts :
              Liquidate(w, o, d, c, n) /\ SeizesWithinThreshold(c) /\ Readable(o)
              => Shortfall(o)' <= Shortfall(o) + BorrowSlack(d) + 1]_vars
  BY <1>2
<1> QED
  BY <1>1, <1>3, LendingInvariant, MirrorAlwaysCoversShares, PTL DEF Spec, LiquidationHeals

-------------------------------------------------------------------------------
\* Nobody else brings a position nearer to its liquidation.

LEMMA CeilMonotone ==
  ASSUME NEW less \in Nat, NEW more \in Nat, less <= more, NEW b \in Nat, NEW d \in Nat \ {0}
  PROVE  mul_div_ceil(less, b, d) <= mul_div_ceil(more, b, d)
<1>1. mul_div_ceil(less, b, d) + mul_div_floor(0, b, d) <= mul_div_ceil(more, b, d)
  BY CeilPlusFloor
<1>2. mul_div_floor(0, b, d) \in Nat /\ mul_div_ceil(less, b, d) \in Nat
      /\ mul_div_ceil(more, b, d) \in Nat
  BY FloorNat, CeilNat
<1> QED
  BY <1>1, <1>2

LEMMA FloorsOrdered ==
  ASSUME NEW less \in Nat, NEW more \in Nat, less <= more, NEW b \in Nat, NEW d \in Nat \ {0}
  PROVE  /\ mul_div_floor(less, b, d) \in Nat /\ mul_div_floor(more, b, d) \in Nat
         /\ mul_div_floor(less, b, d) <= mul_div_floor(more, b, d)
<1>1. b <= b
  OBVIOUS
<1> QED
  BY <1>1, FloorNat, FloorMonotone

\* The weighted worth of shares, of the reserve, price, haircut and weight given.
WorthIn(rsv, unit, price, haircut, weight, shares) ==
  mul_div_floor(
    apply_haircut(market_value_floor(shares_to_liquidity_floor(rsv, shares), unit, price),
                  haircut),
    weight, BPS_DENOMINATOR)

\* More shares are worth no less, through the four floors of a valuation.
LEMMA MoreSharesWorth ==
  ASSUME NEW rsv \in ReserveType, TotalDefined(rsv), NEW unit \in Nat \ {0}, NEW price \in Nat,
         NEW haircut \in Nat, haircut <= BPS_DENOMINATOR, NEW weight \in Nat,
         NEW less \in Nat, NEW more \in Nat, less <= more
  PROVE  /\ WorthIn(rsv, unit, price, haircut, weight, less) \in Nat
         /\ WorthIn(rsv, unit, price, haircut, weight, more) \in Nat
         /\ WorthIn(rsv, unit, price, haircut, weight, less)
              <= WorthIn(rsv, unit, price, haircut, weight, more)
<1> DEFINE total == total_liquidity(rsv)
           supply == AtLeast(rsv.share_mint_supply, 1)
           kept == BPS_DENOMINATOR - haircut
           l1 == mul_div_floor(less, total, supply)
           m1 == mul_div_floor(more, total, supply)
           l2 == mul_div_floor(l1, price, unit)
           m2 == mul_div_floor(m1, price, unit)
           l3 == mul_div_floor(l2, kept, BPS_DENOMINATOR)
           m3 == mul_div_floor(m2, kept, BPS_DENOMINATOR)
           l4 == mul_div_floor(l3, weight, BPS_DENOMINATOR)
           m4 == mul_div_floor(m3, weight, BPS_DENOMINATOR)
<1>1. total \in Nat /\ supply \in Nat \ {0}
  <2>1. gross_liquidity(rsv) \in Nat /\ rsv.accrued_fees \in Nat
    BY UtilizationNat DEF ReserveType
  <2> QED
    BY <2>1 DEF TotalDefined, total_liquidity, AtLeast, ReserveType
<1>2. kept \in Nat /\ BPS_DENOMINATOR \in Nat \ {0}
  BY ScaleAssumption
<1>3. /\ WorthIn(rsv, unit, price, haircut, weight, less) = l4
      /\ WorthIn(rsv, unit, price, haircut, weight, more) = m4
  BY DEF WorthIn, shares_to_liquidity_floor, market_value_floor, apply_haircut
<1> HIDE DEF total, supply, kept
<1>4. l1 \in Nat /\ m1 \in Nat /\ l1 <= m1
  BY <1>1, FloorsOrdered
<1> HIDE DEF l1, m1
<1>5. l2 \in Nat /\ m2 \in Nat /\ l2 <= m2
  BY <1>4, FloorsOrdered
<1> HIDE DEF l2, m2
<1>6. l3 \in Nat /\ m3 \in Nat /\ l3 <= m3
  BY <1>2, <1>5, FloorsOrdered
<1> HIDE DEF l3, m3
<1>7. l4 \in Nat /\ m4 \in Nat /\ l4 <= m4
  BY <1>2, <1>6, FloorsOrdered
<1> QED
  BY <1>3, <1>7

\* No deposit of o grows smaller and none of its debts larger.
Eased(o) ==
  \A r \in Reserves :
    /\ obligation[o].deposits[r] <= obligation'[o].deposits[r]
    /\ obligation'[o].borrows[r] <= obligation[o].borrows[r]

\* What its owner does at a risk, and a liquidation, are the only steps that do not
\* ease a position or leave it as it is.
LEMMA EntriesEased ==
  ASSUME LendingInv, [Next]_vars, NEW o \in Owners, ~ Endangers(o)
  PROVE  Eased(o)
<1>1. /\ obligation \in [Owners -> ObligationType]
      /\ \A p \in Owners, r \in Reserves :
           obligation[p].deposits[r] \in Nat /\ obligation[p].borrows[r] \in Nat
      /\ \A p \in Owners : /\ obligation[p].deposits \in [Reserves -> Nat]
                           /\ obligation[p].borrows \in [Reserves -> Nat]
  BY DEF LendingInv, TypeOK, ObligationType
<1>2. /\ Suppliers \subseteq Wallets /\ Liquidators \subseteq Wallets
      /\ \A n \in Amounts : n \in Nat
  BY LendingAssumption
<1>3. ASSUME /\ obligation'[o].deposits = obligation[o].deposits
             /\ obligation'[o].borrows = obligation[o].borrows
      PROVE  Eased(o)
  BY <1>1, <1>3 DEF Eased
<1>4. ASSUME NEW p \in Owners, NEW q \in Reserves, NEW change \in Nat,
             change <= obligation[p].borrows[q], obligation' = WithDebt(p, q, -change)
      PROVE  Eased(o)
  <2>1. -change \in Int /\ obligation[p].borrows[q] + (-change) \in Nat
        /\ obligation[p].borrows[q] + (-change) <= obligation[p].borrows[q]
    BY <1>1, <1>4
  <2>2. /\ obligation'[o].deposits = obligation[o].deposits
        /\ obligation'[o].borrows =
             IF o = p THEN [obligation[p].borrows EXCEPT ![q] = @ + (-change)]
             ELSE obligation[o].borrows
    BY <1>1, <1>4, <2>1, DebtMoved
  <2> QED
    BY <1>1, <2>1, <2>2 DEF Eased
<1>5. ASSUME NEW p \in Owners, NEW q \in Reserves, NEW n \in Amounts,
             DepositCollateral(p, q, n)
      PROVE  Eased(o)
  <2>1. obligation[p].deposits[q] + n \in Nat /\ n \in Nat /\ n \in Int
        /\ obligation[p].deposits[q] <= obligation[p].deposits[q] + n
    BY <1>1, <1>2
  <2>2. obligation' = WithDeposit(p, q, n)
    BY <1>5 DEF DepositCollateral
  <2>3. /\ obligation'[o].borrows = obligation[o].borrows
        /\ obligation'[o].deposits =
             IF o = p THEN [obligation[p].deposits EXCEPT ![q] = @ + n]
             ELSE obligation[o].deposits
    BY <1>1, <2>1, <2>2, DepositMoved
  <2> QED
    BY <1>1, <2>1, <2>3 DEF Eased
<1>6. ASSUME NEW p \in Owners, NEW q \in Reserves, NEW n \in Amounts,
             Borrow(p, q, n) \/ WithdrawCollateral(p, q, n)
      PROVE  Eased(o)
  <2>1. p # o
    BY <1>6 DEF Endangers
  <2>2. obligation'[o] = obligation[o]
    BY <1>1, <1>6, <2>1 DEF Borrow, WithdrawCollateral, WithDebt, WithDeposit
  <2> QED
    BY <1>3, <2>2
<1>7. ASSUME NEW w \in Liquidators, NEW p \in Owners, NEW d \in Reserves,
             NEW c \in Reserves, NEW n \in Amounts, Liquidate(w, p, d, c, n)
      PROVE  Eased(o)
  <2>1. p # o
    BY <1>7 DEF Endangers
  <2>2. obligation'[o] = obligation[o]
    BY <1>1, <1>7, <2>1 DEF Liquidate, WithDebt
  <2> QED
    BY <1>3, <2>2
<1>8. ASSUME NEW p \in Owners, NEW q \in Reserves, NEW n \in Amounts, Repay(p, q, n)
      PROVE  Eased(o)
  <2> DEFINE paid == AtMost(n, Debt(p, q))
  <2>1. paid \in Nat
    BY <1>1, <1>2, DebtNat DEF LendingInv, TypeOK, ReserveType, Debt, AtMost
  <2>2. obligation' = WithDebt(p, q, -ScaledPayment(p, q, paid))
    BY <1>8 DEF Repay
  <2> HIDE DEF paid
  <2>3. /\ ScaledPayment(p, q, paid) \in Nat
        /\ ScaledPayment(p, q, paid) <= obligation[p].borrows[q]
    BY <2>1, PaymentTyped
  <2> QED
    BY <1>4, <2>2, <2>3
<1>9. ASSUME NEW p \in Owners, NEW q \in Reserves, AbsorbBadDebt(p, q)
      PROVE  Eased(o)
  <2>1. obligation' = WithDebt(p, q, -obligation[p].borrows[q])
    BY <1>9 DEF AbsorbBadDebt
  <2> QED
    BY <1>1, <1>4, <2>1
<1>10. ASSUME NEW p \in Owners, RefreshObligation(p)
       PROVE  Eased(o)
  <2>1. CASE p = o
    BY <1>3, <1>10, <2>1, RefreshStores
  <2>2. CASE p # o
    BY <1>3, <1>10, <2>2, RefreshStores
  <2> QED
    BY <2>1, <2>2
<1>11. ASSUME NEW w, NEW q \in Reserves, NEW n,
              Supply(w, q, n) \/ Withdraw(w, q, n) \/ Accrue(q) \/ CollectFees(q)
       PROVE  Eased(o)
  BY <1>3, <1>11 DEF Supply, Withdraw, Accrue, CollectFees
<1> QED
  BY <1>3, <1>5, <1>6, <1>7, <1>8, <1>9, <1>10, <1>11, OutsideStepsKeep
     DEF Next, TokenStep

\* At the same prices and indices smaller principals are a smaller debt.
LEMMA DebtsEased ==
  ASSUME LendingInv, LendingInv', NEW o \in Owners, Eased(o),
         \A r \in Entries(obligation[o].borrows) :
           /\ reserve'[r].borrow_index = reserve[r].borrow_index
           /\ oracle'[r].rate = oracle[r].rate
  PROVE  /\ BorrowedValue(o) \in Int /\ BorrowedValue(o)' \in Int
         /\ BorrowedValue(o)' <= BorrowedValue(o)
<1>1. NumReserves \in Nat /\ Reserves = 1..NumReserves
  BY LendingAssumption DEF Reserves
<1> DEFINE before == [r \in Reserves |-> market_value_ceil(Debt(o, r), TokenUnit[r],
                                                           oracle[r].rate)]
           after == [r \in Reserves |-> market_value_ceil(Debt(o, r)', TokenUnit[r],
                                                          oracle'[r].rate)]
<1>2. ASSUME NEW r \in Reserves
      PROVE  before[r] \in Int /\ after[r] \in Int /\ after[r] <= before[r]
  <2> DEFINE principal == obligation[o].borrows[r]
             principal2 == obligation'[o].borrows[r]
             index == reserve[r].borrow_index
             index2 == reserve'[r].borrow_index
             S == FIXED_POINT_SCALE
             price == oracle[r].rate
             price2 == oracle'[r].rate
             unit == TokenUnit[r]
             debt == mul_div_ceil(principal, index, S)
             debt2 == mul_div_ceil(principal2, index2, S)
  <2>1. /\ principal \in Nat /\ principal2 \in Nat /\ principal2 <= principal
        /\ index \in Nat /\ index2 \in Nat /\ price \in Nat /\ price2 \in Nat
        /\ S \in Nat \ {0} /\ unit \in Nat \ {0}
    BY LendingAssumption, ScaleAssumption
       DEF Eased, LendingInv, TypeOK, ReserveType, ObligationType, OracleType
  <2>2. principal = 0 \/ (index2 = index /\ price2 = price)
    BY <2>1 DEF Entries
  <2>3. /\ before[r] = mul_div_ceil(debt, price, unit)
        /\ after[r] = mul_div_ceil(debt2, price2, unit)
    BY DEF Debt, debt_at, market_value_ceil
  <2> HIDE DEF principal, principal2, index, index2, S, price, price2, unit, before, after
  <2>4. debt \in Nat /\ debt2 \in Nat
    BY <2>1, CeilNat
  <2>5. CASE principal = 0
    <3>1. principal2 = 0
      BY <2>1, <2>5
    <3>2. debt = 0 /\ debt2 = 0
      BY <2>1, <2>5, <3>1, NothingScaled
    <3> HIDE DEF debt, debt2
    <3>3. before[r] = 0 /\ after[r] = 0
      BY <2>1, <2>3, <3>2, NothingScaled
    <3> QED
      BY <3>3
  <2>6. CASE index2 = index /\ price2 = price
    <3>1. debt2 <= debt
      BY <2>1, <2>6, CeilMonotone
    <3> HIDE DEF debt, debt2
    <3>2. /\ mul_div_ceil(debt2, price, unit) <= mul_div_ceil(debt, price, unit)
          /\ mul_div_ceil(debt2, price, unit) \in Nat /\ mul_div_ceil(debt, price, unit) \in Nat
      BY <2>1, <2>4, <3>1, CeilMonotone, CeilNat
    <3> QED
      BY <2>3, <2>6, <3>2
  <2> QED
    BY <2>2, <2>5, <2>6
<1>3. BorrowedValue(o) = SumTo(before, NumReserves) /\ BorrowedValue(o)' = SumTo(after, NumReserves)
  BY DEF BorrowedValue
<1>4. before \in [1..NumReserves -> Int] /\ after \in [1..NumReserves -> Int]
  BY <1>1, <1>2
<1> HIDE DEF before, after
<1>5. SumTo(after, NumReserves) <= SumTo(before, NumReserves)
  BY <1>1, <1>2, <1>4, SumsOrdered
<1>6. SumTo(after, NumReserves) \in Int /\ SumTo(before, NumReserves) \in Int
  BY <1>1, <1>4, PartialSumsAccumulates
<1> QED
  BY <1>3, <1>5, <1>6

\* Where the rates hold and the configurations stay, deposits that did not shrink have
\* no lower liquidation limit.
LEMMA LimitEased ==
  ASSUME LendingInv, LendingInv', CollateralHasSupply, CollateralHasSupply',
         NEW o \in Owners, Eased(o), Readable(o)',
         \A r \in Entries(obligation[o].deposits) :
           RateHolds(r) /\ oracle'[r].rate = oracle[r].rate /\ config'[r] = config[r]
  PROVE  /\ UnhealthyValue(o) \in Int /\ UnhealthyValue(o)' \in Int
         /\ UnhealthyValue(o) <= UnhealthyValue(o)'
<1> DEFINE shares(r) == obligation[o].deposits[r]
           shares2(r) == obligation'[o].deposits[r]
           threshold(r) == config[r].liquidation_threshold_bps
           threshold2(r) == config'[r].liquidation_threshold_bps
           f == [r \in Reserves |-> mul_div_floor(EffectiveValue(o, r), threshold(r),
                                                  BPS_DENOMINATOR)]
           g == [r \in Reserves |-> mul_div_floor(EffectiveValue(o, r)', threshold2(r),
                                                  BPS_DENOMINATOR)]
<1>1. NumReserves \in Nat /\ Reserves = 1..NumReserves
  BY LendingAssumption DEF Reserves
<1>2. ASSUME NEW r \in Reserves
      PROVE  /\ shares(r) \in Nat /\ shares2(r) \in Nat /\ shares(r) <= shares2(r)
             /\ threshold(r) \in Nat /\ threshold2(r) \in Nat
             /\ config'[r].collateral_haircut_bps \in Nat
             /\ config'[r].collateral_haircut_bps <= BPS_DENOMINATOR
             /\ reserve'[r] \in ReserveType /\ oracle'[r].rate \in Nat
             /\ TokenUnit[r] \in Nat \ {0}
  <2>1. /\ shares(r) \in Nat /\ shares2(r) \in Nat
        /\ config[r] \in Configs /\ config'[r] \in Configs
        /\ reserve'[r] \in ReserveType /\ oracle'[r].rate \in Nat
    BY DEF LendingInv, TypeOK, ObligationType, OracleType
  <2>2. shares(r) <= shares2(r)
    BY DEF Eased
  <2> HIDE DEF shares, shares2
  <2> QED
    BY <2>1, <2>2, LendingAssumption DEF ValidConfig, ReserveConfigType
<1>3. ASSUME NEW r \in Reserves, NEW m \in Nat, m = shares2(r)
      PROVE  EffectiveValue(o, r)' = EffectiveWorth(r, m)'
  BY <1>3 DEF EffectiveValue, EffectiveWorth
<1>4. ASSUME NEW r \in Reserves, NEW m \in Nat, m = shares(r)
      PROVE  /\ EffectiveValue(o, r) = EffectiveWorth(r, m)
             /\ EffectiveWorth(r, m) \in Int /\ EffectiveWorth(r, m)' \in Int
             /\ EffectiveWorth(r, m) <= EffectiveWorth(r, m)'
             /\ m = 0 => EffectiveWorth(r, m) = 0 /\ EffectiveWorth(r, m)' = 0
             /\ m > 0 => threshold2(r) = threshold(r)
  <2>1. EffectiveValue(o, r) = EffectiveWorth(r, m)
    BY <1>4 DEF EffectiveValue, EffectiveWorth
  <2>2. m > 0 => shares(r) > 0 /\ shares2(r) > 0
    BY <1>2, <1>4
  <2>3. m > 0 =>
          /\ reserve[r].share_mint_supply > 0 /\ reserve'[r].share_mint_supply > 0
          /\ RateHolds(r) /\ oracle'[r].rate = oracle[r].rate /\ config'[r] = config[r]
    BY <2>2 DEF CollateralHasSupply, Entries
  <2>4. m > 0 => threshold2(r) = threshold(r)
    BY <2>3
  <2>5. /\ EffectiveWorth(r, m) \in Int /\ EffectiveWorth(r, m)' \in Int
        /\ EffectiveWorth(r, m) <= EffectiveWorth(r, m)'
        /\ m = 0 => EffectiveWorth(r, m) = 0 /\ EffectiveWorth(r, m)' = 0
    BY <2>3, EffectiveWorthKept
  <2> QED
    BY <2>1, <2>4, <2>5
<1>5. ASSUME NEW r \in Reserves, NEW less \in Nat, NEW more \in Nat, less <= more,
             TotalDefined(reserve'[r])
      PROVE  /\ mul_div_floor(EffectiveWorth(r, less)', threshold2(r), BPS_DENOMINATOR) \in Nat
             /\ mul_div_floor(EffectiveWorth(r, more)', threshold2(r), BPS_DENOMINATOR) \in Nat
             /\ mul_div_floor(EffectiveWorth(r, less)', threshold2(r), BPS_DENOMINATOR)
                  <= mul_div_floor(EffectiveWorth(r, more)', threshold2(r), BPS_DENOMINATOR)
  <2> DEFINE worth(m) == WorthIn(reserve'[r], TokenUnit[r], oracle'[r].rate,
                                 config'[r].collateral_haircut_bps, threshold2(r), m)
  <2>1. /\ mul_div_floor(EffectiveWorth(r, less)', threshold2(r), BPS_DENOMINATOR) = worth(less)
        /\ mul_div_floor(EffectiveWorth(r, more)', threshold2(r), BPS_DENOMINATOR) = worth(more)
    BY DEF EffectiveWorth, WorthIn
  <2>2. worth(less) \in Nat /\ worth(more) \in Nat /\ worth(less) <= worth(more)
    <3> HIDE DEF threshold2
    <3> QED
      BY <1>2, <1>5, MoreSharesWorth
  <2> QED
    BY <2>1, <2>2
<1>6. ASSUME NEW r \in Reserves, NEW m \in Nat, m = shares(r), NEW m2 \in Nat, m2 = shares2(r)
      PROVE  f[r] \in Int /\ g[r] \in Int /\ f[r] <= g[r]
  <2>1. /\ f[r] = mul_div_floor(EffectiveWorth(r, m), threshold(r), BPS_DENOMINATOR)
        /\ g[r] = mul_div_floor(EffectiveWorth(r, m2)', threshold2(r), BPS_DENOMINATOR)
    BY <1>3, <1>4, <1>6
  <2> DEFINE mid == mul_div_floor(EffectiveWorth(r, m)', threshold2(r), BPS_DENOMINATOR)
  <2>2. threshold(r) \in Nat /\ threshold2(r) \in Nat /\ BPS_DENOMINATOR \in Nat \ {0}
        /\ m <= m2
    BY <1>2, <1>6, ScaleAssumption
  <2>3. m2 = 0 \/ TotalDefined(reserve'[r])
    BY <1>6, <2>2 DEF Readable, Entries
  <2>4. f[r] \in Int /\ mid \in Int /\ f[r] <= mid
    <3>1. /\ EffectiveWorth(r, m) \in Int /\ EffectiveWorth(r, m)' \in Int
          /\ EffectiveWorth(r, m) <= EffectiveWorth(r, m)'
          /\ m = 0 => EffectiveWorth(r, m) = 0 /\ EffectiveWorth(r, m)' = 0
          /\ m > 0 => threshold2(r) = threshold(r)
      BY <1>4, <1>6
    <3> HIDE DEF f, threshold, threshold2
    <3>2. CASE m = 0
      <4>1. EffectiveWorth(r, m) = 0 /\ EffectiveWorth(r, m)' = 0
        BY <3>1, <3>2
      <4>2. f[r] = 0
        BY <2>1, <2>2, <4>1, NothingScaled
      <4>3. mid = 0
        BY <2>2, <4>1, NothingScaled
      <4> HIDE DEF mid
      <4> QED
        BY <4>2, <4>3
    <3>3. CASE m > 0
      <4>1. mid = mul_div_floor(EffectiveWorth(r, m)', threshold(r), BPS_DENOMINATOR)
        BY <3>1, <3>3
      <4> HIDE DEF mid
      <4> QED
        BY <2>1, <2>2, <3>1, <4>1, FloorMonotoneInt
    <3> HIDE DEF mid
    <3> QED
      BY <2>2, <3>2, <3>3
  <2>5. g[r] \in Int /\ mid <= g[r]
    <3> HIDE DEF g, threshold2
    <3>1. CASE m2 = 0
      <4>1. m = m2
        BY <2>2, <3>1
      <4> QED
        BY <2>1, <2>4, <4>1
    <3>2. CASE TotalDefined(reserve'[r])
      BY <1>5, <2>1, <2>2, <3>2
    <3> QED
      BY <2>3, <3>1, <3>2
  <2> HIDE DEF f, g, mid
  <2> QED
    BY <2>4, <2>5
<1>7. ASSUME NEW r \in Reserves
      PROVE  f[r] \in Int /\ g[r] \in Int /\ f[r] <= g[r]
  BY <1>2, <1>6
<1>8. UnhealthyValue(o) = SumTo(f, NumReserves) /\ UnhealthyValue(o)' = SumTo(g, NumReserves)
  BY DEF UnhealthyValue
<1>9. f \in [1..NumReserves -> Int] /\ g \in [1..NumReserves -> Int]
  BY <1>1, <1>7
<1> HIDE DEF f, g
<1>10. SumTo(f, NumReserves) <= SumTo(g, NumReserves)
  BY <1>1, <1>7, <1>9, SumsOrdered
<1>11. SumTo(f, NumReserves) \in Int /\ SumTo(g, NumReserves) \in Int
  BY <1>1, <1>9, PartialSumsAccumulates
<1> QED
  BY <1>8, <1>10, <1>11

\* What others do raises no shortfall, and neither do a deposit and a repayment of one's
\* own.
THEOREM OthersNeverEndanger == Spec => OthersEndangerNobody
<1>1. LendingInv /\ MirrorCoversShares => CollateralHasSupply
  BY SupplyBehindCollateral
<1>2. ASSUME LendingInv, CollateralHasSupply, CollateralHasSupply', [Next]_vars,
             NEW o \in Owners, Readable(o)', ~ Endangers(o)
      PROVE  Shortfall(o)' <= Shortfall(o)
  <2>1. LendingInv'
    BY <1>2, LendingInvStep
  <2>2. Eased(o)
    BY <1>2, EntriesEased
  <2>3. /\ \A r \in Entries(obligation[o].borrows) :
             reserve'[r].borrow_index = reserve[r].borrow_index
        /\ \A r \in Touched(o) : oracle'[r].rate = oracle[r].rate
        /\ \A r \in Entries(obligation[o].deposits) :
             ~ Absorbs(r) /\ config'[r] = config[r]
    BY <1>2 DEF Endangers, Revalued
  <2>4. \A r \in Entries(obligation[o].deposits) : RateHolds(r)
    BY <1>2, <2>3, RateStep DEF Entries
  <2>5. /\ BorrowedValue(o) \in Int /\ BorrowedValue(o)' \in Int
        /\ BorrowedValue(o)' <= BorrowedValue(o)
    BY <1>2, <2>1, <2>2, <2>3, DebtsEased DEF Touched
  <2>6. /\ UnhealthyValue(o) \in Int /\ UnhealthyValue(o)' \in Int
        /\ UnhealthyValue(o) <= UnhealthyValue(o)'
    BY <1>2, <2>1, <2>2, <2>3, <2>4, LimitEased DEF Touched
  <2>7. BorrowedValue(o)' - UnhealthyValue(o)' <= BorrowedValue(o) - UnhealthyValue(o)
    BY <2>5, <2>6
  <2> QED
    BY <2>7 DEF Shortfall
<1>3. LendingInv /\ CollateralHasSupply /\ CollateralHasSupply' /\ [Next]_vars
        => [\A o \in Owners :
              Readable(o)' /\ ~ Endangers(o) => Shortfall(o)' <= Shortfall(o)]_vars
  BY <1>2
<1> QED
  BY <1>1, <1>3, LendingInvariant, MirrorAlwaysCoversShares, PTL
     DEF Spec, OthersEndangerNobody

-------------------------------------------------------------------------------
\* A write-off costs what is owed.

\* The pool's debt falls by the borrower's, each rounded up by itself.
LEMMA LossStep ==
  ASSUME LendingInv, NEW o \in Owners, NEW r \in Reserves, AbsorbBadDebt(o, r)
  PROVE  total_liquidity(reserve[r]) - total_liquidity(reserve'[r])
           \in (Debt(o, r) - 1)..Debt(o, r)
<1> DEFINE pool == reserve[r].borrowed_principal
           principal == obligation[o].borrows[r]
           rest == pool - principal
           index == reserve[r].borrow_index
           S == FIXED_POINT_SCALE
           before == mul_div_ceil(pool, index, S)
           after == mul_div_ceil(rest, index, S)
           owed == mul_div_ceil(principal, index, S)
           floored == mul_div_floor(principal, index, S)
<1>1. /\ principal <= pool
      /\ reserve' = [reserve EXCEPT ![r].borrowed_principal = @ - principal]
  BY DEF AbsorbBadDebt
<1>2. /\ pool \in Nat /\ index \in Nat /\ S \in Nat \ {0}
      /\ reserve[r].available_liquidity \in Nat /\ reserve[r].accrued_fees \in Nat
  BY ReserveTyped, ScaleAssumption
<1>3. principal \in Nat
  BY DEF LendingInv, TypeOK, ObligationType
<1>4. rest \in Nat /\ pool <= rest + principal /\ rest + principal <= pool
  BY <1>1, <1>2, <1>3
<1>5. /\ reserve'[r].borrowed_principal = rest
      /\ reserve'[r].borrow_index = index
      /\ reserve'[r].available_liquidity = reserve[r].available_liquidity
      /\ reserve'[r].accrued_fees = reserve[r].accrued_fees
  BY <1>1 DEF LendingInv, TypeOK, ReserveType
<1> DEFINE available == reserve[r].available_liquidity
           fees == reserve[r].accrued_fees
<1>6. /\ total_liquidity(reserve[r]) = (available + before) - fees
      /\ total_liquidity(reserve'[r]) = (available + after) - fees
      /\ Debt(o, r) = owed
  <2>1. total_liquidity(reserve[r]) = (available + before) - fees
    BY DEF total_liquidity, gross_liquidity, current_borrowed_amount, debt_at
  <2>2. Debt(o, r) = owed
    BY DEF Debt, debt_at
  <2> HIDE DEF rest, index, available, fees
  <2>3. total_liquidity(reserve'[r]) = (available + after) - fees
    BY <1>5 DEF total_liquidity, gross_liquidity, current_borrowed_amount, debt_at,
                available, fees
  <2> QED
    BY <2>1, <2>2, <2>3
<1> HIDE DEF pool, principal, rest, index, S
<1>7. /\ before \in Nat /\ after \in Nat /\ owed \in Nat /\ floored \in Nat
      /\ principal * index <= owed * S /\ owed * S < principal * index + S
      /\ principal * index < floored * S + S
  BY <1>2, <1>3, <1>4, CeilNat, FloorNat
<1>8. before <= after + owed
  BY <1>2, <1>3, <1>4, CeilSplits
<1>9. after + floored <= before
  BY <1>2, <1>3, <1>4, CeilPlusFloor
<1>10. owed <= floored + 1
  <2>1. principal * index <= (floored + 1) * S
    <3>1. (floored + 1) * S = floored * S + S /\ floored * S \in Nat /\ principal * index \in Nat
      <4> HIDE DEF floored
      <4> QED
        BY <1>2, <1>3, <1>7
    <3> HIDE DEF floored
    <3> QED
      BY <1>2, <1>7, <3>1
  <2> QED
    BY <1>2, <1>3, <1>7, <2>1, CeilAtMost
<1> DEFINE lost == ((available + before) - fees) - ((available + after) - fees)
<1>11. available \in Nat /\ fees \in Nat
  BY <1>2
<1> HIDE DEF before, after, owed, floored, available, fees
<1>12. lost \in (owed - 1)..owed
  BY <1>7, <1>8, <1>9, <1>10, <1>11
<1> QED
  BY <1>6, <1>12 DEF available, fees

\* What a write-off costs the suppliers is the debt the event records, to the unit.
THEOREM LossIsAlwaysTheDebt == Spec => LossIsTheDebt
<1>1. LendingInv
        => [\A o \in Owners, r \in Reserves :
              AbsorbBadDebt(o, r) =>
                total_liquidity(reserve[r]) - total_liquidity(reserve'[r])
                  \in (Debt(o, r) - 1)..Debt(o, r)]_vars
  BY LossStep
<1> QED
  BY <1>1, LendingInvariant, PTL DEF Spec, LossIsTheDebt

-------------------------------------------------------------------------------
\* Repayment stays open.

\* Whoever owes on an accrued reserve passes every check of repay with the whole debt:
\* it is something, and the principal it retires is a part of the reserve's, which is
\* the borrowers' together.
THEOREM FullRepaymentAlwaysAccepted == Spec => []FullRepaymentAccepted
<1>1. LendingInv => FullRepaymentAccepted
  <2> SUFFICES ASSUME LendingInv, NEW o \in Owners, NEW r \in Reserves,
                      obligation[o].borrows[r] > 0, Accrued(r), FitsU64(vault[r] + Debt(o, r))
               PROVE  RepayAccepted(o, r, Debt(o, r))
    BY DEF FullRepaymentAccepted
  <2> DEFINE principal == obligation[o].borrows[r]
             index == reserve[r].borrow_index
             debt == Debt(o, r)
             owed == [p \in Owners |-> obligation[p].borrows[r]]
  <2>1. /\ principal \in Nat \ {0} /\ index \in Nat \ {0}
        /\ FIXED_POINT_SCALE \in Nat \ {0} /\ U64_MAX \in Nat
    <3>1. principal \in Nat /\ index \in Nat /\ principal > 0
      BY DEF LendingInv, TypeOK, ObligationType, ReserveType
    <3>2. index >= FIXED_POINT_SCALE /\ FIXED_POINT_SCALE \in Nat \ {0} /\ U64_MAX \in Nat
      BY ScaleAssumption DEF LendingInv, IndexAtLeastOne
    <3> QED
      BY <3>1, <3>2
  <2>2. debt \in Nat /\ debt > 0
    <3>1. debt \in Nat /\ principal * index <= debt * FIXED_POINT_SCALE
      BY <2>1, CeilNat DEF Debt, debt_at
    <3>2. principal * index > 0
      BY <2>1
    <3> HIDE DEF debt, principal, index
    <3>3. debt # 0
      BY <2>1, <3>1, <3>2
    <3> QED
      BY <3>1, <3>3
  <2>3. AtMost(debt, debt) = debt
    BY <2>2 DEF AtMost
  <2>4. ScaledPayment(o, r, debt) \in Nat /\ ScaledPayment(o, r, debt) <= principal
    BY <2>2, PaymentTyped
  <2>5. /\ principal <= reserve[r].borrowed_principal /\ reserve[r].borrowed_principal \in Nat
    <3>1. NumOwners \in Nat /\ Owners = 1..NumOwners
      BY LendingAssumption DEF Owners
    <3>2. owed \in [1..NumOwners -> Nat]
      BY <3>1 DEF LendingInv, TypeOK, ObligationType
    <3>3. reserve[r].borrowed_principal = SumTo(owed, NumOwners)
      BY DEF LendingInv, PrincipalMatches
    <3> HIDE DEF owed
    <3>4. SumTo(owed, NumOwners) \in Nat /\ owed[o] <= SumTo(owed, NumOwners)
      BY <3>1, <3>2, SumOfNaturals
    <3> QED
      BY <3>3, <3>4 DEF owed
  <2>6. /\ reserve[r].available_liquidity \in Nat /\ vault[r] \in Nat
        /\ reserve[r].available_liquidity <= vault[r]
    BY DEF LendingInv, TypeOK, ReserveType, VaultBacksBooks
  <2>7. /\ FitsU64(debt) /\ FitsU64(reserve[r].available_liquidity + debt)
        /\ FitsU64(vault[r] + debt)
    <3>1. vault[r] + debt <= U64_MAX
      BY DEF FitsU64
    <3> HIDE DEF debt
    <3> QED
      BY <2>1, <2>2, <2>6, <3>1 DEF FitsU64
  <2>8. ScaledPayment(o, r, debt) <= reserve[r].borrowed_principal
    BY <2>1, <2>4, <2>5
  <2> QED
    BY <2>2, <2>3, <2>7, <2>8 DEF RepayAccepted, MayRepay
<1> QED
  BY <1>1, LendingInvariant, PTL

===============================================================================
