---------------------------- MODULE LendingProofs -----------------------------
(***************************************************************************)
(* What AeraLending keeps for every number of reserves, owners and         *)
(* wallets, every configuration that ReserveConfig::validate accepts,      *)
(* every scale and every amount: the state is well typed (no checked       *)
(* subtraction of the code underflows unnoticed), the reserves' scaled     *)
(* debt is the obligations' scaled debt, vaults back the books, custody    *)
(* covers the recorded collateral, and the index never falls.              *)
(***************************************************************************)
EXTENDS LendingProperties, MathProofs

\* Every index is at least one: no reserve forgives debt (INV-08).
IndexAtLeastOne == \A r \in Reserves : reserve[r].borrow_index >= FIXED_POINT_SCALE

\* The inductive invariant.  Typing needs the index to be positive, since debt
\* and payments are divided by it.
LendingInv ==
  /\ TypeOK
  /\ IndexAtLeastOne
  /\ VaultBacksBooks
  /\ CollateralInCustody
  /\ PrincipalMatches

-------------------------------------------------------------------------------
\* The two records the handlers rewrite are typed.
LEMMA RecordsTyped ==
  ASSUME LendingInv
  PROVE  /\ reserve \in [Reserves -> ReserveType]
         /\ obligation \in [Owners -> ObligationType]
BY DEF LendingInv, TypeOK

\* The arithmetic of the handlers is typed.

LEMMA TotalInt ==
  ASSUME NEW rsv \in ReserveType
  PROVE  total_liquidity(rsv) \in Int
BY UtilizationNat DEF total_liquidity, ReserveType

LEMMA SharesTyped ==
  ASSUME NEW rsv \in ReserveType, NEW amount \in Nat
  PROVE  liquidity_to_shares(rsv, amount) \in Nat
<1>1. AtLeast(total_liquidity(rsv), 1) \in Nat \ {0} /\ rsv.share_mint_supply \in Nat
  BY TotalInt DEF AtLeast, ReserveType
<1> QED
  BY <1>1, FloorNat DEF liquidity_to_shares

LEMMA LiquidityTyped ==
  ASSUME NEW rsv \in ReserveType, NEW shares \in Nat, TotalDefined(rsv) \/ shares = 0
  PROVE  /\ shares_to_liquidity_floor(rsv, shares) \in Nat
         /\ shares_to_liquidity_ceil(rsv, shares) \in Nat
<1> DEFINE supply == AtLeast(rsv.share_mint_supply, 1)
           total == total_liquidity(rsv)
<1>1. supply \in Nat \ {0} /\ total \in Int
  BY TotalInt DEF AtLeast, ReserveType
<1>2. CASE TotalDefined(rsv)
  <2>1. total \in Nat
    BY <1>2, UtilizationNat DEF TotalDefined, total_liquidity, ReserveType
  <2> QED
    BY <2>1, <1>1, FloorNat, CeilNat DEF shares_to_liquidity_floor, shares_to_liquidity_ceil
<1>3. CASE shares = 0
  <2> HIDE DEF supply, total
  <2>1. shares * total = 0
    BY <1>1, <1>3
  <2>2. 0 \div supply \in Nat /\ (0 + (supply - 1)) \div supply \in Nat
    BY <1>1, Quotient
  <2> QED
    BY <2>1, <2>2 DEF shares_to_liquidity_floor, shares_to_liquidity_ceil,
                      mul_div_floor, mul_div_ceil, supply, total
<1> QED
  BY <1>2, <1>3

\* The protocol's part of a seizure never exceeds the seizure.
LEMMA SplitTyped ==
  ASSUME NEW seized \in Nat, NEW bonus \in Nat, NEW share \in Nat
  PROVE  LET split == split_seized_shares(seized, bonus, share) IN
         /\ split.protocol \in Nat
         /\ split.liquidator \in Nat
         /\ split.protocol + split.liquidator = seized
<1> DEFINE part == AtMost(share, bonus)
           whole == BPS_DENOMINATOR + bonus
           protocol == protocol_seized_shares(seized, bonus, share)
<1>1. part \in Nat /\ whole \in Nat \ {0} /\ part <= whole
  BY ScaleAssumption DEF AtMost
<1>2. protocol \in Nat /\ protocol <= seized
  <2> HIDE DEF part, whole
  <2> QED
    BY <1>1, FloorNat, FloorShrinks DEF protocol_seized_shares, part, whole
<1>3. split_seized_shares(seized, bonus, share)
        = [protocol |-> protocol, liquidator |-> seized - protocol]
  BY DEF split_seized_shares
<1> HIDE DEF protocol
<1> QED
  BY <1>2, <1>3

\* What validated configurations and the other constants give.
LEMMA ConfigTyped ==
  ASSUME TypeOK, NEW r \in Reserves
  PROVE  /\ ValidConfig(config[r])
         /\ TokenUnit[r] \in Nat \ {0}
         /\ config[r].loan_to_value_bps \in Nat
         /\ config[r].liquidation_threshold_bps \in Nat
         /\ config[r].liquidation_bonus_bps \in Nat
         /\ config[r].collateral_haircut_bps \in Nat
         /\ config[r].collateral_haircut_bps <= BPS_DENOMINATOR
         /\ config[r].origination_fee_bps \in Nat
         /\ Risk[r].protocol_liquidation_share_bps \in Nat
BY LendingAssumption DEF TypeOK, ValidConfig, ReserveConfigType, RiskConfigType

\* refresh_obligation stores naturals.
LEMMA ValuationTyped ==
  ASSUME TypeOK, NEW o \in Owners,
         \A r \in Entries(obligation[o].deposits) : TotalDefined(reserve[r])
  PROVE  /\ BorrowedValue(o) \in Nat
         /\ AllowedValue(o) \in Nat
         /\ UnhealthyValue(o) \in Nat
<1>1. ASSUME NEW r \in Reserves
      PROVE  /\ reserve[r] \in ReserveType
             /\ oracle[r].rate \in Nat
             /\ obligation[o].deposits[r] \in Nat
             /\ obligation[o].borrows[r] \in Nat
  BY DEF TypeOK, OracleType, ObligationType
<1>2. ASSUME NEW r \in Reserves PROVE EffectiveValue(o, r) \in Nat
  <2>1. TotalDefined(reserve[r]) \/ obligation[o].deposits[r] = 0
    BY <1>1 DEF Entries
  <2>2. shares_to_liquidity_floor(reserve[r], obligation[o].deposits[r]) \in Nat
    BY <1>1, <2>1, LiquidityTyped
  <2> QED
    BY <2>2, <1>1, ConfigTyped, ValueNat, HaircutNat DEF EffectiveValue
<1>3. ASSUME NEW r \in Reserves
      PROVE  /\ mul_div_floor(EffectiveValue(o, r), config[r].loan_to_value_bps,
                              BPS_DENOMINATOR) \in Nat
             /\ mul_div_floor(EffectiveValue(o, r), config[r].liquidation_threshold_bps,
                              BPS_DENOMINATOR) \in Nat
  BY <1>2, ConfigTyped, ScaleAssumption, FloorNat
<1>4. ASSUME NEW r \in Reserves
      PROVE  market_value_ceil(Debt(o, r), TokenUnit[r], oracle[r].rate) \in Nat
  <2>1. Debt(o, r) \in Nat
    BY <1>1, DebtNat DEF Debt, ReserveType
  <2> QED
    BY <2>1, <1>1, ConfigTyped, ValueNat
<1>5. NumReserves \in Nat /\ Reserves = 1..NumReserves
  BY LendingAssumption DEF Reserves
<1>6. AllowedValue(o) \in Nat
  BY <1>3, <1>5, SumOfNaturals DEF AllowedValue
<1>7. UnhealthyValue(o) \in Nat
  BY <1>3, <1>5, SumOfNaturals DEF UnhealthyValue
<1>8. BorrowedValue(o) \in Nat
  BY <1>4, <1>5, SumOfNaturals DEF BorrowedValue
<1> QED
  BY <1>6, <1>7, <1>8

-------------------------------------------------------------------------------
\* One entry of a position moves, and nothing else does.

LEMMA DepositMoved ==
  ASSUME obligation \in [Owners -> ObligationType],
         NEW o \in Owners, NEW r \in Reserves, NEW change \in Int,
         obligation[o].deposits[r] + change \in Nat
  PROVE  /\ WithDeposit(o, r, change) \in [Owners -> ObligationType]
         /\ \A p \in Owners : WithDeposit(o, r, change)[p].borrows = obligation[p].borrows
         /\ \A p \in Owners : WithDeposit(o, r, change)[p].deposits =
              IF p = o THEN [obligation[o].deposits EXCEPT ![r] = @ + change]
              ELSE obligation[p].deposits
<1> DEFINE moved == [obligation[o] EXCEPT !.deposits[r] = @ + change, !.stale = TRUE]
<1>1. /\ moved \in ObligationType
      /\ moved.borrows = obligation[o].borrows
      /\ moved.deposits = [obligation[o].deposits EXCEPT ![r] = @ + change]
  BY DEF ObligationType
<1>2. WithDeposit(o, r, change) = [obligation EXCEPT ![o] = moved]
  BY DEF WithDeposit
<1> HIDE DEF moved
<1> QED
  BY <1>1, <1>2

LEMMA DebtMoved ==
  ASSUME obligation \in [Owners -> ObligationType],
         NEW o \in Owners, NEW r \in Reserves, NEW change \in Int,
         obligation[o].borrows[r] + change \in Nat
  PROVE  /\ WithDebt(o, r, change) \in [Owners -> ObligationType]
         /\ \A p \in Owners : WithDebt(o, r, change)[p].deposits = obligation[p].deposits
         /\ \A p \in Owners : WithDebt(o, r, change)[p].borrows =
              IF p = o THEN [obligation[o].borrows EXCEPT ![r] = @ + change]
              ELSE obligation[p].borrows
<1> DEFINE moved == [obligation[o] EXCEPT !.borrows[r] = @ + change, !.stale = TRUE]
<1>1. /\ moved \in ObligationType
      /\ moved.deposits = obligation[o].deposits
      /\ moved.borrows = [obligation[o].borrows EXCEPT ![r] = @ + change]
  BY DEF ObligationType
<1>2. WithDebt(o, r, change) = [obligation EXCEPT ![o] = moved]
  BY DEF WithDebt
<1> HIDE DEF moved
<1> QED
  BY <1>1, <1>2

\* When the reserve and one borrower move by the same principal, the totals
\* still agree.
LEMMA TotalsMoveTogether ==
  ASSUME TypeOK, PrincipalMatches, TypeOK',
         NEW o \in Owners, NEW r \in Reserves, NEW change \in Int,
         reserve'[r].borrowed_principal = reserve[r].borrowed_principal + change,
         \A q \in Reserves \ {r} :
           reserve'[q].borrowed_principal = reserve[q].borrowed_principal,
         \A p \in Owners : obligation'[p].borrows =
              IF p = o THEN [obligation[o].borrows EXCEPT ![r] = @ + change]
              ELSE obligation[p].borrows
  PROVE  PrincipalMatches'
<1> SUFFICES ASSUME NEW q \in Reserves
             PROVE  reserve'[q].borrowed_principal
                      = SumTo([p \in Owners |-> obligation'[p].borrows[q]], NumOwners)
  BY DEF PrincipalMatches
<1> DEFINE f == [p \in Owners |-> obligation[p].borrows[q]]
           g == [p \in Owners |-> obligation'[p].borrows[q]]
<1>1. NumOwners \in Nat /\ Owners = 1..NumOwners
  BY LendingAssumption DEF Owners
<1>2. \A p \in Owners : obligation[p].borrows \in [Reserves -> Nat]
  BY DEF TypeOK, ObligationType
<1>3. f \in [Owners -> Int]
  BY <1>2
<1>4. reserve[q].borrowed_principal = SumTo(f, NumOwners)
  BY DEF PrincipalMatches
<1>5. CASE q = r
  <2>1. g = [f EXCEPT ![o] = f[o] + change]
    BY <1>2, <1>5
  <2>2. f[o] \in Int /\ f[o] + change \in Int
    BY <1>3
  <2> HIDE DEF f, g
  <2>3. SumTo(g, NumOwners) = SumTo(f, NumOwners) - f[o] + (f[o] + change)
    BY <1>1, <1>3, <2>1, <2>2, SumUpdate
  <2>4. SumTo(f, NumOwners) \in Int
    BY <1>1, <1>3, PartialSumsAccumulates
  <2> QED
    BY <1>4, <1>5, <2>2, <2>3, <2>4 DEF g
<1>6. CASE q # r
  <2>1. g = f
    BY <1>2, <1>6
  <2> QED
    BY <2>1, <1>4, <1>6
<1> QED
  BY <1>5, <1>6

\* When an obligation's deposit and its vault move by the same shares, the vault
\* still covers what is recorded.
LEMMA CustodyMovesTogether ==
  ASSUME TypeOK, CollateralInCustody, NEW o \in Owners, NEW r \in Reserves, NEW change \in Int,
         \A p \in Owners, q \in Reserves :
           custody'[p][q] = custody[p][q] + (IF p = o /\ q = r THEN change ELSE 0),
         \A p \in Owners : obligation'[p].deposits =
              IF p = o THEN [obligation[o].deposits EXCEPT ![r] = @ + change]
              ELSE obligation[p].deposits
  PROVE  CollateralInCustody'
<1> SUFFICES ASSUME NEW p \in Owners, NEW q \in Reserves
             PROVE  custody'[p][q] >= obligation'[p].deposits[q]
  BY DEF CollateralInCustody
<1>1. /\ custody[p][q] \in Nat
      /\ obligation[p].deposits \in [Reserves -> Nat]
      /\ obligation[o].deposits \in [Reserves -> Nat]
  BY DEF TypeOK, ObligationType
<1>2. custody[p][q] >= obligation[p].deposits[q]
  BY DEF CollateralInCustody
<1>3. obligation'[p].deposits[q]
        = obligation[p].deposits[q] + (IF p = o /\ q = r THEN change ELSE 0)
  BY <1>1
<1> QED
  BY <1>1, <1>2, <1>3

-------------------------------------------------------------------------------
\* One lemma per instruction that moves debt or shares: it keeps the types and
\* the books.

LEMMA SupplyKeeps ==
  ASSUME LendingInv, NEW w \in Wallets, NEW r \in Reserves, NEW n \in Nat,
         Supply(w, r, n)
  PROVE  LendingInv'
<1> DEFINE shares == liquidity_to_shares(reserve[r], n)
<1>1. shares \in Nat
  BY SharesTyped DEF LendingInv, TypeOK
<1>2. TypeOK'
  <2> HIDE DEF shares
  <2>1. reserve' \in [Reserves -> ReserveType]
    <3>1. reserve' = [reserve EXCEPT ![r].available_liquidity = @ + n,
                                     ![r].share_mint_supply = @ + shares]
      BY DEF Supply, shares
    <3>2. /\ reserve[r].available_liquidity + n \in Nat
          /\ reserve[r].share_mint_supply + shares \in Nat
      BY <1>1, RecordsTyped DEF ReserveType
    <3> QED
      BY <3>1, <3>2, RecordsTyped DEF ReserveType
  <2>2. /\ position' \in [Wallets -> [Reserves -> Nat]]
        /\ vault' \in [Reserves -> Nat]
        /\ wallet' \in [Wallets -> [Reserves -> Nat]]
    BY <1>1 DEF LendingInv, TypeOK, Supply, shares
  <2> QED
    BY <2>1, <2>2 DEF LendingInv, TypeOK, Supply
<1>3. IndexAtLeastOne' /\ PrincipalMatches'
  <2>1. \A q \in Reserves : /\ reserve'[q].borrow_index = reserve[q].borrow_index
                             /\ reserve'[q].borrowed_principal = reserve[q].borrowed_principal
    BY RecordsTyped DEF Supply, ReserveType
  <2> QED
    BY <2>1 DEF LendingInv, IndexAtLeastOne, PrincipalMatches, Supply
<1>4. VaultBacksBooks'
  BY DEF LendingInv, TypeOK, ReserveType, VaultBacksBooks, Supply
<1>5. CollateralInCustody'
  BY DEF LendingInv, CollateralInCustody, Supply
<1> QED
  BY <1>2, <1>3, <1>4, <1>5 DEF LendingInv

LEMMA WithdrawKeeps ==
  ASSUME LendingInv, NEW w \in Wallets, NEW r \in Reserves, NEW n \in Nat,
         Withdraw(w, r, n)
  PROVE  LendingInv'
<1> DEFINE liquidity == shares_to_liquidity_floor(reserve[r], n)
<1>1. liquidity \in Nat
  BY LiquidityTyped DEF LendingInv, TypeOK, Withdraw
<1>2. TypeOK'
  <2> HIDE DEF liquidity
  <2>1. reserve' \in [Reserves -> ReserveType]
    <3>1. /\ reserve[r].available_liquidity - liquidity \in Nat
          /\ reserve[r].share_mint_supply - n \in Nat
      BY <1>1 DEF LendingInv, TypeOK, Withdraw, ReserveType, liquidity
    <3>2. reserve' = [reserve EXCEPT ![r].available_liquidity = @ - liquidity,
                                     ![r].share_mint_supply = @ - n]
      BY DEF Withdraw, liquidity
    <3> QED
      BY <3>1, <3>2, RecordsTyped DEF ReserveType
  <2>2. vault' \in [Reserves -> Nat] /\ wallet' \in [Wallets -> [Reserves -> Nat]]
    BY <1>1 DEF LendingInv, TypeOK, Withdraw, liquidity
  <2>3. position' \in [Wallets -> [Reserves -> Nat]]
    BY <1>1 DEF LendingInv, TypeOK, Withdraw, liquidity, saturating_sub
  <2> QED
    BY <2>1, <2>2, <2>3 DEF LendingInv, TypeOK, Withdraw
<1>3. IndexAtLeastOne' /\ PrincipalMatches'
  BY DEF LendingInv, TypeOK, ReserveType, IndexAtLeastOne, PrincipalMatches, Withdraw
<1>4. VaultBacksBooks'
  <2> HIDE DEF liquidity
  <2> QED
    BY <1>1 DEF LendingInv, TypeOK, ReserveType, VaultBacksBooks, Withdraw, liquidity
<1>5. CollateralInCustody'
  BY DEF LendingInv, CollateralInCustody, Withdraw
<1> QED
  BY <1>2, <1>3, <1>4, <1>5 DEF LendingInv

LEMMA DepositCollateralKeeps ==
  ASSUME LendingInv, NEW o \in Owners, NEW r \in Reserves, NEW n \in Nat,
         DepositCollateral(o, r, n)
  PROVE  LendingInv' /\ \A p \in Owners : obligation'[p].borrows = obligation[p].borrows
<1>1. o \in Wallets
  BY LendingAssumption DEF Owners, Wallets
<1>2. obligation \in [Owners -> ObligationType] /\ obligation[o].deposits[r] + n \in Nat
  BY DEF LendingInv, TypeOK, ObligationType
<1>3. obligation' = WithDeposit(o, r, n)
  BY DEF DepositCollateral
<1>4. /\ obligation' \in [Owners -> ObligationType]
      /\ \A p \in Owners : obligation'[p].borrows = obligation[p].borrows
      /\ \A p \in Owners : obligation'[p].deposits =
           IF p = o THEN [obligation[o].deposits EXCEPT ![r] = @ + n]
           ELSE obligation[p].deposits
  BY <1>2, <1>3, DepositMoved
<1>5. TypeOK'
  <2>1. wallet' \in [Wallets -> [Reserves -> Nat]] /\ custody' \in [Owners -> [Reserves -> Nat]]
    BY <1>1 DEF LendingInv, TypeOK, DepositCollateral
  <2> QED
    BY <1>4, <2>1 DEF LendingInv, TypeOK, DepositCollateral
<1>6. IndexAtLeastOne' /\ VaultBacksBooks'
  BY DEF LendingInv, IndexAtLeastOne, VaultBacksBooks, DepositCollateral
<1>7. PrincipalMatches'
  BY <1>4 DEF LendingInv, PrincipalMatches, DepositCollateral
<1>8. CollateralInCustody'
  <2>1. n \in Int /\ TypeOK /\ CollateralInCustody
    BY DEF LendingInv
  <2>2. \A p \in Owners, q \in Reserves :
          custody'[p][q] = custody[p][q] + (IF p = o /\ q = r THEN n ELSE 0)
    BY DEF LendingInv, TypeOK, DepositCollateral
  <2> QED
    BY <1>4, <2>1, <2>2, CustodyMovesTogether
<1> QED
  BY <1>4, <1>5, <1>6, <1>7, <1>8 DEF LendingInv

LEMMA WithdrawCollateralKeeps ==
  ASSUME LendingInv, NEW o \in Owners, NEW r \in Reserves, NEW n \in Nat,
         WithdrawCollateral(o, r, n)
  PROVE  LendingInv' /\ \A p \in Owners : obligation'[p].borrows = obligation[p].borrows
<1>1. o \in Wallets
  BY LendingAssumption DEF Owners, Wallets
<1>2. obligation \in [Owners -> ObligationType] /\ obligation[o].deposits[r] + (-n) \in Nat
  BY DEF LendingInv, TypeOK, ObligationType, WithdrawCollateral
<1>3. obligation' = WithDeposit(o, r, -n)
  BY DEF WithdrawCollateral
<1>4. /\ obligation' \in [Owners -> ObligationType]
      /\ \A p \in Owners : obligation'[p].borrows = obligation[p].borrows
      /\ \A p \in Owners : obligation'[p].deposits =
           IF p = o THEN [obligation[o].deposits EXCEPT ![r] = @ + (-n)]
           ELSE obligation[p].deposits
  BY <1>2, <1>3, DepositMoved
<1>5. TypeOK'
  <2>1. wallet' \in [Wallets -> [Reserves -> Nat]] /\ custody' \in [Owners -> [Reserves -> Nat]]
    BY <1>1 DEF LendingInv, TypeOK, WithdrawCollateral
  <2> QED
    BY <1>4, <2>1 DEF LendingInv, TypeOK, WithdrawCollateral
<1>6. IndexAtLeastOne' /\ VaultBacksBooks'
  BY DEF LendingInv, IndexAtLeastOne, VaultBacksBooks, WithdrawCollateral
<1>7. PrincipalMatches'
  BY <1>4 DEF LendingInv, PrincipalMatches, WithdrawCollateral
<1>8. CollateralInCustody'
  <2>1. -n \in Int /\ TypeOK /\ CollateralInCustody
    BY DEF LendingInv
  <2>2. \A p \in Owners, q \in Reserves :
          custody'[p][q] = custody[p][q] + (IF p = o /\ q = r THEN -n ELSE 0)
    BY DEF LendingInv, TypeOK, WithdrawCollateral
  <2> QED
    BY <1>4, <2>1, <2>2, CustodyMovesTogether
<1> QED
  BY <1>4, <1>5, <1>6, <1>7, <1>8 DEF LendingInv

LEMMA BorrowKeeps ==
  ASSUME LendingInv, NEW o \in Owners, NEW r \in Reserves, NEW n \in Nat,
         Borrow(o, r, n)
  PROVE  LendingInv'
<1> DEFINE scaled == ScaledDebt(r, n)
           fee == OriginationFee(r, n)
<1>1. scaled \in Nat
  <2>1. reserve[r].borrow_index \in Nat \ {0}
    BY ScaleAssumption DEF LendingInv, TypeOK, ReserveType, IndexAtLeastOne
  <2> QED
    BY <2>1, ScaleAssumption, CeilNat DEF ScaledDebt
<1>2. fee \in Nat
  BY ConfigTyped, ScaleAssumption, FloorNat DEF LendingInv, OriginationFee
<1>3. /\ n <= reserve[r].available_liquidity /\ n - fee > 0 /\ n - fee <= vault[r]
      /\ reserve' = [reserve EXCEPT ![r].borrowed_principal = @ + scaled,
                                    ![r].available_liquidity = @ - (n - fee),
                                    ![r].accrued_fees = @ + fee]
      /\ obligation' = WithDebt(o, r, scaled)
      /\ vault' = [vault EXCEPT ![r] = @ - (n - fee)]
      /\ UNCHANGED <<slot, config, global, oracle, position, wallet, custody, fee_shares>>
  BY DEF Borrow
<1> HIDE DEF scaled, fee
<1>4. obligation \in [Owners -> ObligationType] /\ obligation[o].borrows[r] + scaled \in Nat
  BY <1>1 DEF LendingInv, TypeOK, ObligationType
<1>5. /\ obligation' \in [Owners -> ObligationType]
      /\ \A p \in Owners : obligation'[p].deposits = obligation[p].deposits
      /\ \A p \in Owners : obligation'[p].borrows =
           IF p = o THEN [obligation[o].borrows EXCEPT ![r] = @ + scaled]
           ELSE obligation[p].borrows
  BY <1>1, <1>3, <1>4, DebtMoved
<1>6. TypeOK'
  <2>1. reserve' \in [Reserves -> ReserveType]
    <3>1. /\ reserve[r].borrowed_principal + scaled \in Nat
          /\ reserve[r].available_liquidity - (n - fee) \in Nat
          /\ reserve[r].accrued_fees + fee \in Nat
      BY <1>1, <1>2, <1>3 DEF LendingInv, TypeOK, ReserveType
    <3> DEFINE rsv == [reserve[r] EXCEPT !.borrowed_principal = @ + scaled,
                                         !.available_liquidity = @ - (n - fee),
                                         !.accrued_fees = @ + fee]
    <3>2. rsv \in ReserveType
      BY <3>1, RecordsTyped DEF ReserveType
    <3>3. reserve' = [reserve EXCEPT ![r] = rsv]
      BY <1>3, RecordsTyped DEF ReserveType
    <3> HIDE DEF rsv
    <3> QED
      BY <3>2, <3>3, RecordsTyped
  <2>2. vault' \in [Reserves -> Nat]
    BY <1>2, <1>3 DEF LendingInv, TypeOK
  <2> QED
    BY <2>1, <2>2, <1>3, <1>5 DEF LendingInv, TypeOK
<1>7. IndexAtLeastOne'
  BY <1>3 DEF LendingInv, TypeOK, ReserveType, IndexAtLeastOne
<1>8. VaultBacksBooks'
  BY <1>2, <1>3 DEF LendingInv, TypeOK, ReserveType, VaultBacksBooks
<1>9. CollateralInCustody'
  BY <1>3, <1>5 DEF LendingInv, CollateralInCustody
<1>10. PrincipalMatches'
  <2>1. /\ reserve'[r].borrowed_principal = reserve[r].borrowed_principal + scaled
        /\ \A q \in Reserves \ {r} :
             reserve'[q].borrowed_principal = reserve[q].borrowed_principal
    BY <1>3 DEF LendingInv, TypeOK, ReserveType
  <2> QED
    BY <2>1, <1>1, <1>5, <1>6, TotalsMoveTogether DEF LendingInv
<1> QED
  BY <1>6, <1>7, <1>8, <1>9, <1>10 DEF LendingInv

\* What a payment retires is natural and no more than the principal owed.
LEMMA PaymentTyped ==
  ASSUME LendingInv, NEW o \in Owners, NEW r \in Reserves, NEW paid \in Nat
  PROVE  /\ ScaledPayment(o, r, paid) \in Nat
         /\ ScaledPayment(o, r, paid) <= obligation[o].borrows[r]
<1>1. reserve[r].borrow_index \in Nat \ {0} /\ obligation[o].borrows[r] \in Nat
  BY ScaleAssumption DEF LendingInv, TypeOK, ReserveType, ObligationType, IndexAtLeastOne
<1>2. mul_div_floor(paid, FIXED_POINT_SCALE, reserve[r].borrow_index) \in Nat
  BY <1>1, ScaleAssumption, FloorNat
<1> QED
  BY <1>1, <1>2 DEF ScaledPayment, AtMost

\* A step that pays some amount into r's vault against o's debt there: what
\* repay and liquidate have in common.
PaysDebt(o, r) ==
  \E paid \in Nat :
    /\ vault' = [vault EXCEPT ![r] = @ + paid]
    /\ \A p \in Owners : obligation'[p].borrows =
         IF p = o THEN [obligation[o].borrows EXCEPT ![r] = @ + (-ScaledPayment(o, r, paid))]
         ELSE obligation[p].borrows

LEMMA RepayKeeps ==
  ASSUME LendingInv, NEW o \in Owners, NEW r \in Reserves, NEW n \in Nat,
         Repay(o, r, n)
  PROVE  LendingInv' /\ PaysDebt(o, r)
<1> DEFINE paid == AtMost(n, Debt(o, r))
           scaled == ScaledPayment(o, r, paid)
<1>1. paid \in Nat
  BY DebtNat DEF LendingInv, TypeOK, ReserveType, ObligationType, Debt, AtMost
<1>2. scaled \in Nat /\ scaled <= obligation[o].borrows[r]
  BY <1>1, PaymentTyped
<1>3. /\ scaled <= reserve[r].borrowed_principal
      /\ reserve' = [reserve EXCEPT ![r].borrowed_principal = @ - scaled,
                                    ![r].available_liquidity = @ + paid]
      /\ obligation' = WithDebt(o, r, -scaled)
      /\ vault' = [vault EXCEPT ![r] = @ + paid]
      /\ UNCHANGED <<slot, config, global, oracle, position, wallet, custody, fee_shares>>
  BY DEF Repay, RepayAccepted
<1> HIDE DEF paid, scaled
<1>4. obligation \in [Owners -> ObligationType] /\ obligation[o].borrows[r] + (-scaled) \in Nat
  BY <1>2 DEF LendingInv, TypeOK, ObligationType
<1>5. /\ obligation' \in [Owners -> ObligationType]
      /\ \A p \in Owners : obligation'[p].deposits = obligation[p].deposits
      /\ \A p \in Owners : obligation'[p].borrows =
           IF p = o THEN [obligation[o].borrows EXCEPT ![r] = @ + (-scaled)]
           ELSE obligation[p].borrows
  BY <1>2, <1>3, <1>4, DebtMoved
<1>6. TypeOK'
  <2>1. reserve' \in [Reserves -> ReserveType]
    <3>1. /\ reserve[r].borrowed_principal - scaled \in Nat
          /\ reserve[r].available_liquidity + paid \in Nat
      BY <1>1, <1>2, <1>3 DEF LendingInv, TypeOK, ReserveType
    <3> QED
      BY <3>1, <1>3, RecordsTyped DEF ReserveType
  <2>2. vault' \in [Reserves -> Nat]
    BY <1>1, <1>3 DEF LendingInv, TypeOK
  <2> QED
    BY <2>1, <2>2, <1>3, <1>5 DEF LendingInv, TypeOK
<1>7. IndexAtLeastOne'
  BY <1>3 DEF LendingInv, TypeOK, ReserveType, IndexAtLeastOne
<1>8. VaultBacksBooks'
  BY <1>1, <1>3 DEF LendingInv, TypeOK, ReserveType, VaultBacksBooks
<1>9. CollateralInCustody'
  BY <1>3, <1>5 DEF LendingInv, CollateralInCustody
<1>10. PrincipalMatches'
  <2>1. /\ reserve'[r].borrowed_principal = reserve[r].borrowed_principal + (-scaled)
        /\ \A q \in Reserves \ {r} :
             reserve'[q].borrowed_principal = reserve[q].borrowed_principal
    BY <1>2, <1>3 DEF LendingInv, TypeOK, ReserveType
  <2> QED
    BY <2>1, <1>2, <1>5, <1>6, TotalsMoveTogether DEF LendingInv
<1>11. PaysDebt(o, r)
  BY <1>1, <1>3, <1>5 DEF PaysDebt, scaled
<1> QED
  BY <1>6, <1>7, <1>8, <1>9, <1>10, <1>11 DEF LendingInv

\* What a liquidation may repay is natural.
LEMMA MaxRepayTyped ==
  ASSUME LendingInv, NEW o \in Owners, NEW d \in Reserves
  PROVE  MaxRepay(o, d) \in Nat
<1>1. Debt(o, d) \in Nat /\ BPS_DENOMINATOR \in Nat \ {0}
  <2>1. reserve[d].borrow_index \in Nat /\ obligation[o].borrows[d] \in Nat
    BY DEF LendingInv, TypeOK, ReserveType, ObligationType
  <2> QED
    BY <2>1, ScaleAssumption, DebtNat DEF Debt
<1>2. config[d].close_factor_bps \in Nat
  BY ConfigTyped DEF LendingInv, ValidConfig, ReserveConfigType
<1>3. CloseFactor(o, d) \in Nat
  BY <1>1, <1>2 DEF CloseFactor
<1> QED
  BY <1>1, <1>3, FloorNat DEF MaxRepay

\* A payment against o's debt in d takes the principal it retires off one entry and
\* the shares seized for it off another, whichever reserves they are.
TradesEntries(o, d, c, paid) ==
  LET seized == SeizedShares(d, c, paid)
      scaled == ScaledPayment(o, d, paid)
  IN  /\ paid \in Nat /\ seized \in Nat /\ seized <= obligation[o].deposits[c]
      /\ scaled \in Nat /\ scaled <= obligation[o].borrows[d]
      /\ obligation' \in [Owners -> ObligationType]
      /\ \A p \in Owners : obligation'[p].borrows =
           IF p = o THEN [obligation[o].borrows EXCEPT ![d] = @ + (-scaled)]
           ELSE obligation[p].borrows
      /\ \A p \in Owners : obligation'[p].deposits =
           IF p = o THEN [obligation[o].deposits EXCEPT ![c] = @ - seized]
           ELSE obligation[p].deposits

LEMMA LiquidationEntries ==
  ASSUME LendingInv, NEW w \in Wallets, NEW o \in Owners,
         NEW d \in Reserves, NEW c \in Reserves, NEW n \in Nat,
         Liquidate(w, o, d, c, n)
  PROVE  TradesEntries(o, d, c, AtMost(n, MaxRepay(o, d)))
<1> DEFINE paid == AtMost(n, MaxRepay(o, d))
           seized == SeizedShares(d, c, paid)
           scaled == ScaledPayment(o, d, paid)
<1>1. /\ seized \in 1..obligation[o].deposits[c]
      /\ obligation' = [WithDebt(o, d, -scaled) EXCEPT ![o].deposits[c] = @ - seized]
  BY DEF Liquidate
<1>2. paid \in Nat
  BY MaxRepayTyped DEF AtMost
<1>3. scaled \in Nat /\ scaled <= obligation[o].borrows[d]
  BY <1>2, PaymentTyped
<1>4. obligation[o].deposits[c] \in Nat
  BY DEF LendingInv, TypeOK, ObligationType
<1>5. seized \in Nat /\ seized <= obligation[o].deposits[c]
  BY <1>1, <1>4
<1> DEFINE seen == WithDebt(o, d, -scaled)
<1>6. /\ seen \in [Owners -> ObligationType]
      /\ \A p \in Owners : seen[p].deposits = obligation[p].deposits
      /\ \A p \in Owners : seen[p].borrows =
           IF p = o THEN [obligation[o].borrows EXCEPT ![d] = @ + (-scaled)]
           ELSE obligation[p].borrows
  <2> HIDE DEF paid, scaled
  <2>1. obligation \in [Owners -> ObligationType] /\ obligation[o].borrows[d] + (-scaled) \in Nat
    BY <1>3 DEF LendingInv, TypeOK, ObligationType
  <2> QED
    BY <1>3, <2>1, DebtMoved
<1> HIDE DEF paid, seized, scaled, seen
<1>7. obligation' = [seen EXCEPT ![o].deposits[c] = @ - seized]
  BY <1>1 DEF seen
<1>8. /\ obligation' \in [Owners -> ObligationType]
      /\ \A p \in Owners : obligation'[p].borrows =
           IF p = o THEN [obligation[o].borrows EXCEPT ![d] = @ + (-scaled)]
           ELSE obligation[p].borrows
      /\ \A p \in Owners : obligation'[p].deposits =
           IF p = o THEN [obligation[o].deposits EXCEPT ![c] = @ - seized]
           ELSE obligation[p].deposits
  <2>1. obligation[o].deposits[c] - seized \in Nat
    BY <1>1, <1>4, <1>5
  <2> DEFINE left == [obligation[o].deposits EXCEPT ![c] = @ - seized]
             moved == [seen[o] EXCEPT !.deposits = left]
  <2>2. left \in [Reserves -> Nat]
    BY <2>1 DEF LendingInv, TypeOK, ObligationType
  <2>3. seen[o].deposits = obligation[o].deposits /\ seen[o] \in ObligationType
    BY <1>6
  <2>4. obligation' = [seen EXCEPT ![o] = moved]
    BY <1>6, <1>7, <2>3 DEF ObligationType
  <2> HIDE DEF left
  <2>5. moved \in ObligationType /\ moved.deposits = left /\ moved.borrows = seen[o].borrows
    BY <2>2, <2>3 DEF ObligationType
  <2> HIDE DEF moved
  <2>6. /\ obligation' \in [Owners -> ObligationType]
        /\ obligation'[o] = moved
        /\ \A p \in Owners \ {o} : obligation'[p] = seen[p]
    BY <1>6, <2>4, <2>5
  <2> QED
    BY <1>6, <2>5, <2>6 DEF left
<1> QED
  BY <1>2, <1>3, <1>5, <1>8 DEF TradesEntries, paid, seized, scaled

LEMMA LiquidateKeeps ==
  ASSUME LendingInv, NEW w \in Wallets, NEW o \in Owners,
         NEW d \in Reserves, NEW c \in Reserves, NEW n \in Nat,
         Liquidate(w, o, d, c, n)
  PROVE  LendingInv' /\ PaysDebt(o, d)
<1> DEFINE paid == AtMost(n, MaxRepay(o, d))
           seized == SeizedShares(d, c, paid)
           split == split_seized_shares(seized, config[c].liquidation_bonus_bps,
                                        Risk[c].protocol_liquidation_share_bps)
           scaled == ScaledPayment(o, d, paid)
<1>1. /\ paid > 0
      /\ seized \in 1..obligation[o].deposits[c]
      /\ split.liquidator + split.protocol <= custody[o][c]
      /\ scaled <= reserve[d].borrowed_principal
      /\ reserve' = [reserve EXCEPT ![d].borrowed_principal = @ - scaled,
                                    ![d].available_liquidity = @ + paid]
      /\ obligation' = [WithDebt(o, d, -scaled) EXCEPT ![o].deposits[c] = @ - seized]
      /\ vault' = [vault EXCEPT ![d] = @ + paid]
      /\ custody' = [custody EXCEPT ![o][c] = (@ - split.liquidator) - split.protocol]
      /\ wallet' = [wallet EXCEPT ![w][c] = @ + split.liquidator]
      /\ fee_shares' = [fee_shares EXCEPT ![c] = @ + split.protocol]
      /\ UNCHANGED <<slot, config, global, oracle, position>>
  BY DEF Liquidate
<1>2. /\ paid \in Nat /\ seized \in Nat
      /\ scaled \in Nat /\ scaled <= obligation[o].borrows[d]
      /\ obligation' \in [Owners -> ObligationType]
      /\ \A p \in Owners : obligation'[p].borrows =
           IF p = o THEN [obligation[o].borrows EXCEPT ![d] = @ + (-scaled)]
           ELSE obligation[p].borrows
      /\ \A p \in Owners : obligation'[p].deposits =
           IF p = o THEN [obligation[o].deposits EXCEPT ![c] = @ - seized]
           ELSE obligation[p].deposits
  BY LiquidationEntries DEF TradesEntries
<1>3. /\ split.protocol \in Nat /\ split.liquidator \in Nat
      /\ split.protocol + split.liquidator = seized
  BY <1>2, ConfigTyped, SplitTyped DEF LendingInv
<1> DEFINE gain == split.liquidator
           cut == split.protocol
<1> HIDE DEF paid, seized, split, scaled, gain, cut
<1>4. TypeOK'
  <2>1. reserve' \in [Reserves -> ReserveType]
    <3>1. /\ reserve[d].borrowed_principal - scaled \in Nat
          /\ reserve[d].available_liquidity + paid \in Nat
      BY <1>1, <1>2 DEF LendingInv, TypeOK, ReserveType
    <3> QED
      BY <3>1, <1>1, RecordsTyped DEF ReserveType
  <2>2. vault' \in [Reserves -> Nat]
    BY <1>1, <1>2 DEF LendingInv, TypeOK
  <2>3. custody' \in [Owners -> [Reserves -> Nat]]
    <3>1. custody[o][c] \in Nat /\ custody \in [Owners -> [Reserves -> Nat]]
      BY DEF LendingInv, TypeOK
    <3>2. (custody[o][c] - split.liquidator) - split.protocol \in Nat
      BY <1>1, <1>3, <3>1
    <3> QED
      BY <1>1, <3>1, <3>2
  <2>4. wallet' \in [Wallets -> [Reserves -> Nat]]
    BY <1>1, <1>3 DEF LendingInv, TypeOK
  <2>5. fee_shares' \in [Reserves -> Nat]
    BY <1>1, <1>3 DEF LendingInv, TypeOK
  <2> QED
    BY <2>1, <2>2, <2>3, <2>4, <2>5, <1>1, <1>2 DEF LendingInv, TypeOK
<1>5. IndexAtLeastOne'
  BY <1>1 DEF LendingInv, TypeOK, ReserveType, IndexAtLeastOne
<1>6. VaultBacksBooks'
  BY <1>1, <1>2 DEF LendingInv, TypeOK, ReserveType, VaultBacksBooks
<1>7. CollateralInCustody'
  <2>1. -seized \in Int /\ TypeOK /\ CollateralInCustody
    BY <1>2 DEF LendingInv
  <2>2. \A p \in Owners, q \in Reserves :
          custody'[p][q] = custody[p][q] + (IF p = o /\ q = c THEN -seized ELSE 0)
    BY <1>1, <1>2, <1>3 DEF LendingInv, TypeOK
  <2>3. \A p \in Owners : obligation'[p].deposits =
           IF p = o THEN [obligation[o].deposits EXCEPT ![c] = @ + (-seized)]
           ELSE obligation[p].deposits
    BY <1>2 DEF LendingInv, TypeOK, ObligationType
  <2> QED
    BY <2>1, <2>2, <2>3, CustodyMovesTogether
<1>8. PrincipalMatches'
  <2>1. /\ reserve'[d].borrowed_principal = reserve[d].borrowed_principal + (-scaled)
        /\ \A q \in Reserves \ {d} :
             reserve'[q].borrowed_principal = reserve[q].borrowed_principal
    BY <1>1, <1>2 DEF LendingInv, TypeOK, ReserveType
  <2>2. \A p \in Owners : obligation'[p].borrows =
           IF p = o THEN [obligation[o].borrows EXCEPT ![d] = @ + (-scaled)]
           ELSE obligation[p].borrows
    BY <1>2
  <2>3. -scaled \in Int /\ TypeOK /\ PrincipalMatches
    BY <1>2 DEF LendingInv
  <2> QED
    BY <2>1, <2>2, <2>3, <1>4, TotalsMoveTogether
<1>9. PaysDebt(o, d)
  BY <1>1, <1>2 DEF PaysDebt, scaled
<1> QED
  BY <1>4, <1>5, <1>6, <1>7, <1>8, <1>9 DEF LendingInv

LEMMA AbsorbBadDebtKeeps ==
  ASSUME LendingInv, NEW o \in Owners, NEW r \in Reserves, AbsorbBadDebt(o, r)
  PROVE  LendingInv'
<1> DEFINE principal == obligation[o].borrows[r]
<1>1. principal \in Nat /\ obligation[o].borrows[r] + (-principal) \in Nat
  BY DEF LendingInv, TypeOK, ObligationType
<1>2. /\ principal <= reserve[r].borrowed_principal
      /\ reserve' = [reserve EXCEPT ![r].borrowed_principal = @ - principal]
      /\ obligation' = WithDebt(o, r, -principal)
      /\ UNCHANGED <<slot, config, global, oracle, position, vault, wallet, custody, fee_shares>>
  BY DEF AbsorbBadDebt
<1> HIDE DEF principal
<1>3. /\ obligation' \in [Owners -> ObligationType]
      /\ \A p \in Owners : obligation'[p].deposits = obligation[p].deposits
      /\ \A p \in Owners : obligation'[p].borrows =
           IF p = o THEN [obligation[o].borrows EXCEPT ![r] = @ + (-principal)]
           ELSE obligation[p].borrows
  <2>1. obligation \in [Owners -> ObligationType] /\ -principal \in Int
    BY <1>1 DEF LendingInv, TypeOK
  <2> QED
    BY <2>1, <1>1, <1>2, DebtMoved
<1>4. TypeOK'
  <2>1. reserve' \in [Reserves -> ReserveType]
    <3>1. reserve[r].borrowed_principal - principal \in Nat
      BY <1>1, <1>2 DEF LendingInv, TypeOK, ReserveType
    <3> QED
      BY <3>1, <1>2 DEF LendingInv, TypeOK, ReserveType
  <2> QED
    BY <2>1, <1>2, <1>3 DEF LendingInv, TypeOK
<1>5. IndexAtLeastOne' /\ VaultBacksBooks'
  BY <1>2 DEF LendingInv, TypeOK, ReserveType, IndexAtLeastOne, VaultBacksBooks
<1>6. CollateralInCustody'
  BY <1>2, <1>3 DEF LendingInv, CollateralInCustody
<1>7. PrincipalMatches'
  <2>1. /\ reserve'[r].borrowed_principal = reserve[r].borrowed_principal + (-principal)
        /\ \A q \in Reserves \ {r} :
             reserve'[q].borrowed_principal = reserve[q].borrowed_principal
    BY <1>1, <1>2 DEF LendingInv, TypeOK, ReserveType
  <2> QED
    BY <2>1, <1>1, <1>3, <1>4, TotalsMoveTogether DEF LendingInv
<1> QED
  BY <1>4, <1>5, <1>6, <1>7 DEF LendingInv

LEMMA CollectFeesKeeps ==
  ASSUME LendingInv, NEW r \in Reserves, CollectFees(r)
  PROVE  LendingInv'
<1> DEFINE payable == AtMost(reserve[r].accrued_fees, reserve[r].available_liquidity)
<1>1. /\ payable \in Nat /\ payable <= reserve[r].accrued_fees
      /\ payable <= reserve[r].available_liquidity
  BY DEF LendingInv, TypeOK, ReserveType, AtMost
<1>2. /\ payable <= vault[r]
      /\ reserve' = [reserve EXCEPT ![r].accrued_fees = @ - payable,
                                    ![r].available_liquidity = @ - payable]
      /\ vault' = [vault EXCEPT ![r] = @ - payable]
      /\ UNCHANGED <<slot, config, global, oracle, obligation, position, wallet, custody, fee_shares>>
  BY DEF CollectFees
<1> HIDE DEF payable
<1>3. TypeOK'
  <2>1. /\ reserve[r].accrued_fees - payable \in Nat
        /\ reserve[r].available_liquidity - payable \in Nat
        /\ vault[r] - payable \in Nat
    BY <1>1, <1>2 DEF LendingInv, TypeOK, ReserveType
  <2>2. reserve' \in [Reserves -> ReserveType]
    BY <2>1, <1>2, RecordsTyped DEF ReserveType
  <2> QED
    BY <2>1, <2>2, <1>2 DEF LendingInv, TypeOK
<1>4. IndexAtLeastOne' /\ PrincipalMatches'
  BY <1>2 DEF LendingInv, TypeOK, ReserveType, IndexAtLeastOne, PrincipalMatches
<1>5. VaultBacksBooks'
  BY <1>1, <1>2 DEF LendingInv, TypeOK, ReserveType, VaultBacksBooks
<1>6. CollateralInCustody'
  BY <1>2 DEF LendingInv, CollateralInCustody
<1> QED
  BY <1>3, <1>4, <1>5, <1>6 DEF LendingInv

LEMMA AccrueKeeps ==
  ASSUME LendingInv, NEW r \in Reserves, Accrue(r)
  PROVE  LendingInv'
<1> DEFINE rsv == accrue_interest(reserve[r], config[r], slot)
<1>1. /\ reserve[r] \in ReserveType
      /\ rsv \in ReserveType
      /\ rsv.borrow_index >= reserve[r].borrow_index
      /\ rsv.available_liquidity = reserve[r].available_liquidity
      /\ rsv.borrowed_principal = reserve[r].borrowed_principal
  <2>1. reserve[r] \in ReserveType /\ slot \in Nat /\ TypeOK
    BY DEF LendingInv, TypeOK
  <2>2. ValidConfig(config[r])
    BY <2>1, ConfigTyped
  <2> QED
    BY <2>1, <2>2, AccrueTyped
<1>2. /\ reserve' = [reserve EXCEPT ![r] = rsv]
      /\ UNCHANGED <<slot, config, global, oracle, obligation, position,
                     vault, wallet, custody, fee_shares>>
  BY DEF Accrue
<1> HIDE DEF rsv
<1>3. TypeOK'
  BY <1>1, <1>2 DEF LendingInv, TypeOK
<1>4. IndexAtLeastOne'
  BY <1>1, <1>2, ScaleAssumption DEF LendingInv, TypeOK, ReserveType, IndexAtLeastOne
<1>5. VaultBacksBooks' /\ PrincipalMatches'
  BY <1>1, <1>2 DEF LendingInv, TypeOK, VaultBacksBooks, PrincipalMatches
<1>6. CollateralInCustody'
  BY <1>2 DEF LendingInv, CollateralInCustody
<1> QED
  BY <1>3, <1>4, <1>5, <1>6 DEF LendingInv

LEMMA RefreshObligationKeeps ==
  ASSUME LendingInv, NEW o \in Owners, RefreshObligation(o)
  PROVE  LendingInv' /\ \A p \in Owners : obligation'[p].borrows = obligation[p].borrows
<1> DEFINE debts == BorrowedValue(o)
           limit == AllowedValue(o)
           line == UnhealthyValue(o)
           stressed == Stressed(o)
<1>1. debts \in Nat /\ limit \in Nat /\ line \in Nat
  BY ValuationTyped DEF LendingInv, RefreshObligation
<1>2. stressed \in BOOLEAN
  BY DEF Stressed
<1>3. /\ obligation' = [obligation EXCEPT ![o].borrowed_value = debts,
                                          ![o].allowed_borrow_value = limit,
                                          ![o].unhealthy_borrow_value = line,
                                          ![o].prices_stressed = stressed,
                                          ![o].last_update_slot = slot,
                                          ![o].stale = FALSE]
      /\ UNCHANGED <<slot, config, global, reserve, oracle, position,
                     vault, wallet, custody, fee_shares>>
  BY DEF RefreshObligation
<1> HIDE DEF debts, limit, line, stressed
<1>4. /\ obligation' \in [Owners -> ObligationType]
      /\ \A p \in Owners : /\ obligation'[p].deposits = obligation[p].deposits
                           /\ obligation'[p].borrows = obligation[p].borrows
  <2> DEFINE seen == [obligation[o] EXCEPT !.borrowed_value = debts,
                                           !.allowed_borrow_value = limit,
                                           !.unhealthy_borrow_value = line,
                                           !.prices_stressed = stressed,
                                           !.last_update_slot = slot,
                                           !.stale = FALSE]
  <2>1. /\ seen \in ObligationType
        /\ seen.deposits = obligation[o].deposits
        /\ seen.borrows = obligation[o].borrows
    <3>1. slot \in Nat
      BY DEF LendingInv, TypeOK
    <3> QED
      BY <3>1, <1>1, <1>2, RecordsTyped DEF ObligationType
  <2>2. obligation' = [obligation EXCEPT ![o] = seen]
    BY <1>3, RecordsTyped DEF ObligationType
  <2> HIDE DEF seen
  <2> QED
    BY <2>1, <2>2 DEF LendingInv, TypeOK
<1>5. TypeOK'
  BY <1>3, <1>4 DEF LendingInv, TypeOK
<1>6. IndexAtLeastOne' /\ VaultBacksBooks'
  BY <1>3 DEF LendingInv, IndexAtLeastOne, VaultBacksBooks
<1>7. CollateralInCustody'
  BY <1>3, <1>4 DEF LendingInv, CollateralInCustody
<1>8. PrincipalMatches'
  BY <1>3, <1>4 DEF LendingInv, PrincipalMatches
<1> QED
  BY <1>4, <1>5, <1>6, <1>7, <1>8 DEF LendingInv

\* What the token programs let a holder do with share tokens of r: they move between
\* wallets, out of the fees, into an obligation's vault or into the fees, or are burned.
TokenStep(r, n) ==
  \/ \E w \in Wallets : BurnShares(w, r, n)
  \/ \E from, to \in Wallets : SendShares(from, to, r, n)
  \/ \E w \in Wallets, o \in Owners : SendSharesToVault(w, o, r, n)
  \/ \E w \in Wallets : SendSharesToFees(w, r, n)
  \/ \E w \in Wallets : SendFeeShares(w, r, n)

\* They touch none of the program's accounts, and no liquidity.
LEMMA TokenStepStays ==
  ASSUME NEW r, NEW n, TokenStep(r, n)
  PROVE  UNCHANGED <<slot, config, global, reserve, oracle, obligation, position, vault>>
BY DEF TokenStep, BurnShares, SendShares, SendSharesToVault, SendSharesToFees, SendFeeShares

\* They take nothing out of custody.
LEMMA TokenStepTyped ==
  ASSUME TypeOK, NEW r \in Reserves, NEW n \in Nat, TokenStep(r, n)
  PROVE  /\ UNCHANGED <<slot, config, global, reserve, oracle, obligation, position, vault>>
         /\ wallet' \in [Wallets -> [Reserves -> Nat]]
         /\ custody' \in [Owners -> [Reserves -> Nat]]
         /\ fee_shares' \in [Reserves -> Nat]
         /\ \A o \in Owners, q \in Reserves : custody'[o][q] >= custody[o][q]
<1>1. /\ wallet \in [Wallets -> [Reserves -> Nat]]
      /\ custody \in [Owners -> [Reserves -> Nat]]
      /\ fee_shares \in [Reserves -> Nat]
  BY DEF TypeOK
<1> DEFINE Kept == /\ UNCHANGED <<slot, config, global, reserve, oracle, obligation, position, vault>>
                   /\ wallet' \in [Wallets -> [Reserves -> Nat]]
                   /\ custody' \in [Owners -> [Reserves -> Nat]]
                   /\ fee_shares' \in [Reserves -> Nat]
                   /\ \A o \in Owners, q \in Reserves : custody'[o][q] >= custody[o][q]
<1>2. ASSUME NEW w \in Wallets, BurnShares(w, r, n) PROVE Kept
  BY <1>1, <1>2 DEF BurnShares
<1>3. ASSUME NEW from \in Wallets, NEW to \in Wallets, SendShares(from, to, r, n) PROVE Kept
  <2> DEFINE left == [wallet EXCEPT ![from][r] = @ - n]
             got == wallet[to][r] + n
  <2>1. wallet[from][r] - n \in Nat /\ got \in Nat
    BY <1>1, <1>3 DEF SendShares
  <2>2. left \in [Wallets -> [Reserves -> Nat]]
    BY <1>1, <2>1
  <2>3. wallet' = [left EXCEPT ![to][r] = got]
    BY <1>1, <1>3 DEF SendShares
  <2> HIDE DEF left, got
  <2>4. wallet' \in [Wallets -> [Reserves -> Nat]]
    BY <2>1, <2>2, <2>3
  <2>5. UNCHANGED <<slot, config, global, reserve, oracle, obligation, position,
                    vault, custody, fee_shares>>
    BY <1>3 DEF SendShares
  <2> QED
    BY <1>1, <2>4, <2>5
<1>4. ASSUME NEW w \in Wallets, NEW o \in Owners, SendSharesToVault(w, o, r, n) PROVE Kept
  BY <1>1, <1>4 DEF SendSharesToVault
<1>5. ASSUME NEW w \in Wallets, SendSharesToFees(w, r, n) PROVE Kept
  BY <1>1, <1>5 DEF SendSharesToFees
<1>6. ASSUME NEW w \in Wallets, SendFeeShares(w, r, n) PROVE Kept
  BY <1>1, <1>6 DEF SendFeeShares
<1> QED
  BY <1>2, <1>3, <1>4, <1>5, <1>6 DEF TokenStep

\* The steps that touch no book: the clock, the oracles, the switches, and what
\* the token programs allow.
LEMMA OutsideStepsKeep ==
  ASSUME LendingInv,
         \/ Tick
         \/ \E r \in Reserves : RefreshOracle(r)
         \/ \E r \in Reserves : SetConfig(r)
         \/ PauseBorrow \/ PauseAll \/ Unpause
         \/ \E r \in Reserves, n \in OutsideAmounts : Donate(r, n)
         \/ \E r \in Reserves : \E n \in OutsideShares[r] : TokenStep(r, n)
         \/ UNCHANGED vars
  PROVE  LendingInv' /\ reserve' = reserve /\ obligation' = obligation
<1>1. CASE Tick
  BY <1>1 DEF LendingInv, TypeOK, IndexAtLeastOne, VaultBacksBooks, CollateralInCustody,
              PrincipalMatches, Tick
<1>2. ASSUME NEW r \in Reserves, RefreshOracle(r)
      PROVE  LendingInv' /\ reserve' = reserve /\ obligation' = obligation
  <2>1. PICK report \in OracleReports[r] :
          oracle' = [oracle EXCEPT ![r] = [rate |-> report.rate,
                                           health |-> report.health,
                                           last_refresh_slot |-> slot]]
    BY <1>2 DEF RefreshOracle
  <2>2. report.rate \in Nat /\ report.health \in OracleHealth
    BY LendingAssumption
  <2>3. oracle' \in [Reserves -> OracleType]
    BY <2>1, <2>2 DEF LendingInv, TypeOK, OracleType
  <2> QED
    BY <1>2, <2>3 DEF LendingInv, TypeOK, IndexAtLeastOne, VaultBacksBooks,
                      CollateralInCustody, PrincipalMatches, RefreshOracle
<1>3. CASE PauseBorrow \/ PauseAll \/ Unpause
  <2>1. /\ global' \in [paused : BOOLEAN, borrow_paused : BOOLEAN]
        /\ UNCHANGED <<slot, config, reserve, oracle, obligation, position,
                       vault, wallet, custody, fee_shares>>
    <3>1. global.paused \in BOOLEAN
      BY Zenon DEF LendingInv, TypeOK
    <3>2. ASSUME NEW a \in BOOLEAN, NEW b \in BOOLEAN, SetPauses(a, b)
          PROVE  /\ global' \in [paused : BOOLEAN, borrow_paused : BOOLEAN]
                 /\ UNCHANGED <<slot, config, reserve, oracle, obligation, position,
                                vault, wallet, custody, fee_shares>>
      BY <3>2, Zenon DEF SetPauses
    <3> QED
      BY <1>3, <3>1, <3>2, Zenon DEF PauseBorrow, PauseAll, Unpause
  <2> QED
    BY <2>1 DEF LendingInv, TypeOK, IndexAtLeastOne, VaultBacksBooks,
                CollateralInCustody, PrincipalMatches
<1>4. ASSUME NEW r \in Reserves, NEW n \in OutsideAmounts, Donate(r, n)
      PROVE  LendingInv' /\ reserve' = reserve /\ obligation' = obligation
  <2>1. n \in Nat
    BY LendingAssumption
  <2> QED
    BY <1>4, <2>1 DEF LendingInv, TypeOK, ReserveType, IndexAtLeastOne, VaultBacksBooks,
                      CollateralInCustody, PrincipalMatches, Donate
<1>5. ASSUME NEW r \in Reserves, NEW n \in OutsideShares[r], TokenStep(r, n)
      PROVE  LendingInv' /\ reserve' = reserve /\ obligation' = obligation
  <2>1. n \in Nat
    BY LendingAssumption
  <2>2. /\ UNCHANGED <<slot, config, global, reserve, oracle, obligation, position, vault>>
        /\ wallet' \in [Wallets -> [Reserves -> Nat]]
        /\ custody' \in [Owners -> [Reserves -> Nat]]
        /\ fee_shares' \in [Reserves -> Nat]
        /\ \A o \in Owners, q \in Reserves : custody'[o][q] >= custody[o][q]
    BY <1>5, <2>1, TokenStepTyped DEF LendingInv
  <2>3. CollateralInCustody'
    BY <2>2 DEF LendingInv, TypeOK, ObligationType, CollateralInCustody
  <2> QED
    BY <2>2, <2>3 DEF LendingInv, TypeOK, IndexAtLeastOne, VaultBacksBooks, PrincipalMatches
<1>6. CASE UNCHANGED vars
  BY <1>6 DEF LendingInv, TypeOK, IndexAtLeastOne, VaultBacksBooks, CollateralInCustody,
              PrincipalMatches, vars
<1>7. ASSUME NEW r \in Reserves, SetConfig(r)
      PROVE  LendingInv' /\ reserve' = reserve /\ obligation' = obligation
  <2>1. PICK cfg \in ConfigChanges[r] : config' = [config EXCEPT ![r] = cfg]
    BY <1>7 DEF SetConfig
  <2>2. cfg \in Configs
    BY DEF Configs
  <2>3. config' \in [Reserves -> Configs]
    BY <2>1, <2>2 DEF LendingInv, TypeOK
  <2> QED
    BY <1>7, <2>3 DEF LendingInv, TypeOK, IndexAtLeastOne, VaultBacksBooks,
                      CollateralInCustody, PrincipalMatches, SetConfig
<1> QED
  BY <1>1, <1>2, <1>3, <1>4, <1>5, <1>6, <1>7

-------------------------------------------------------------------------------
\* The invariant of the market.

LEMMA LendingInvInit == Init => LendingInv
<1> SUFFICES ASSUME Init PROVE LendingInv
  OBVIOUS
<1>1. FIXED_POINT_SCALE \in Nat
  BY ScaleAssumption
<1>2. TypeOK
  BY <1>1 DEF Init, TypeOK, Configs, ReserveType, EmptyReserve, OracleType, OracleHealth,
              ObligationType, NewObligation
<1>3. IndexAtLeastOne
  BY <1>1 DEF Init, IndexAtLeastOne, EmptyReserve
<1>4. VaultBacksBooks
  BY DEF Init, VaultBacksBooks, EmptyReserve
<1>5. CollateralInCustody
  BY DEF Init, CollateralInCustody, NewObligation
<1>6. PrincipalMatches
  <2> SUFFICES ASSUME NEW r \in Reserves
               PROVE  reserve[r].borrowed_principal
                        = SumTo([o \in Owners |-> obligation[o].borrows[r]], NumOwners)
    BY DEF PrincipalMatches
  <2> DEFINE f == [o \in Owners |-> obligation[o].borrows[r]]
  <2>1. NumOwners \in Nat /\ Owners = 1..NumOwners
    BY LendingAssumption DEF Owners
  <2>2. \A o \in Owners : f[o] = 0
    BY DEF Init, NewObligation
  <2>3. f \in [Owners -> Int]
    BY <2>2
  <2> HIDE DEF f
  <2>4. SumTo(f, NumOwners) = 0
    BY <2>1, <2>2, <2>3, SumOfZeros
  <2> QED
    BY <2>4 DEF Init, EmptyReserve, f
<1> QED
  BY <1>2, <1>3, <1>4, <1>5, <1>6 DEF LendingInv

LEMMA LendingInvStep == LendingInv /\ [Next]_vars => LendingInv'
<1> SUFFICES ASSUME LendingInv, [Next]_vars PROVE LendingInv'
  OBVIOUS
<1>1. /\ Suppliers \subseteq Wallets /\ Liquidators \subseteq Wallets
      /\ \A n \in Amounts : n \in Nat
  BY LendingAssumption
<1>2. ASSUME NEW w \in Suppliers, NEW r \in Reserves, NEW n \in Amounts,
             Supply(w, r, n) \/ Withdraw(w, r, n)
      PROVE  LendingInv'
  BY <1>1, <1>2, SupplyKeeps, WithdrawKeeps
<1>3. ASSUME NEW o \in Owners, NEW r \in Reserves, NEW n \in Amounts,
             DepositCollateral(o, r, n) \/ WithdrawCollateral(o, r, n)
      PROVE  LendingInv'
  BY <1>1, <1>3, DepositCollateralKeeps, WithdrawCollateralKeeps
<1>4. ASSUME NEW o \in Owners, NEW r \in Reserves, NEW n \in Amounts,
             Borrow(o, r, n) \/ Repay(o, r, n)
      PROVE  LendingInv'
  BY <1>1, <1>4, BorrowKeeps, RepayKeeps
<1>5. ASSUME NEW w \in Liquidators, NEW o \in Owners, NEW d \in Reserves,
             NEW c \in Reserves, NEW n \in Amounts, Liquidate(w, o, d, c, n)
      PROVE  LendingInv'
  BY <1>1, <1>5, LiquidateKeeps
<1>6. ASSUME NEW o \in Owners, NEW r \in Reserves, AbsorbBadDebt(o, r)
      PROVE  LendingInv'
  BY <1>6, AbsorbBadDebtKeeps
<1>7. ASSUME NEW r \in Reserves, Accrue(r) \/ CollectFees(r) PROVE LendingInv'
  BY <1>7, AccrueKeeps, CollectFeesKeeps
<1>8. ASSUME NEW o \in Owners, RefreshObligation(o) PROVE LendingInv'
  BY <1>8, RefreshObligationKeeps
<1> QED
  BY <1>2, <1>3, <1>4, <1>5, <1>6, <1>7, <1>8, OutsideStepsKeep DEF Next, TokenStep

\* Every reachable state satisfies the inductive invariant.
THEOREM LendingInvariant == Spec => []LendingInv
<1>1. Init => LendingInv
  BY LendingInvInit
<1>2. LendingInv /\ [Next]_vars => LendingInv'
  BY LendingInvStep
<1> QED
  BY <1>1, <1>2, PTL DEF Spec

\* The state stays typed: in particular no balance, debt, fee or share count of
\* the program ever goes below zero.
THEOREM LendingTyped == Spec => []TypeOK
<1>1. LendingInv => TypeOK
  BY DEF LendingInv
<1> QED
  BY <1>1, LendingInvariant, PTL

\* Borrow, repay, liquidate and absorb_bad_debt keep the reserves' scaled debt
\* equal to the obligations' in every interleaving.
THEOREM PrincipalAlwaysMatches == Spec => []PrincipalMatches
<1>1. LendingInv => PrincipalMatches
  BY DEF LendingInv
<1> QED
  BY <1>1, LendingInvariant, PTL

\* Every vault always holds what its reserve says is available.
THEOREM VaultsBackBooks == Spec => []VaultBacksBooks
<1>1. LendingInv => VaultBacksBooks
  BY DEF LendingInv
<1> QED
  BY <1>1, LendingInvariant, PTL

\* An obligation's vault always holds at least the collateral it records,
\* whatever share tokens anyone sends around.
THEOREM CollateralAlwaysInCustody == Spec => []CollateralInCustody
<1>1. LendingInv => CollateralInCustody
  BY DEF LendingInv
<1> QED
  BY <1>1, LendingInvariant, PTL

\* The sum of the debts, each rounded up, is at least the pool's, rounded up once.
LEMMA DebtOfSum ==
  ASSUME NEW n \in Nat, NEW f \in [1..n -> Nat], NEW index \in Nat
  PROVE  debt_at(SumTo(f, n), index) <= SumTo([i \in 1..n |-> debt_at(f[i], index)], n)
<1> DEFINE S == FIXED_POINT_SCALE
           g == [i \in 1..n |-> debt_at(f[i], index)]
<1>1. S \in Nat \ {0}
  BY ScaleAssumption
<1>2. \A i \in 1..n : g[i] \in Nat /\ index * f[i] <= S * g[i]
  <2>1. SUFFICES ASSUME NEW i \in 1..n PROVE g[i] \in Nat /\ index * f[i] <= S * g[i]
    OBVIOUS
  <2>2. f[i] \in Nat /\ g[i] = mul_div_ceil(f[i], index, S)
    BY DEF debt_at
  <2>3. g[i] \in Nat /\ f[i] * index <= g[i] * S
    BY <1>1, <2>2, CeilNat
  <2>4. f[i] * index = index * f[i] /\ g[i] * S = S * g[i]
    BY <1>1, <2>2, <2>3
  <2> QED
    BY <2>3, <2>4
<1>3. g \in [1..n -> Nat]
  BY <1>2
<1> HIDE DEF g, S
<1>4. index * SumTo(f, n) <= S * SumTo(g, n)
  <2>1. f \in [1..n -> Int] /\ g \in [1..n -> Int]
    BY <1>3
  <2> QED
    BY <1>1, <1>2, <2>1, SumsCompared
<1>5. SumTo(f, n) \in Nat /\ SumTo(g, n) \in Nat
  BY <1>3, SumOfNaturals
<1>6. SumTo(f, n) * index <= SumTo(g, n) * S
  BY <1>1, <1>4, <1>5
<1>7. mul_div_ceil(SumTo(f, n), index, S) <= SumTo(g, n)
  BY <1>1, <1>5, <1>6, CeilAtMost
<1> QED
  BY <1>7 DEF debt_at, g, S

\* What the pool counts as lent out, its borrowers owe.
THEOREM PoolDebtIsAlwaysOwed == Spec => []PoolDebtIsOwed
<1>1. LendingInv => PoolDebtIsOwed
  <2>1. SUFFICES ASSUME LendingInv, NEW r \in Reserves
                 PROVE  current_borrowed_amount(reserve[r])
                          <= SumTo([o \in Owners |-> Debt(o, r)], NumOwners)
    BY DEF PoolDebtIsOwed
  <2> DEFINE f == [o \in Owners |-> obligation[o].borrows[r]]
             index == reserve[r].borrow_index
  <2>2. NumOwners \in Nat /\ Owners = 1..NumOwners
    BY LendingAssumption DEF Owners
  <2>3. f \in [1..NumOwners -> Nat] /\ index \in Nat
    BY <2>1, <2>2 DEF LendingInv, TypeOK, ReserveType, ObligationType
  <2>4. reserve[r].borrowed_principal = SumTo(f, NumOwners)
    BY <2>1 DEF LendingInv, PrincipalMatches
  <2>5. [o \in Owners |-> Debt(o, r)] = [o \in 1..NumOwners |-> debt_at(f[o], index)]
    BY <2>2 DEF Debt
  <2>6. current_borrowed_amount(reserve[r]) = debt_at(SumTo(f, NumOwners), index)
    BY <2>4 DEF current_borrowed_amount
  <2> HIDE DEF f, index
  <2> QED
    BY <2>2, <2>3, <2>5, <2>6, DebtOfSum
<1> QED
  BY <1>1, LendingInvariant, PTL

-------------------------------------------------------------------------------
\* What no step does.

LEMMA OnlyAccrueMovesIndex ==
  ASSUME LendingInv, [Next]_vars, NEW r \in Reserves, \A q \in Reserves : ~ Accrue(q)
  PROVE  reserve'[r].borrow_index = reserve[r].borrow_index
<1>1. reserve \in [Reserves -> ReserveType]
  BY DEF LendingInv, TypeOK
<1>2. ASSUME NEW w, NEW q \in Reserves, NEW n, Supply(w, q, n) \/ Withdraw(w, q, n)
      PROVE  reserve'[r].borrow_index = reserve[r].borrow_index
  BY <1>1, <1>2 DEF Supply, Withdraw, ReserveType
<1>3. ASSUME NEW o, NEW q \in Reserves, NEW n,
             DepositCollateral(o, q, n) \/ WithdrawCollateral(o, q, n)
      PROVE  reserve'[r].borrow_index = reserve[r].borrow_index
  BY <1>3 DEF DepositCollateral, WithdrawCollateral
<1>4. ASSUME NEW o, NEW q \in Reserves, NEW n, Borrow(o, q, n) \/ Repay(o, q, n)
      PROVE  reserve'[r].borrow_index = reserve[r].borrow_index
  BY <1>1, <1>4 DEF Borrow, Repay, ReserveType
<1>5. ASSUME NEW w, NEW o, NEW d \in Reserves, NEW c, NEW n, Liquidate(w, o, d, c, n)
      PROVE  reserve'[r].borrow_index = reserve[r].borrow_index
  BY <1>1, <1>5 DEF Liquidate, ReserveType
<1>6. ASSUME NEW o, NEW q \in Reserves, AbsorbBadDebt(o, q)
      PROVE  reserve'[r].borrow_index = reserve[r].borrow_index
  BY <1>1, <1>6 DEF AbsorbBadDebt, ReserveType
<1>7. ASSUME NEW q \in Reserves, CollectFees(q)
      PROVE  reserve'[r].borrow_index = reserve[r].borrow_index
  BY <1>1, <1>7 DEF CollectFees, ReserveType
<1>8. ASSUME NEW o, RefreshObligation(o)
      PROVE  reserve'[r].borrow_index = reserve[r].borrow_index
  BY <1>8 DEF RefreshObligation
<1> QED
  BY <1>2, <1>3, <1>4, <1>5, <1>6, <1>7, <1>8, OutsideStepsKeep DEF Next, TokenStep

LEMMA IndexStep ==
  ASSUME LendingInv, [Next]_vars, NEW r \in Reserves
  PROVE  reserve'[r].borrow_index >= reserve[r].borrow_index
<1>1. reserve \in [Reserves -> ReserveType] /\ reserve[r].borrow_index \in Nat
  BY DEF LendingInv, TypeOK, ReserveType
<1>2. CASE \A q \in Reserves : ~ Accrue(q)
  BY <1>1, <1>2, OnlyAccrueMovesIndex
<1>3. ASSUME NEW q \in Reserves, Accrue(q)
      PROVE  reserve'[r].borrow_index >= reserve[r].borrow_index
  <2> DEFINE rsv == accrue_interest(reserve[q], config[q], slot)
  <2>1. rsv.borrow_index >= reserve[q].borrow_index
    BY <1>1, ConfigTyped, AccrueTyped DEF LendingInv, TypeOK
  <2>2. reserve' = [reserve EXCEPT ![q] = rsv]
    BY <1>3 DEF Accrue
  <2> HIDE DEF rsv
  <2> QED
    BY <1>1, <2>1, <2>2
<1> QED
  BY <1>2, <1>3

\* No instruction ever lowers a borrow index.
THEOREM IndexNeverFallsHolds == Spec => IndexNeverFalls
<1>1. LendingInv /\ [Next]_vars
        => [\A r \in Reserves : reserve'[r].borrow_index >= reserve[r].borrow_index]_vars
  BY IndexStep
<1> QED
  BY <1>1, LendingInvariant, PTL DEF Spec, IndexNeverFalls

\* A payment that retires the whole principal is at least the whole debt.
LEMMA RetiredMeansPaid ==
  ASSUME LendingInv, NEW o \in Owners, NEW r \in Reserves, NEW paid \in Nat,
         obligation[o].borrows[r] > 0,
         obligation[o].borrows[r] + (-ScaledPayment(o, r, paid)) = 0
  PROVE  paid >= Debt(o, r)
<1> DEFINE principal == obligation[o].borrows[r]
           index == reserve[r].borrow_index
<1>1. principal \in Nat /\ index \in Nat \ {0}
  BY ScaleAssumption DEF LendingInv, TypeOK, ReserveType, ObligationType, IndexAtLeastOne
<1>2. Debt(o, r) \in Nat
  BY <1>1, DebtNat DEF Debt
<1>3. SUFFICES ASSUME paid < Debt(o, r) PROVE FALSE
  BY <1>2
<1>4. mul_div_floor(paid, FIXED_POINT_SCALE, index) < principal
  BY <1>1, <1>3, PartialPaymentLeavesPrincipal DEF Debt
<1>5. mul_div_floor(paid, FIXED_POINT_SCALE, index) \in Nat
  BY <1>1, ScaleAssumption, FloorNat
<1>6. ScaledPayment(o, r, paid) < principal
  BY <1>1, <1>4, <1>5 DEF ScaledPayment, AtMost
<1>7. ScaledPayment(o, r, paid) \in Nat
  BY PaymentTyped
<1> QED
  BY <1>1, <1>6, <1>7

LEMMA DebtStep ==
  ASSUME LendingInv, [Next]_vars, NEW o \in Owners, NEW r \in Reserves,
         obligation[o].borrows[r] > 0, obligation'[o].borrows[r] = 0
  PROVE  vault'[r] - vault[r] >= Debt(o, r) \/ Entries(obligation[o].deposits) = {}
<1>1. /\ obligation \in [Owners -> ObligationType]
      /\ \A p \in Owners : obligation[p].borrows \in [Reserves -> Nat]
      /\ vault \in [Reserves -> Nat]
  BY DEF LendingInv, TypeOK, ObligationType
<1>2. /\ Suppliers \subseteq Wallets /\ Liquidators \subseteq Wallets
      /\ \A n \in Amounts : n \in Nat
  BY LendingAssumption
<1>3. ASSUME NEW p \in Owners, NEW q \in Reserves, PaysDebt(p, q)
      PROVE  vault'[r] - vault[r] >= Debt(o, r)
  <2>1. PICK paid \in Nat :
          /\ vault' = [vault EXCEPT ![q] = @ + paid]
          /\ \A b \in Owners : obligation'[b].borrows =
               IF b = p
               THEN [obligation[p].borrows EXCEPT ![q] = @ + (-ScaledPayment(p, q, paid))]
               ELSE obligation[b].borrows
    BY <1>3 DEF PaysDebt
  <2>2. p = o /\ q = r
    BY <1>1, <2>1
  <2>3. obligation[o].borrows[r] + (-ScaledPayment(o, r, paid)) = 0
    BY <1>1, <2>1, <2>2
  <2>4. paid >= Debt(o, r)
    BY <2>3, RetiredMeansPaid
  <2>5. vault'[r] - vault[r] = paid
    BY <1>1, <2>1, <2>2
  <2> QED
    BY <2>4, <2>5
<1>4. ASSUME NEW p \in Owners, NEW q \in Reserves, NEW n \in Amounts, Borrow(p, q, n)
      PROVE  FALSE
  <2> DEFINE scaled == ScaledDebt(q, n)
  <2>1. scaled \in Nat
    <3>1. reserve[q].borrow_index \in Nat \ {0}
      BY ScaleAssumption DEF LendingInv, TypeOK, ReserveType, IndexAtLeastOne
    <3> QED
      BY <1>2, <3>1, ScaleAssumption, CeilNat DEF ScaledDebt
  <2>2. obligation' = WithDebt(p, q, scaled)
    BY <1>4 DEF Borrow
  <2> HIDE DEF scaled
  <2>3. obligation[p].borrows[q] + scaled \in Nat
    BY <1>1, <2>1
  <2>4. \A b \in Owners : obligation'[b].borrows =
          IF b = p THEN [obligation[p].borrows EXCEPT ![q] = @ + scaled]
          ELSE obligation[b].borrows
    BY <1>1, <2>1, <2>2, <2>3, DebtMoved
  <2>5. obligation'[o].borrows[r] >= obligation[o].borrows[r]
    BY <1>1, <2>1, <2>4
  <2> QED
    BY <1>1, <2>5
<1>5. ASSUME NEW p \in Owners, NEW q \in Reserves, AbsorbBadDebt(p, q)
      PROVE  Entries(obligation[o].deposits) = {}
  <2>1. /\ Entries(obligation[p].deposits) = {}
        /\ obligation' = WithDebt(p, q, -obligation[p].borrows[q])
    BY <1>5 DEF AbsorbBadDebt
  <2>2. p = o
    BY <1>1, <2>1 DEF WithDebt, ObligationType
  <2> QED
    BY <2>1, <2>2
<1>6. ASSUME NEW p \in Owners, NEW q \in Reserves, NEW n \in Amounts,
             DepositCollateral(p, q, n) \/ WithdrawCollateral(p, q, n)
      PROVE  FALSE
  BY <1>1, <1>2, <1>6, DepositCollateralKeeps, WithdrawCollateralKeeps
<1>7. ASSUME NEW p \in Owners, RefreshObligation(p) PROVE FALSE
  BY <1>1, <1>7, RefreshObligationKeeps
<1>8. ASSUME NEW w, NEW q \in Reserves, NEW n,
             Supply(w, q, n) \/ Withdraw(w, q, n) \/ Accrue(q) \/ CollectFees(q)
      PROVE  FALSE
  BY <1>1, <1>8 DEF Supply, Withdraw, Accrue, CollectFees
<1>9. ASSUME NEW p \in Owners, NEW q \in Reserves, NEW n \in Amounts, Repay(p, q, n)
      PROVE  vault'[r] - vault[r] >= Debt(o, r)
  BY <1>2, <1>3, <1>9, RepayKeeps
<1>10. ASSUME NEW w \in Liquidators, NEW p \in Owners, NEW d \in Reserves,
              NEW c \in Reserves, NEW n \in Amounts, Liquidate(w, p, d, c, n)
       PROVE  vault'[r] - vault[r] >= Debt(o, r)
  BY <1>2, <1>3, <1>10, LiquidateKeeps
<1> QED
  BY <1>4, <1>5, <1>6, <1>7, <1>8, <1>9, <1>10, OutsideStepsKeep DEF Next, TokenStep

\* No rounding ever forgives a debt: it ends by full payment or by a write-off
\* with no collateral left.
THEOREM DebtsArePaidHolds == Spec => DebtsArePaid
<1>1. LendingInv /\ [Next]_vars =>
        [\A o \in Owners, r \in Reserves :
           obligation[o].borrows[r] > 0 /\ obligation'[o].borrows[r] = 0 =>
             \/ vault'[r] - vault[r] >= Debt(o, r)
             \/ Entries(obligation[o].deposits) = {}]_vars
  BY DebtStep
<1> QED
  BY <1>1, LendingInvariant, PTL DEF Spec, DebtsArePaid

\* Whoever pays the whole debt is rid of it: at every index, what the debt rounds
\* up to retires the whole principal after it has been rounded down.
LEMMA FullPaymentStep ==
  ASSUME LendingInv, NEW o \in Owners, NEW r \in Reserves, NEW n \in Nat,
         Repay(o, r, n), n >= Debt(o, r)
  PROVE  obligation'[o].borrows[r] = 0
<1> DEFINE principal == obligation[o].borrows[r]
           index == reserve[r].borrow_index
           retired == mul_div_floor(Debt(o, r), FIXED_POINT_SCALE, index)
<1>1. principal \in Nat /\ index \in Nat \ {0}
  BY ScaleAssumption DEF LendingInv, TypeOK, ReserveType, ObligationType, IndexAtLeastOne
<1>2. Debt(o, r) \in Nat
  BY <1>1, ScaleAssumption, DebtNat DEF Debt
<1>3. AtMost(n, Debt(o, r)) = Debt(o, r)
  BY <1>2 DEF AtMost
<1>4. retired \in Nat /\ principal <= retired
  <2>1. Debt(o, r) = debt_at(principal, index)
    BY DEF Debt
  <2> HIDE DEF principal, index
  <2>2. retired \in Nat
    BY <1>1, <1>2, ScaleAssumption, FloorNat
  <2>3. debt_at(principal, index) <= Debt(o, r)
    BY <1>2, <2>1
  <2>4. principal <= retired
    BY <1>1, <1>2, <2>3, FullPaymentRetiresPrincipal
  <2> QED
    BY <2>2, <2>4
<1>5. ScaledPayment(o, r, Debt(o, r)) = principal
  <2> HIDE DEF principal, retired
  <2>1. AtMost(retired, principal) = principal
    BY <1>1, <1>4 DEF AtMost
  <2> QED
    BY <2>1 DEF ScaledPayment, principal, retired
<1>6. obligation' = WithDebt(o, r, -principal)
  BY <1>3, <1>5 DEF Repay, RepayAccepted
<1>7. obligation \in [Owners -> ObligationType] /\ principal + (-principal) \in Nat
  BY <1>1 DEF LendingInv, TypeOK
<1>8. obligation'[o].borrows = [obligation[o].borrows EXCEPT ![r] = @ + (-principal)]
  BY <1>1, <1>6, <1>7, DebtMoved
<1> QED
  BY <1>1, <1>7, <1>8 DEF ObligationType

\* A repayment of at least the debt leaves none of it, whatever the index: no last
\* unit of principal survives the rounding.
THEOREM FullPaymentClearsHolds == Spec => FullPaymentClears
<1>1. LendingInv /\ [Next]_vars =>
        [\A o \in Owners, r \in Reserves, n \in Amounts :
           Repay(o, r, n) /\ n >= Debt(o, r) => obligation'[o].borrows[r] = 0]_vars
  BY FullPaymentStep, LendingAssumption
<1> QED
  BY <1>1, LendingInvariant, PTL DEF Spec, FullPaymentClears
===============================================================================
