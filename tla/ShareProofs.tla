----------------------------- MODULE ShareProofs ------------------------------
(***************************************************************************)
(* What holds of the share tokens of a reserve, wherever they are: the     *)
(* reserve's mirror of their supply covers them, for every number of       *)
(* wallets and obligations; their rate falls by a write-off only; so the   *)
(* cached values of an obligation stay good, and a seizure stays paid for. *)
(* An instruction that moves share tokens changes one entry of a column of *)
(* balances (a wallet's, an obligation's vault's, the fee destination's);  *)
(* the total of a column moves by as much.                                 *)
(***************************************************************************)
EXTENDS LendingProofs

InWallets(q) == SumTo([w \in Wallets |-> wallet[w][q]], NumWallets)
InCustody(q) == SumTo([o \in Owners |-> custody[o][q]], NumOwners)

\* Of a table of balances, one entry moves, by change.
OneMoves(before, after, Holders, holder, r, change) ==
  \A h \in Holders, q \in Reserves :
    after[h][q] = before[h][q] + (IF h = holder /\ q = r THEN change ELSE 0)

\* One wallet's balance of one reserve moved: the total of that reserve moves with
\* it, the others stay.
LEMMA WalletsMove ==
  ASSUME TypeOK, NEW w \in Wallets, NEW r \in Reserves, NEW change \in Int,
         OneMoves(wallet, wallet', Wallets, w, r, change), NEW q \in Reserves
  PROVE  InWallets(q)' = InWallets(q) + (IF q = r THEN change ELSE 0)
<1> DEFINE f == [v \in Wallets |-> wallet[v][q]]
           g == [v \in Wallets |-> wallet'[v][q]]
<1>1. NumWallets \in Nat /\ Wallets = 1..NumWallets
  BY LendingAssumption DEF Wallets
<1>2. wallet \in [Wallets -> [Reserves -> Nat]]
  BY DEF TypeOK
<1>3. f \in [Wallets -> Int] /\ f[w] \in Int /\ f[w] + change \in Int
  BY <1>2
<1>4. ASSUME q = r PROVE g = [f EXCEPT ![w] = f[w] + change]
  <2>1. ASSUME NEW h \in Wallets
        PROVE  wallet'[h][q] = IF h = w THEN wallet[w][q] + change ELSE wallet[h][q]
    BY <1>2, <1>4 DEF OneMoves
  <2> QED
    BY <2>1
<1>5. ASSUME q # r PROVE g = f
  BY <1>2, <1>5 DEF OneMoves
<1>6. InWallets(q) = SumTo(f, NumWallets) /\ InWallets(q)' = SumTo(g, NumWallets)
  BY DEF InWallets
<1> HIDE DEF f, g
<1>7. SumTo(f, NumWallets) \in Int
  BY <1>1, <1>3, PartialSumsAccumulates
<1>8. SumTo([f EXCEPT ![w] = f[w] + change], NumWallets) = SumTo(f, NumWallets) + change
  <2>1. SumTo([f EXCEPT ![w] = f[w] + change], NumWallets)
          = SumTo(f, NumWallets) - f[w] + (f[w] + change)
    BY <1>1, <1>3, SumUpdate
  <2> QED
    BY <1>3, <1>7, <2>1
<1>9. CASE q = r
  BY <1>4, <1>6, <1>8, <1>9
<1>10. CASE q # r
  BY <1>5, <1>6, <1>7, <1>10
<1> QED
  BY <1>9, <1>10

\* Shares sent from one wallet to another leave every total where it is.
LEMMA WalletsExchange ==
  ASSUME TypeOK, NEW from \in Wallets, NEW to \in Wallets, NEW r \in Reserves, NEW n \in Nat,
         SendShares(from, to, r, n), NEW q \in Reserves
  PROVE  InWallets(q)' = InWallets(q)
<1> DEFINE f == [v \in Wallets |-> wallet[v][q]]
           h == [v \in Wallets |-> wallet'[v][q]]
<1>1. NumWallets \in Nat /\ Wallets = 1..NumWallets
  BY LendingAssumption DEF Wallets
<1>2. wallet \in [Wallets -> [Reserves -> Nat]] /\ f \in [Wallets -> Int]
  BY DEF TypeOK
<1>3. InWallets(q) = SumTo(f, NumWallets) /\ InWallets(q)' = SumTo(h, NumWallets)
  BY DEF InWallets
<1>4. CASE q = r
  <2>1. /\ from # to /\ n \in Int
        /\ \A v \in Wallets : wallet'[v][r] = IF v = to THEN wallet[to][r] + n
                                             ELSE IF v = from THEN wallet[from][r] - n
                                             ELSE wallet[v][r]
    BY <1>2 DEF SendShares
  <2> DEFINE left == f[from] - n
             got == f[to] + n
             g == [f EXCEPT ![from] = left]
  <2>2. /\ g \in [Wallets -> Int] /\ g[to] = f[to]
        /\ left \in Int /\ got \in Int /\ f[from] \in Int /\ f[to] \in Int
        /\ left + got = f[from] + f[to]
    <3> HIDE DEF f
    <3> QED
      BY <1>2, <2>1
  <2>3. h = [g EXCEPT ![to] = got]
    BY <1>4, <2>1
  <2> HIDE DEF f, h, left, got
  <2>4. SumTo(g, NumWallets) = SumTo(f, NumWallets) - f[from] + left
    <3>1. f \in [1..NumWallets -> Int] /\ from \in 1..NumWallets
      BY <1>1, <1>2
    <3>2. left \in Int /\ NumWallets \in Nat
      BY <1>1, <2>2
    <3> QED
      BY <3>1, <3>2, SumUpdate
  <2> HIDE DEF g
  <2>5. SumTo([g EXCEPT ![to] = got], NumWallets) = SumTo(g, NumWallets) - g[to] + got
    BY <1>1, <2>2, SumUpdate
  <2>6. SumTo(f, NumWallets) \in Int /\ SumTo(g, NumWallets) \in Int
    BY <1>1, <1>2, <2>2, PartialSumsAccumulates
  <2> DEFINE sum == SumTo(f, NumWallets)
             mid == SumTo(g, NumWallets)
             end == SumTo(h, NumWallets)
             a == f[from]
             b == f[to]
  <2>7. /\ mid = (sum - a) + left /\ end = (mid - b) + got /\ left + got = a + b
        /\ sum \in Int /\ mid \in Int /\ a \in Int /\ b \in Int /\ left \in Int /\ got \in Int
    BY <2>2, <2>3, <2>4, <2>5, <2>6
  <2>8. end = sum
    <3> HIDE DEF sum, mid, end, a, b
    <3> QED
      BY <2>7
  <2> QED
    BY <1>3, <2>8
<1>5. CASE q # r
  <2>1. h = f
    BY <1>2, <1>5 DEF SendShares
  <2> QED
    BY <1>3, <2>1
<1> QED
  BY <1>4, <1>5

\* An obligation's share vault moves, and the vaults' total with it.
LEMMA CustodyMoves ==
  ASSUME TypeOK, NEW o \in Owners, NEW r \in Reserves, NEW change \in Int,
         OneMoves(custody, custody', Owners, o, r, change), NEW q \in Reserves
  PROVE  InCustody(q)' = InCustody(q) + (IF q = r THEN change ELSE 0)
<1> DEFINE f == [p \in Owners |-> custody[p][q]]
           g == [p \in Owners |-> custody'[p][q]]
<1>1. NumOwners \in Nat /\ Owners = 1..NumOwners
  BY LendingAssumption DEF Owners
<1>2. custody \in [Owners -> [Reserves -> Nat]]
  BY DEF TypeOK
<1>3. f \in [Owners -> Int] /\ f[o] \in Int /\ f[o] + change \in Int
  BY <1>2
<1>4. ASSUME q = r PROVE g = [f EXCEPT ![o] = f[o] + change]
  <2>1. ASSUME NEW h \in Owners
        PROVE  custody'[h][q] = IF h = o THEN custody[o][q] + change ELSE custody[h][q]
    BY <1>2, <1>4 DEF OneMoves
  <2> QED
    BY <2>1
<1>5. ASSUME q # r PROVE g = f
  BY <1>2, <1>5 DEF OneMoves
<1>6. InCustody(q) = SumTo(f, NumOwners) /\ InCustody(q)' = SumTo(g, NumOwners)
  BY DEF InCustody
<1> HIDE DEF f, g
<1>7. SumTo(f, NumOwners) \in Int
  BY <1>1, <1>3, PartialSumsAccumulates
<1>8. SumTo([f EXCEPT ![o] = f[o] + change], NumOwners) = SumTo(f, NumOwners) + change
  <2>1. SumTo([f EXCEPT ![o] = f[o] + change], NumOwners)
          = SumTo(f, NumOwners) - f[o] + (f[o] + change)
    BY <1>1, <1>3, SumUpdate
  <2> QED
    BY <1>3, <1>7, <2>1
<1>9. CASE q = r
  BY <1>4, <1>6, <1>8, <1>9
<1>10. CASE q # r
  BY <1>5, <1>6, <1>7, <1>10
<1> QED
  BY <1>9, <1>10

\* The totals are integers.
LEMMA HeldTyped ==
  ASSUME TypeOK, NEW q \in Reserves
  PROVE  /\ InWallets(q) \in Int
         /\ InCustody(q) \in Int
         /\ fee_shares[q] \in Int
         /\ reserve[q].share_mint_supply \in Int
         /\ SharesHeld(q) = InWallets(q) + InCustody(q) + fee_shares[q]
<1>1. /\ NumWallets \in Nat /\ Wallets = 1..NumWallets
      /\ NumOwners \in Nat /\ Owners = 1..NumOwners
  BY LendingAssumption DEF Wallets, Owners
<1>2. /\ [w \in Wallets |-> wallet[w][q]] \in [1..NumWallets -> Int]
      /\ [o \in Owners |-> custody[o][q]] \in [1..NumOwners -> Int]
  BY <1>1 DEF TypeOK
<1>3. InWallets(q) \in Int /\ InCustody(q) \in Int
  BY <1>1, <1>2, PartialSumsAccumulates DEF InWallets, InCustody
<1> QED
  BY <1>3 DEF TypeOK, ReserveType, SharesHeld, InWallets, InCustody

-------------------------------------------------------------------------------
\* The mirror covers the shares.

\* Before a step the mirror covers the three kinds of accounts; after it the
\* tokens are again what the three hold.
LEMMA MirrorAccount ==
  ASSUME LendingInv, MirrorCoversShares, NEW q \in Reserves
  PROVE  /\ InWallets(q) \in Int
         /\ InCustody(q) \in Int
         /\ fee_shares[q] \in Int
         /\ reserve[q].share_mint_supply \in Int
         /\ InWallets(q) + InCustody(q) + fee_shares[q] <= reserve[q].share_mint_supply
         /\ SharesHeld(q)' = InWallets(q)' + InCustody(q)' + fee_shares'[q]
<1>1. /\ InWallets(q) \in Int
      /\ InCustody(q) \in Int
      /\ fee_shares[q] \in Int
      /\ reserve[q].share_mint_supply \in Int
      /\ SharesHeld(q) = InWallets(q) + InCustody(q) + fee_shares[q]
  BY HeldTyped DEF LendingInv
<1>2. SharesHeld(q)' = InWallets(q)' + InCustody(q)' + fee_shares'[q]
  BY DEF SharesHeld, InWallets, InCustody
<1>3. SharesHeld(q) <= reserve[q].share_mint_supply
  BY DEF MirrorCoversShares
<1> QED
  BY <1>1, <1>2, <1>3

\* supply and withdraw: shares are minted and burned with the mirror.
LEMMA SuppliersKeepMirror ==
  ASSUME LendingInv, MirrorCoversShares, NEW q \in Reserves,
         NEW w \in Wallets, NEW r \in Reserves, NEW n \in Nat,
         Supply(w, r, n) \/ Withdraw(w, r, n)
  PROVE  SharesHeld(q)' <= reserve'[q].share_mint_supply
<1>1. PICK change \in Int :
        /\ OneMoves(wallet, wallet', Wallets, w, r, change)
        /\ reserve'[r].share_mint_supply = reserve[r].share_mint_supply + change
        /\ \A p \in Reserves \ {r} :
             reserve'[p].share_mint_supply = reserve[p].share_mint_supply
        /\ UNCHANGED <<custody, fee_shares>>
  <2>1. CASE Supply(w, r, n)
    <3> DEFINE shares == liquidity_to_shares(reserve[r], n)
    <3>1. shares \in Int
      BY SharesTyped DEF LendingInv, TypeOK
    <3> HIDE DEF shares
    <3>2. /\ wallet' = [wallet EXCEPT ![w][r] = @ + shares]
          /\ reserve' = [reserve EXCEPT ![r].available_liquidity = @ + n,
                                        ![r].share_mint_supply = @ + shares]
          /\ UNCHANGED <<custody, fee_shares>>
      BY <2>1 DEF Supply, shares
    <3>3. /\ reserve'[r].share_mint_supply = reserve[r].share_mint_supply + shares
          /\ \A p \in Reserves \ {r} :
               reserve'[p].share_mint_supply = reserve[p].share_mint_supply
      BY <3>2 DEF LendingInv, TypeOK, ReserveType
    <3>4. OneMoves(wallet, wallet', Wallets, w, r, shares)
      BY <3>1, <3>2 DEF LendingInv, TypeOK, OneMoves
    <3> QED
      BY <3>1, <3>2, <3>3, <3>4
  <2>2. CASE Withdraw(w, r, n)
    <3> DEFINE liquidity == shares_to_liquidity_floor(reserve[r], n)
    <3> HIDE DEF liquidity
    <3>1. /\ wallet' = [wallet EXCEPT ![w][r] = @ - n]
          /\ reserve' = [reserve EXCEPT ![r].available_liquidity = @ - liquidity,
                                        ![r].share_mint_supply = @ - n]
          /\ UNCHANGED <<custody, fee_shares>>
      BY <2>2 DEF Withdraw, liquidity
    <3>2. OneMoves(wallet, wallet', Wallets, w, r, -n)
      BY <3>1 DEF LendingInv, TypeOK, OneMoves
    <3>3. /\ reserve'[r].share_mint_supply = reserve[r].share_mint_supply + (-n)
          /\ \A p \in Reserves \ {r} :
               reserve'[p].share_mint_supply = reserve[p].share_mint_supply
      BY <3>1 DEF LendingInv, TypeOK, ReserveType
    <3>4. -n \in Int
      OBVIOUS
    <3> QED
      BY <3>1, <3>2, <3>3, <3>4
  <2> QED
    BY <2>1, <2>2
<1> DEFINE moved == IF q = r THEN change ELSE 0
<1>2. moved \in Int /\ reserve[q].share_mint_supply \in Int /\ fee_shares[q] \in Int
  BY HeldTyped DEF LendingInv
<1>3. reserve'[q].share_mint_supply = reserve[q].share_mint_supply + moved
  BY <1>1, <1>2
<1>4. InWallets(q)' = InWallets(q) + moved
  BY <1>1, WalletsMove DEF LendingInv
<1>5. InCustody(q)' = InCustody(q) + 0 /\ fee_shares'[q] = fee_shares[q] + 0
  <2>1. InCustody(q) \in Int /\ InCustody(q)' = InCustody(q)
    BY <1>1, HeldTyped DEF LendingInv, InCustody
  <2> QED
    BY <1>1, <1>2, <2>1
<1>6. moved + 0 + 0 <= moved
  BY <1>2
<1> HIDE DEF moved
<1>7. /\ InWallets(q) \in Int
      /\ InCustody(q) \in Int
      /\ fee_shares[q] \in Int
      /\ reserve[q].share_mint_supply \in Int
      /\ InWallets(q) + InCustody(q) + fee_shares[q] <= reserve[q].share_mint_supply
      /\ SharesHeld(q)' = InWallets(q)' + InCustody(q)' + fee_shares'[q]
  BY MirrorAccount
<1> QED
  BY <1>2, <1>3, <1>4, <1>5, <1>6, <1>7

\* Collateral passes between a wallet and the obligation's vault.
LEMMA CollateralKeepsMirror ==
  ASSUME LendingInv, MirrorCoversShares, NEW q \in Reserves,
         NEW o \in Owners, NEW r \in Reserves, NEW n \in Nat,
         DepositCollateral(o, r, n) \/ WithdrawCollateral(o, r, n)
  PROVE  SharesHeld(q)' <= reserve'[q].share_mint_supply
<1>1. PICK change \in Int :
        /\ OneMoves(wallet, wallet', Wallets, o, r, -change)
        /\ OneMoves(custody, custody', Owners, o, r, change)
        /\ UNCHANGED <<reserve, fee_shares>>
  <2>1. o \in Wallets
    BY LendingAssumption DEF Owners, Wallets
  <2>2. CASE DepositCollateral(o, r, n)
    <3>1. /\ OneMoves(wallet, wallet', Wallets, o, r, -n)
          /\ OneMoves(custody, custody', Owners, o, r, n)
      BY <2>1, <2>2 DEF DepositCollateral, LendingInv, TypeOK, OneMoves
    <3> QED
      BY <2>2, <3>1 DEF DepositCollateral
  <2>3. CASE WithdrawCollateral(o, r, n)
    <3>1. /\ OneMoves(wallet, wallet', Wallets, o, r, n)
          /\ OneMoves(custody, custody', Owners, o, r, -n)
      BY <2>1, <2>3 DEF WithdrawCollateral, LendingInv, TypeOK, OneMoves
    <3>2. -(-n) = n /\ -n \in Int
      OBVIOUS
    <3> QED
      BY <2>3, <3>1, <3>2 DEF WithdrawCollateral
  <2> QED
    BY <2>2, <2>3
<1> DEFINE moved == IF q = r THEN change ELSE 0
           returned == IF q = r THEN -change ELSE 0
<1>2. /\ moved \in Int /\ returned \in Int
      /\ reserve[q].share_mint_supply \in Int /\ fee_shares[q] \in Int
  BY HeldTyped DEF LendingInv
<1>3. InWallets(q)' = InWallets(q) + returned
  <2>1. o \in Wallets
    BY LendingAssumption DEF Owners, Wallets
  <2> QED
    BY <1>1, <2>1, WalletsMove DEF LendingInv
<1>4. InCustody(q)' = InCustody(q) + moved
  BY <1>1, CustodyMoves DEF LendingInv
<1>5. /\ fee_shares'[q] = fee_shares[q] + 0
      /\ reserve'[q].share_mint_supply = reserve[q].share_mint_supply + 0
  BY <1>1, <1>2
<1>6. returned + moved + 0 <= 0
  BY <1>2
<1> HIDE DEF moved, returned
<1>7. /\ InWallets(q) \in Int
      /\ InCustody(q) \in Int
      /\ fee_shares[q] \in Int
      /\ reserve[q].share_mint_supply \in Int
      /\ InWallets(q) + InCustody(q) + fee_shares[q] <= reserve[q].share_mint_supply
      /\ SharesHeld(q)' = InWallets(q)' + InCustody(q)' + fee_shares'[q]
  BY MirrorAccount
<1> QED
  BY <1>2, <1>3, <1>4, <1>5, <1>6, <1>7

\* A seizure is split between liquidator and protocol without loss or gain.
LEMMA LiquidateKeepsMirror ==
  ASSUME LendingInv, MirrorCoversShares, NEW q \in Reserves,
         NEW w \in Wallets, NEW o \in Owners,
         NEW d \in Reserves, NEW c \in Reserves, NEW n \in Nat,
         Liquidate(w, o, d, c, n)
  PROVE  SharesHeld(q)' <= reserve'[q].share_mint_supply
<1> DEFINE paid == AtMost(n, MaxRepay(o, d))
           seized == SeizedShares(d, c, paid)
           split == split_seized_shares(seized, config[c].liquidation_bonus_bps,
                                        Risk[c].protocol_liquidation_share_bps)
           scaled == ScaledPayment(o, d, paid)
           gain == split.liquidator
           cut == split.protocol
<1>1. /\ seized \in 1..obligation[o].deposits[c]
      /\ reserve' = [reserve EXCEPT ![d].borrowed_principal = @ - scaled,
                                    ![d].available_liquidity = @ + paid]
      /\ custody' = [custody EXCEPT ![o][c] = (@ - gain) - cut]
      /\ wallet' = [wallet EXCEPT ![w][c] = @ + gain]
      /\ fee_shares' = [fee_shares EXCEPT ![c] = @ + cut]
  BY DEF Liquidate
<1>2. seized \in Nat
  BY <1>1 DEF LendingInv, TypeOK, ObligationType
<1>3. cut \in Nat /\ gain \in Nat /\ cut + gain = seized
  BY <1>2, ConfigTyped, SplitTyped DEF LendingInv
<1> HIDE DEF paid, seized, split, scaled, gain, cut
<1>4. /\ OneMoves(custody, custody', Owners, o, c, -seized)
      /\ OneMoves(wallet, wallet', Wallets, w, c, gain)
  BY <1>1, <1>2, <1>3 DEF LendingInv, TypeOK, OneMoves
<1> DEFINE gained == IF q = c THEN gain ELSE 0
           lost == IF q = c THEN -seized ELSE 0
           kept == IF q = c THEN cut ELSE 0
<1>5. /\ gained \in Int /\ lost \in Int /\ kept \in Int
      /\ gained + lost + kept <= 0
  BY <1>2, <1>3
<1>6. InWallets(q)' = InWallets(q) + gained
  BY <1>3, <1>4, WalletsMove DEF LendingInv
<1>7. InCustody(q)' = InCustody(q) + lost
  BY <1>2, <1>4, CustodyMoves DEF LendingInv
<1>8. fee_shares'[q] = fee_shares[q] + kept
  BY <1>1, <1>3 DEF LendingInv, TypeOK
<1>9. reserve'[q].share_mint_supply = reserve[q].share_mint_supply + 0
  BY <1>1 DEF LendingInv, TypeOK, ReserveType
<1> HIDE DEF gained, lost, kept
<1>10. /\ InWallets(q) \in Int
      /\ InCustody(q) \in Int
      /\ fee_shares[q] \in Int
      /\ reserve[q].share_mint_supply \in Int
      /\ InWallets(q) + InCustody(q) + fee_shares[q] <= reserve[q].share_mint_supply
      /\ SharesHeld(q)' = InWallets(q)' + InCustody(q)' + fee_shares'[q]
  BY MirrorAccount
<1> QED
  BY <1>5, <1>6, <1>7, <1>8, <1>9, <1>10

\* Tokens that change hands, and no more of them, stay below a mirror that stands.
LEMMA HandsChange ==
  ASSUME LendingInv, MirrorCoversShares, NEW q \in Reserves, reserve' = reserve,
         NEW a \in Int, NEW b \in Int, NEW k \in Int, a + b + k <= 0,
         InWallets(q)' = InWallets(q) + a,
         InCustody(q)' = InCustody(q) + b,
         fee_shares'[q] = fee_shares[q] + k
  PROVE  SharesHeld(q)' <= reserve'[q].share_mint_supply
<1>1. /\ InWallets(q) \in Int
      /\ InCustody(q) \in Int
      /\ fee_shares[q] \in Int
      /\ reserve[q].share_mint_supply \in Int
      /\ InWallets(q) + InCustody(q) + fee_shares[q] <= reserve[q].share_mint_supply
      /\ SharesHeld(q)' = InWallets(q)' + InCustody(q)' + fee_shares'[q]
  BY MirrorAccount
<1> QED
  BY <1>1

\* A holder who burns share tokens leaves the mirror above them; one who sends them
\* anywhere takes off one total what is added to another.
LEMMA TokensKeepMirror ==
  ASSUME LendingInv, MirrorCoversShares, NEW q \in Reserves,
         NEW r \in Reserves, NEW n \in Nat, TokenStep(r, n)
  PROVE  SharesHeld(q)' <= reserve'[q].share_mint_supply
<1> DEFINE moved == IF q = r THEN n ELSE 0
           taken == IF q = r THEN -n ELSE 0
<1>1. /\ moved \in Int /\ taken \in Int /\ taken <= 0 /\ taken + moved = 0
      /\ InWallets(q) \in Int /\ InCustody(q) \in Int /\ fee_shares[q] \in Int
      /\ n \in Int /\ -n \in Int
  BY HeldTyped DEF LendingInv
<1>2. TypeOK /\ reserve' = reserve
  BY TokenStepTyped DEF LendingInv
<1>3. ASSUME UNCHANGED custody PROVE InCustody(q)' = InCustody(q) + 0
  BY <1>1, <1>3 DEF InCustody
<1>4. ASSUME UNCHANGED fee_shares PROVE fee_shares'[q] = fee_shares[q] + 0
  BY <1>1, <1>4
<1>5. ASSUME NEW w \in Wallets, wallet' = [wallet EXCEPT ![w][r] = @ - n]
      PROVE  InWallets(q)' = InWallets(q) + taken
  <2>1. OneMoves(wallet, wallet', Wallets, w, r, -n)
    BY <1>2, <1>5 DEF TypeOK, OneMoves
  <2> QED
    BY <1>1, <1>2, <2>1, WalletsMove
<1>6. ASSUME NEW w \in Wallets, BurnShares(w, r, n)
      PROVE  SharesHeld(q)' <= reserve'[q].share_mint_supply
  <2>1. /\ InWallets(q)' = InWallets(q) + taken
        /\ InCustody(q)' = InCustody(q) + 0
        /\ fee_shares'[q] = fee_shares[q] + 0
    BY <1>3, <1>4, <1>5, <1>6 DEF BurnShares
  <2> HIDE DEF moved, taken
  <2>2. taken + 0 + 0 <= 0
    BY <1>1
  <2> QED
    BY <1>1, <1>2, <2>1, <2>2, HandsChange
<1>7. ASSUME NEW from \in Wallets, NEW to \in Wallets, SendShares(from, to, r, n)
      PROVE  SharesHeld(q)' <= reserve'[q].share_mint_supply
  <2>1. InWallets(q)' = InWallets(q) + 0
    BY <1>1, <1>2, <1>7, WalletsExchange
  <2>2. InCustody(q)' = InCustody(q) + 0 /\ fee_shares'[q] = fee_shares[q] + 0
    BY <1>3, <1>4, <1>7 DEF SendShares
  <2>3. 0 \in Int /\ (0 + 0) + 0 <= 0
    OBVIOUS
  <2> HIDE DEF moved, taken
  <2> QED
    BY <1>2, <2>1, <2>2, <2>3, HandsChange
<1>8. ASSUME NEW w \in Wallets, NEW o \in Owners, SendSharesToVault(w, o, r, n)
      PROVE  SharesHeld(q)' <= reserve'[q].share_mint_supply
  <2>1. InWallets(q)' = InWallets(q) + taken /\ fee_shares'[q] = fee_shares[q] + 0
    BY <1>4, <1>5, <1>8 DEF SendSharesToVault
  <2>2. OneMoves(custody, custody', Owners, o, r, n)
    BY <1>2, <1>8 DEF SendSharesToVault, TypeOK, OneMoves
  <2>3. InCustody(q)' = InCustody(q) + moved
    BY <1>1, <1>2, <2>2, CustodyMoves
  <2>4. taken + moved + 0 <= 0
    BY <1>1
  <2>5. taken \in Int /\ moved \in Int /\ 0 \in Int
    BY <1>1
  <2> HIDE DEF moved, taken
  <2> QED
    BY <1>2, <2>1, <2>3, <2>4, <2>5, HandsChange
<1>9. ASSUME NEW w \in Wallets, SendSharesToFees(w, r, n)
      PROVE  SharesHeld(q)' <= reserve'[q].share_mint_supply
  <2>1. InWallets(q)' = InWallets(q) + taken /\ InCustody(q)' = InCustody(q) + 0
    BY <1>3, <1>5, <1>9 DEF SendSharesToFees
  <2>2. fee_shares'[q] = fee_shares[q] + moved
    BY <1>1, <1>2, <1>9 DEF SendSharesToFees, TypeOK
  <2> HIDE DEF moved, taken
  <2>3. taken + 0 + moved <= 0
    BY <1>1
  <2> QED
    BY <1>1, <1>2, <2>1, <2>2, <2>3, HandsChange
<1>10. ASSUME NEW w \in Wallets, SendFeeShares(w, r, n)
       PROVE  SharesHeld(q)' <= reserve'[q].share_mint_supply
  <2>1. OneMoves(wallet, wallet', Wallets, w, r, n)
    BY <1>2, <1>10 DEF SendFeeShares, TypeOK, OneMoves
  <2>2. InWallets(q)' = InWallets(q) + moved /\ InCustody(q)' = InCustody(q) + 0
    <3>1. InWallets(q)' = InWallets(q) + moved
      BY <1>1, <1>2, <2>1, WalletsMove
    <3>2. UNCHANGED custody
      BY <1>10 DEF SendFeeShares
    <3> QED
      BY <1>3, <3>1, <3>2
  <2>3. fee_shares'[q] = fee_shares[q] + taken
    BY <1>1, <1>2, <1>10 DEF SendFeeShares, TypeOK
  <2> HIDE DEF moved, taken
  <2>4. moved + 0 + taken <= 0
    BY <1>1
  <2> QED
    BY <1>1, <1>2, <2>2, <2>3, <2>4, HandsChange
<1> QED
  BY <1>6, <1>7, <1>8, <1>9, <1>10 DEF TokenStep

\* Every other step leaves the tokens and the mirror where they are.
LEMMA OthersKeepMirror ==
  ASSUME MirrorCoversShares, NEW q \in Reserves,
         UNCHANGED <<wallet, custody, fee_shares>>,
         reserve'[q].share_mint_supply = reserve[q].share_mint_supply
  PROVE  SharesHeld(q)' <= reserve'[q].share_mint_supply
<1>1. SharesHeld(q)' = SharesHeld(q)
  BY DEF SharesHeld
<1> QED
  BY <1>1 DEF MirrorCoversShares

LEMMA MirrorStep ==
  ASSUME LendingInv, MirrorCoversShares, [Next]_vars
  PROVE  MirrorCoversShares'
<1> SUFFICES ASSUME NEW q \in Reserves
             PROVE  SharesHeld(q)' <= reserve'[q].share_mint_supply
  BY DEF MirrorCoversShares
<1>1. /\ Suppliers \subseteq Wallets /\ Liquidators \subseteq Wallets
      /\ \A n \in Amounts \cup OutsideAmounts : n \in Nat
      /\ reserve \in [Reserves -> ReserveType]
  BY LendingAssumption DEF LendingInv, TypeOK
<1>2. ASSUME NEW w \in Suppliers, NEW r \in Reserves, NEW n \in Amounts,
             Supply(w, r, n) \/ Withdraw(w, r, n)
      PROVE  SharesHeld(q)' <= reserve'[q].share_mint_supply
  BY <1>1, <1>2, SuppliersKeepMirror
<1>3. ASSUME NEW o \in Owners, NEW r \in Reserves, NEW n \in Amounts,
             DepositCollateral(o, r, n) \/ WithdrawCollateral(o, r, n)
      PROVE  SharesHeld(q)' <= reserve'[q].share_mint_supply
  BY <1>1, <1>3, CollateralKeepsMirror
<1>4. ASSUME NEW w \in Liquidators, NEW o \in Owners, NEW d \in Reserves,
             NEW c \in Reserves, NEW n \in Amounts, Liquidate(w, o, d, c, n)
      PROVE  SharesHeld(q)' <= reserve'[q].share_mint_supply
  BY <1>1, <1>4, LiquidateKeepsMirror
<1>5. ASSUME NEW r \in Reserves, NEW n \in OutsideShares[r], TokenStep(r, n)
      PROVE  SharesHeld(q)' <= reserve'[q].share_mint_supply
  <2>1. n \in Nat
    BY LendingAssumption
  <2> QED
    BY <1>5, <2>1, TokensKeepMirror
<1>6. ASSUME NEW o \in Owners, NEW r \in Reserves, NEW n \in Amounts,
             Borrow(o, r, n) \/ Repay(o, r, n)
      PROVE  SharesHeld(q)' <= reserve'[q].share_mint_supply
  BY <1>1, <1>6, OthersKeepMirror DEF Borrow, Repay, ReserveType
<1>7. ASSUME NEW o \in Owners, NEW r \in Reserves, AbsorbBadDebt(o, r)
      PROVE  SharesHeld(q)' <= reserve'[q].share_mint_supply
  BY <1>1, <1>7, OthersKeepMirror DEF AbsorbBadDebt, ReserveType
<1>8. ASSUME NEW r \in Reserves, CollectFees(r)
      PROVE  SharesHeld(q)' <= reserve'[q].share_mint_supply
  BY <1>1, <1>8, OthersKeepMirror DEF CollectFees, ReserveType
<1>9. ASSUME NEW r \in Reserves, Accrue(r)
      PROVE  SharesHeld(q)' <= reserve'[q].share_mint_supply
  <2>1. reserve' = [reserve EXCEPT ![r] = accrue_interest(reserve[r], config[r], slot)]
    BY <1>9 DEF Accrue
  <2>2. accrue_interest(reserve[r], config[r], slot).share_mint_supply
          = reserve[r].share_mint_supply
    BY <1>1 DEF accrue_interest, ReserveType
  <2>3. UNCHANGED <<wallet, custody, fee_shares>>
    BY <1>9 DEF Accrue
  <2>4. reserve'[q].share_mint_supply = reserve[q].share_mint_supply
    BY <1>1, <2>1, <2>2
  <2> QED
    BY <2>3, <2>4, OthersKeepMirror
<1>10. ASSUME \/ Tick \/ \E r \in Reserves : RefreshOracle(r)
              \/ \E o \in Owners : RefreshObligation(o)
              \/ \E r \in Reserves : SetConfig(r)
              \/ PauseBorrow \/ PauseAll \/ Unpause
              \/ \E r \in Reserves, n \in OutsideAmounts : Donate(r, n)
              \/ UNCHANGED vars
       PROVE  SharesHeld(q)' <= reserve'[q].share_mint_supply
  <2>1. UNCHANGED <<reserve, wallet, custody, fee_shares>>
    BY <1>10 DEF Tick, RefreshOracle, RefreshObligation, PauseBorrow, PauseAll, Unpause,
                 SetConfig, SetPauses, Donate, vars
  <2> QED
    BY <2>1, OthersKeepMirror
<1> QED
  BY <1>2, <1>3, <1>4, <1>5, <1>6, <1>7, <1>8, <1>9, <1>10 DEF Next, TokenStep

\* In a new market there are no share tokens.
LEMMA MirrorInit ==
  ASSUME Init
  PROVE  MirrorCoversShares
<1> SUFFICES ASSUME NEW q \in Reserves
             PROVE  SharesHeld(q) <= reserve[q].share_mint_supply
  BY DEF MirrorCoversShares
<1>1. LendingInv
  BY LendingInvInit
<1>2. /\ NumWallets \in Nat /\ Wallets = 1..NumWallets
      /\ NumOwners \in Nat /\ Owners = 1..NumOwners
  BY LendingAssumption DEF Wallets, Owners
<1>3. InWallets(q) = 0
  <2>1. [w \in Wallets |-> wallet[w][q]] = [w \in 1..NumWallets |-> 0]
    BY <1>2 DEF Init
  <2> QED
    BY <1>2, <2>1, SumOfZeros DEF InWallets
<1>4. InCustody(q) = 0
  <2>1. [o \in Owners |-> custody[o][q]] = [o \in 1..NumOwners |-> 0]
    BY <1>2 DEF Init
  <2> QED
    BY <1>2, <2>1, SumOfZeros DEF InCustody
<1>5. fee_shares[q] = 0 /\ reserve[q].share_mint_supply \in Nat
  BY <1>1 DEF Init, LendingInv, TypeOK, ReserveType
<1> QED
  BY <1>1, <1>3, <1>4, <1>5, HeldTyped DEF LendingInv

\* The mirror of the share supply covers every share token there is, in every
\* state: no claim exists that would be paid out of what others hold.
THEOREM MirrorAlwaysCoversShares == Spec => []MirrorCoversShares
<1>1. Init => LendingInv /\ MirrorCoversShares
  BY LendingInvInit, MirrorInit
<1>2. LendingInv /\ MirrorCoversShares /\ [Next]_vars => MirrorCoversShares'
  BY MirrorStep
<1> QED
  BY <1>1, <1>2, LendingInvariant, PTL DEF Spec

-------------------------------------------------------------------------------
\* The share rate: what a share is a claim on, total_liquidity, over the supply.

\* A step leaves the shares and takes nothing from what they are a claim on.
RateKept(q) ==
  /\ total_liquidity(reserve[q]) <= total_liquidity(reserve'[q])
  /\ reserve'[q].share_mint_supply = reserve[q].share_mint_supply

\* What a step owes the holders of q's shares: a rate no lower, and a total
\* that stays covered if it was.
RateHolds(q) ==
  /\ \/ reserve[q].share_mint_supply = 0
     \/ total_liquidity(reserve[q]) * reserve'[q].share_mint_supply
          <= total_liquidity(reserve'[q]) * reserve[q].share_mint_supply
  /\ total_liquidity(reserve[q]) >= 0 => total_liquidity(reserve'[q]) >= 0

LEMMA ReserveTyped ==
  ASSUME LendingInv, NEW q \in Reserves
  PROVE  /\ reserve[q] \in ReserveType
         /\ reserve[q].available_liquidity \in Nat /\ reserve[q].share_mint_supply \in Nat
         /\ reserve[q].borrowed_principal \in Nat /\ reserve[q].accrued_fees \in Nat
         /\ reserve[q].borrow_index \in Nat \ {0}
         /\ current_borrowed_amount(reserve[q]) \in Nat
         /\ total_liquidity(reserve[q]) \in Int
         /\ DOMAIN reserve = Reserves
<1>1. reserve[q] \in ReserveType
  BY DEF LendingInv, TypeOK
<1>2. reserve[q].borrow_index \in Nat \ {0}
  BY <1>1, ScaleAssumption DEF LendingInv, IndexAtLeastOne, ReserveType
<1>3. DOMAIN reserve = Reserves
  BY DEF LendingInv, TypeOK
<1> QED
  BY <1>1, <1>2, <1>3, TotalInt, UtilizationNat DEF ReserveType

LEMMA SameReserveKeepsRate ==
  ASSUME LendingInv, NEW q \in Reserves, reserve'[q] = reserve[q]
  PROVE  RateKept(q)
BY ReserveTyped DEF RateKept

LEMMA KeptRateHolds ==
  ASSUME LendingInv, LendingInv', NEW q \in Reserves, RateKept(q)
  PROVE  RateHolds(q)
<1> DEFINE total == total_liquidity(reserve[q])
           total2 == total_liquidity(reserve'[q])
           supply == reserve[q].share_mint_supply
<1>1. total \in Int /\ supply \in Nat
  BY ReserveTyped
<1>2. total2 \in Int
  BY TotalInt DEF LendingInv, TypeOK
<1>3. total <= total2 /\ reserve'[q].share_mint_supply = supply
  BY DEF RateKept
<1> HIDE DEF total, total2, supply
<1>4. total * supply <= total2 * supply
  BY <1>1, <1>2, <1>3
<1> QED
  BY <1>1, <1>2, <1>3, <1>4 DEF RateHolds, total, total2, supply

\* Interest: the fee is a part of the charge.
LEMMA AccrueKeepsRate ==
  ASSUME LendingInv, NEW q \in Reserves, NEW r \in Reserves, Accrue(r)
  PROVE  RateKept(q)
<1> DEFINE rsv2 == accrue_interest(reserve[r], config[r], slot)
<1>1. reserve[r] \in ReserveType /\ ValidConfig(config[r]) /\ slot \in Nat
  BY ConfigTyped DEF LendingInv, TypeOK
<1>2. /\ total_liquidity(reserve[r]) <= total_liquidity(rsv2)
      /\ rsv2.share_mint_supply = reserve[r].share_mint_supply
  BY <1>1, AccrueTyped, AccrueKeepsTotal
<1> HIDE DEF rsv2
<1>3. reserve' = [reserve EXCEPT ![r] = rsv2]
  BY DEF Accrue, rsv2
<1>4. CASE q = r
  BY <1>2, <1>3, <1>4 DEF RateKept, LendingInv, TypeOK
<1>5. CASE q # r
  BY <1>3, <1>5, SameReserveKeepsRate
<1> QED
  BY <1>4, <1>5

\* A payment into r's vault against o's debt there: what repay and liquidate have
\* in common.
LEMMA PaymentKeepsRate ==
  ASSUME LendingInv, NEW q \in Reserves,
         NEW o \in Owners, NEW r \in Reserves, NEW paid \in Nat,
         ScaledPayment(o, r, paid) <= reserve[r].borrowed_principal,
         reserve' = [reserve EXCEPT ![r].borrowed_principal = @ - ScaledPayment(o, r, paid),
                                    ![r].available_liquidity = @ + paid]
  PROVE  RateKept(q)
<1> DEFINE scaled == ScaledPayment(o, r, paid)
           index == reserve[r].borrow_index
           principal == reserve[r].borrowed_principal
           retired == mul_div_floor(paid, FIXED_POINT_SCALE, index)
<1>1. CASE q # r
  BY <1>1, ReserveTyped, SameReserveKeepsRate
<1>2. CASE q = r
  <2>1. index \in Nat \ {0} /\ principal \in Nat /\ reserve[r] \in ReserveType
    BY ReserveTyped
  <2>2. scaled \in Nat /\ scaled <= principal
    BY PaymentTyped
  <2>3. scaled * index <= paid * FIXED_POINT_SCALE
    <3>1. retired \in Nat /\ retired * index <= paid * FIXED_POINT_SCALE
      BY <2>1, ScaleAssumption, FloorNat
    <3>2. scaled <= retired
      <4>1. obligation[o].borrows[r] \in Nat
        BY DEF LendingInv, TypeOK, ObligationType
      <4> QED
        BY <3>1, <4>1 DEF ScaledPayment, AtMost
    <3> HIDE DEF scaled, index, retired
    <3>3. scaled * index <= retired * index
      BY <2>1, <2>2, <3>1, <3>2
    <3>4. scaled * index \in Nat /\ retired * index \in Nat /\ paid * FIXED_POINT_SCALE \in Nat
      BY <2>1, <2>2, <3>1, ScaleAssumption, ProductNat
    <3> QED
      BY <3>1, <3>3, <3>4
  <2>4. debt_at(principal, index) <= debt_at(principal - scaled, index) + paid
    BY <2>1, <2>2, <2>3, DebtShrinks
  <2> HIDE DEF scaled
  <2>5. /\ reserve'[r].borrowed_principal = principal - scaled
        /\ reserve'[r].available_liquidity = reserve[r].available_liquidity + paid
        /\ reserve'[r].borrow_index = index
        /\ reserve'[r].accrued_fees = reserve[r].accrued_fees
        /\ reserve'[r].share_mint_supply = reserve[r].share_mint_supply
    BY <2>1 DEF LendingInv, TypeOK, ReserveType, scaled
  <2> HIDE DEF index, principal
  <2>6. /\ current_borrowed_amount(reserve[r]) = debt_at(principal, index)
        /\ current_borrowed_amount(reserve'[r]) = debt_at(principal - scaled, index)
    BY <2>5 DEF current_borrowed_amount, index, principal
  <2>7. principal - scaled \in Nat /\ reserve[r].available_liquidity \in Nat
        /\ reserve[r].accrued_fees \in Nat
    BY <2>1, <2>2, ReserveTyped
  <2>8. debt_at(principal, index) \in Nat /\ debt_at(principal - scaled, index) \in Nat
    BY <2>1, <2>7, DebtNat
  <2>9. total_liquidity(reserve[r]) <= total_liquidity(reserve'[r])
    BY <2>4, <2>5, <2>6, <2>7, <2>8 DEF total_liquidity, gross_liquidity
  <2> QED
    BY <1>2, <2>5, <2>9 DEF RateKept
<1> QED
  BY <1>1, <1>2

\* A new debt: booked as at least what is borrowed, of which the fee stays.
LEMMA BorrowKeepsRate ==
  ASSUME LendingInv, NEW q \in Reserves,
         NEW o \in Owners, NEW r \in Reserves, NEW n \in Nat, Borrow(o, r, n)
  PROVE  RateKept(q)
<1> DEFINE scaled == ScaledDebt(r, n)
           fee == OriginationFee(r, n)
           index == reserve[r].borrow_index
           principal == reserve[r].borrowed_principal
<1>1. reserve' = [reserve EXCEPT ![r].borrowed_principal = @ + scaled,
                                 ![r].available_liquidity = @ - (n - fee),
                                 ![r].accrued_fees = @ + fee]
  BY DEF Borrow
<1>2. CASE q # r
  BY <1>1, <1>2, ReserveTyped, SameReserveKeepsRate
<1>3. CASE q = r
  <2>1. index \in Nat \ {0} /\ principal \in Nat /\ reserve[r] \in ReserveType
    BY ReserveTyped
  <2>2. scaled \in Nat /\ n * FIXED_POINT_SCALE <= scaled * index
    BY <2>1, ScaleAssumption, CeilNat DEF ScaledDebt
  <2>3. fee \in Nat
    BY ConfigTyped, ScaleAssumption, FloorNat DEF LendingInv, OriginationFee
  <2>4. debt_at(principal, index) + n <= debt_at(principal + scaled, index)
    BY <2>1, <2>2, DebtGrows
  <2> HIDE DEF scaled, fee
  <2>5. /\ reserve'[r].borrowed_principal = principal + scaled
        /\ reserve'[r].available_liquidity = reserve[r].available_liquidity - (n - fee)
        /\ reserve'[r].borrow_index = index
        /\ reserve'[r].accrued_fees = reserve[r].accrued_fees + fee
        /\ reserve'[r].share_mint_supply = reserve[r].share_mint_supply
    BY <1>1, <2>1 DEF LendingInv, TypeOK, ReserveType
  <2> HIDE DEF index, principal
  <2>6. /\ current_borrowed_amount(reserve[r]) = debt_at(principal, index)
        /\ current_borrowed_amount(reserve'[r]) = debt_at(principal + scaled, index)
    BY <2>5 DEF current_borrowed_amount, index, principal
  <2>7. principal + scaled \in Nat /\ reserve[r].available_liquidity \in Nat
        /\ reserve[r].accrued_fees \in Nat
    BY <2>1, <2>2, ReserveTyped
  <2>8. debt_at(principal, index) \in Nat /\ debt_at(principal + scaled, index) \in Nat
    BY <2>1, <2>7, DebtNat
  <2>9. total_liquidity(reserve[r]) <= total_liquidity(reserve'[r])
    BY <2>3, <2>4, <2>5, <2>6, <2>7, <2>8 DEF total_liquidity, gross_liquidity
  <2> QED
    BY <1>3, <2>5, <2>9 DEF RateKept
<1> QED
  BY <1>2, <1>3

\* Fees paid out were no supplier's.
LEMMA FeesKeepRate ==
  ASSUME LendingInv, NEW q \in Reserves, NEW r \in Reserves, CollectFees(r)
  PROVE  RateKept(q)
<1> DEFINE payable == AtMost(reserve[r].accrued_fees, reserve[r].available_liquidity)
<1>1. reserve' = [reserve EXCEPT ![r].accrued_fees = @ - payable,
                                 ![r].available_liquidity = @ - payable]
  BY DEF CollectFees
<1>2. CASE q # r
  BY <1>1, <1>2, ReserveTyped, SameReserveKeepsRate
<1>3. CASE q = r
  <2>1. payable \in Nat
    BY ReserveTyped DEF AtMost
  <2> HIDE DEF payable
  <2>2. /\ reserve'[r].borrowed_principal = reserve[r].borrowed_principal
        /\ reserve'[r].available_liquidity = reserve[r].available_liquidity - payable
        /\ reserve'[r].borrow_index = reserve[r].borrow_index
        /\ reserve'[r].accrued_fees = reserve[r].accrued_fees - payable
        /\ reserve'[r].share_mint_supply = reserve[r].share_mint_supply
    BY <1>1 DEF LendingInv, TypeOK, ReserveType
  <2>3. current_borrowed_amount(reserve'[r]) = current_borrowed_amount(reserve[r])
    BY <2>2 DEF current_borrowed_amount
  <2>4. total_liquidity(reserve[r]) <= total_liquidity(reserve'[r])
    BY <2>1, <2>2, <2>3, ReserveTyped DEF total_liquidity, gross_liquidity
  <2> QED
    BY <1>3, <2>2, <2>4 DEF RateKept
<1> QED
  BY <1>2, <1>3

\* supply mints no more shares than the amount is worth.
LEMMA SupplyHoldsRate ==
  ASSUME LendingInv, LendingInv', NEW q \in Reserves,
         NEW w \in Wallets, NEW r \in Reserves, NEW n \in Nat, Supply(w, r, n)
  PROVE  RateHolds(q)
<1> DEFINE rsv == reserve[r]
           total == total_liquidity(rsv)
           supply == rsv.share_mint_supply
           shares == liquidity_to_shares(rsv, n)
<1>1. reserve' = [reserve EXCEPT ![r].available_liquidity = @ + n,
                                 ![r].share_mint_supply = @ + shares]
  BY DEF Supply
<1>2. CASE q # r
  BY <1>1, <1>2, ReserveTyped, SameReserveKeepsRate, KeptRateHolds
<1>3. CASE q = r
  <2>1. rsv \in ReserveType /\ total \in Int /\ supply \in Nat
    BY ReserveTyped
  <2>2. shares \in Nat
    BY <2>1, SharesTyped
  <2>3. supply > 0 => total >= 0
    BY <2>1, ReserveTyped DEF Supply, TotalDefined, total_liquidity, gross_liquidity
  <2>4. supply > 0 => shares * AtLeast(total, 1) <= n * supply
    <3>1. AtLeast(total, 1) \in Nat \ {0}
      BY <2>1 DEF AtLeast
    <3>2. mul_div_floor(n, supply, AtLeast(total, 1)) * AtLeast(total, 1) <= n * supply
      BY <2>1, <3>1, FloorNat
    <3> QED
      BY <2>1, <3>2 DEF liquidity_to_shares
  <2> HIDE DEF shares
  <2>5. /\ reserve'[r].borrowed_principal = rsv.borrowed_principal
        /\ reserve'[r].available_liquidity = rsv.available_liquidity + n
        /\ reserve'[r].borrow_index = rsv.borrow_index
        /\ reserve'[r].accrued_fees = rsv.accrued_fees
        /\ reserve'[r].share_mint_supply = supply + shares
    BY <1>1, <2>1 DEF LendingInv, TypeOK, ReserveType
  <2>6. current_borrowed_amount(reserve'[r]) = current_borrowed_amount(rsv)
    BY <2>5 DEF current_borrowed_amount
  <2>7. total_liquidity(reserve'[r]) = total + n
    BY <2>5, <2>6, ReserveTyped DEF total_liquidity, gross_liquidity
  <2> HIDE DEF total, supply
  <2>8. ASSUME supply > 0 PROVE total * (supply + shares) <= (total + n) * supply
    <3> DEFINE base == AtLeast(total, 1)
    <3>1. base \in Nat /\ total \in Nat /\ total <= base
      BY <2>1, <2>3, <2>8 DEF AtLeast
    <3>2. shares * base <= n * supply
      BY <2>4, <2>8
    <3> HIDE DEF base
    <3>3. shares * total <= shares * base
      BY <2>2, <3>1
    <3>4. /\ shares * base \in Nat /\ shares * total \in Nat
          /\ n * supply \in Nat /\ total * supply \in Nat
      BY <2>1, <2>2, <3>1, ProductNat
    <3>5. /\ total * (supply + shares) = total * supply + shares * total
          /\ (total + n) * supply = total * supply + n * supply
      BY <2>1, <2>2, <3>1
    <3> QED
      BY <3>2, <3>3, <3>4, <3>5
  <2>9. total >= 0 => total + n >= 0
    BY <2>1
  <2> QED
    BY <1>3, <2>1, <2>5, <2>7, <2>8, <2>9 DEF RateHolds, total, supply
<1> QED
  BY <1>2, <1>3

\* withdraw pays no more than the burned shares are worth.
LEMMA WithdrawHoldsRate ==
  ASSUME LendingInv, LendingInv', NEW q \in Reserves,
         NEW w \in Wallets, NEW r \in Reserves, NEW n \in Nat, Withdraw(w, r, n)
  PROVE  RateHolds(q)
<1> DEFINE rsv == reserve[r]
           total == total_liquidity(rsv)
           supply == rsv.share_mint_supply
           paid == shares_to_liquidity_floor(rsv, n)
<1>1. reserve' = [reserve EXCEPT ![r].available_liquidity = @ - paid,
                                 ![r].share_mint_supply = @ - n]
  BY DEF Withdraw
<1>2. CASE q # r
  BY <1>1, <1>2, ReserveTyped, SameReserveKeepsRate, KeptRateHolds
<1>3. CASE q = r
  <2>1. rsv \in ReserveType /\ supply \in Nat \ {0} /\ n <= supply
    BY ReserveTyped DEF Withdraw
  <2>2. total \in Nat
    BY ReserveTyped DEF Withdraw, TotalDefined, total_liquidity, gross_liquidity
  <2>3. paid = mul_div_floor(n, total, supply)
    BY <2>1 DEF shares_to_liquidity_floor, AtLeast
  <2>4. paid \in Nat /\ paid * supply <= n * total
    BY <2>1, <2>2, <2>3, FloorNat
  <2>5. paid <= total
    <3>1. n * total <= total * supply /\ n * total \in Nat /\ total * supply \in Nat
      BY <2>1, <2>2, ProductNat
    <3>2. mul_div_floor(n, total, supply) <= total
      BY <2>1, <2>2, <3>1, QuotientAtMost DEF mul_div_floor
    <3> QED
      BY <2>3, <3>2
  <2> HIDE DEF paid
  <2>6. /\ reserve'[r].borrowed_principal = rsv.borrowed_principal
        /\ reserve'[r].available_liquidity = rsv.available_liquidity - paid
        /\ reserve'[r].borrow_index = rsv.borrow_index
        /\ reserve'[r].accrued_fees = rsv.accrued_fees
        /\ reserve'[r].share_mint_supply = supply - n
    BY <1>1, <2>1 DEF LendingInv, TypeOK, ReserveType
  <2>7. current_borrowed_amount(reserve'[r]) = current_borrowed_amount(rsv)
    BY <2>6 DEF current_borrowed_amount
  <2>8. total_liquidity(reserve'[r]) = total - paid
    BY <2>4, <2>6, <2>7, ReserveTyped DEF total_liquidity, gross_liquidity
  <2> HIDE DEF total, supply
  <2>9. total * (supply - n) <= (total - paid) * supply
    <3>1. /\ total * supply \in Nat /\ n * total \in Nat /\ paid * supply \in Nat
      BY <2>1, <2>2, <2>4, ProductNat
    <3>2. total * (supply - n) = total * supply - n * total
      BY <2>1, <2>2
    <3>3. (total - paid) * supply = total * supply - paid * supply
      BY <2>1, <2>2, <2>4
    <3> QED
      BY <2>4, <3>1, <3>2, <3>3
  <2>10. total - paid >= 0
    BY <2>2, <2>4, <2>5
  <2> QED
    BY <1>3, <2>6, <2>8, <2>9, <2>10 DEF RateHolds, total, supply
<1> QED
  BY <1>2, <1>3

LEMMA RateStep ==
  ASSUME LendingInv, [Next]_vars, NEW q \in Reserves, ~ Absorbs(q)
  PROVE  RateHolds(q)
<1>1. LendingInv'
  BY LendingInvStep
<1>2. /\ Suppliers \subseteq Wallets /\ Liquidators \subseteq Wallets
      /\ \A n \in Amounts \cup OutsideAmounts : n \in Nat
  BY LendingAssumption
<1>3. ASSUME NEW w \in Suppliers, NEW r \in Reserves, NEW n \in Amounts, Supply(w, r, n)
      PROVE  RateHolds(q)
  BY <1>1, <1>2, <1>3, SupplyHoldsRate
<1>4. ASSUME NEW w \in Suppliers, NEW r \in Reserves, NEW n \in Amounts, Withdraw(w, r, n)
      PROVE  RateHolds(q)
  BY <1>1, <1>2, <1>4, WithdrawHoldsRate
<1>5. ASSUME NEW o \in Owners, NEW r \in Reserves, NEW n \in Amounts, Borrow(o, r, n)
      PROVE  RateHolds(q)
  BY <1>1, <1>2, <1>5, BorrowKeepsRate, KeptRateHolds
<1>6. ASSUME NEW o \in Owners, NEW r \in Reserves, NEW n \in Amounts, Repay(o, r, n)
      PROVE  RateHolds(q)
  <2> DEFINE paid == AtMost(n, Debt(o, r))
  <2>1. paid \in Nat
    <3>1. reserve[r].borrow_index \in Nat /\ obligation[o].borrows[r] \in Nat
      BY DEF LendingInv, TypeOK, ReserveType, ObligationType
    <3>2. Debt(o, r) \in Nat
      BY <3>1, DebtNat DEF Debt
    <3> QED
      BY <1>2, <3>2 DEF AtMost
  <2>2. /\ ScaledPayment(o, r, paid) <= reserve[r].borrowed_principal
        /\ reserve' = [reserve EXCEPT ![r].borrowed_principal = @ - ScaledPayment(o, r, paid),
                                      ![r].available_liquidity = @ + paid]
    BY <1>6 DEF Repay, RepayAccepted
  <2> HIDE DEF paid
  <2> QED
    BY <1>1, <2>1, <2>2, PaymentKeepsRate, KeptRateHolds
<1>7. ASSUME NEW w \in Liquidators, NEW o \in Owners, NEW d \in Reserves,
             NEW c \in Reserves, NEW n \in Amounts, Liquidate(w, o, d, c, n)
      PROVE  RateHolds(q)
  <2> DEFINE paid == AtMost(n, MaxRepay(o, d))
  <2>1. paid \in Nat
    BY <1>2, <1>7, MaxRepayTyped DEF AtMost
  <2>2. /\ ScaledPayment(o, d, paid) <= reserve[d].borrowed_principal
        /\ reserve' = [reserve EXCEPT ![d].borrowed_principal = @ - ScaledPayment(o, d, paid),
                                      ![d].available_liquidity = @ + paid]
    BY <1>7 DEF Liquidate
  <2> HIDE DEF paid
  <2> QED
    BY <1>1, <2>1, <2>2, PaymentKeepsRate, KeptRateHolds
<1>8. ASSUME NEW o \in Owners, NEW r \in Reserves, AbsorbBadDebt(o, r)
      PROVE  RateHolds(q)
  <2>1. q # r
    BY <1>8 DEF Absorbs
  <2>2. reserve'[q] = reserve[q]
    BY <1>8, <2>1, ReserveTyped DEF AbsorbBadDebt
  <2> QED
    BY <1>1, <2>2, SameReserveKeepsRate, KeptRateHolds
<1>9. ASSUME NEW r \in Reserves, CollectFees(r)
      PROVE  RateHolds(q)
  BY <1>1, <1>9, FeesKeepRate, KeptRateHolds
<1>10. ASSUME NEW r \in Reserves, Accrue(r)
       PROVE  RateHolds(q)
  BY <1>1, <1>10, AccrueKeepsRate, KeptRateHolds
<1>11. ASSUME \/ Tick \/ \E r \in Reserves : RefreshOracle(r)
              \/ \E o \in Owners : RefreshObligation(o)
              \/ \E o \in Owners, r \in Reserves, n \in Amounts :
                   DepositCollateral(o, r, n) \/ WithdrawCollateral(o, r, n)
              \/ \E r \in Reserves : SetConfig(r)
              \/ PauseBorrow \/ PauseAll \/ Unpause
              \/ \E r \in Reserves, n \in OutsideAmounts : Donate(r, n)
              \/ \E r \in Reserves : \E n \in OutsideShares[r] : TokenStep(r, n)
              \/ UNCHANGED vars
       PROVE  RateHolds(q)
  <2>1. UNCHANGED reserve
    <3>1. CASE \/ Tick \/ \E r \in Reserves : RefreshOracle(r) \/ SetConfig(r)
               \/ \E o \in Owners : RefreshObligation(o)
               \/ \E r \in Reserves, n \in OutsideAmounts : Donate(r, n)
               \/ \E r \in Reserves : \E n \in OutsideShares[r] : TokenStep(r, n)
      BY <3>1, TokenStepStays DEF Tick, RefreshOracle, SetConfig, RefreshObligation, Donate
    <3>2. CASE \E o \in Owners, r \in Reserves, n \in Amounts :
                 DepositCollateral(o, r, n) \/ WithdrawCollateral(o, r, n)
      BY <3>2 DEF DepositCollateral, WithdrawCollateral
    <3>3. CASE PauseBorrow \/ PauseAll \/ Unpause \/ UNCHANGED vars
      BY <3>3 DEF PauseBorrow, PauseAll, Unpause, SetPauses, vars
    <3> QED
      BY <1>11, <3>1, <3>2, <3>3
  <2> QED
    BY <1>1, <2>1, SameReserveKeepsRate, KeptRateHolds
<1> QED
  BY <1>3, <1>4, <1>5, <1>6, <1>7, <1>8, <1>9, <1>10, <1>11 DEF Next, TokenStep

\* Whatever the rounding of an instruction, the rate at which shares are
\* redeemed does not fall: only a write-off costs the holders (INV-05).
THEOREM SharePriceHolds == Spec => SharePriceNeverFalls
<1>1. ASSUME LendingInv, [Next]_vars, NEW q \in Reserves
      PROVE  \/ Absorbs(q)
             \/ reserve[q].share_mint_supply = 0
             \/ reserve'[q].share_mint_supply = 0
             \/ total_liquidity(reserve'[q]) * reserve[q].share_mint_supply
                  >= total_liquidity(reserve[q]) * reserve'[q].share_mint_supply
  <2>1. /\ total_liquidity(reserve[q]) \in Int /\ reserve[q].share_mint_supply \in Nat
        /\ total_liquidity(reserve'[q]) \in Int /\ reserve'[q].share_mint_supply \in Nat
    BY <1>1, LendingInvStep, TotalInt DEF LendingInv, TypeOK, ReserveType
  <2> QED
    BY <1>1, <2>1, RateStep DEF RateHolds
<1>2. LendingInv /\ [Next]_vars
        => [\A r \in Reserves :
              \/ Absorbs(r)
              \/ reserve[r].share_mint_supply = 0
              \/ reserve'[r].share_mint_supply = 0
              \/ total_liquidity(reserve'[r]) * reserve[r].share_mint_supply
                   >= total_liquidity(reserve[r]) * reserve'[r].share_mint_supply]_vars
  BY <1>1
<1> QED
  BY <1>2, LendingInvariant, PTL DEF Spec, SharePriceNeverFalls

\* The fees booked stay within the reserve's assets until a write-off, so
\* total_liquidity does not underflow and supply and withdraw stay open.
THEOREM FeesAreCovered == Spec => FeesStayCovered
<1>1. ASSUME LendingInv, [Next]_vars, NEW q \in Reserves,
             FeesCovered(q), ~ Absorbs(q)
      PROVE  FeesCovered(q)'
  <2>1. RateHolds(q)
    BY <1>1, RateStep
  <2>2. /\ reserve[q] \in ReserveType /\ reserve'[q] \in ReserveType
    BY <1>1, LendingInvStep DEF LendingInv, TypeOK
  <2>3. /\ gross_liquidity(reserve[q]) \in Nat /\ reserve[q].accrued_fees \in Nat
        /\ gross_liquidity(reserve'[q]) \in Nat /\ reserve'[q].accrued_fees \in Nat
    BY <2>2, UtilizationNat DEF ReserveType
  <2> QED
    BY <1>1, <2>1, <2>3 DEF RateHolds, total_liquidity, FeesCovered
<1>2. LendingInv /\ [Next]_vars
        => [\A r \in Reserves : FeesCovered(r) /\ ~ Absorbs(r) => FeesCovered(r)']_vars
  BY <1>1
<1> QED
  BY <1>2, LendingInvariant, PTL DEF Spec, FeesStayCovered

-------------------------------------------------------------------------------
\* The cached values of an obligation.

\* What a refreshed obligation touches has been accrued, and none was refreshed in
\* a slot to come.
CachesAccrued ==
  \A o \in Owners :
    /\ obligation[o].last_update_slot <= slot
    /\ Refreshed(o) => \A r \in Touched(o) : Accrued(r)

\* A reserve once accrued in the slot stays so, and accruing it again does nothing.
LEMMA AccruedStays ==
  ASSUME LendingInv, [Next]_vars, slot' = slot, NEW r \in Reserves, Accrued(r)
  PROVE  Accrued(r)' /\ reserve'[r].borrow_index = reserve[r].borrow_index
<1>1. reserve \in [Reserves -> ReserveType] /\ slot \in Nat
  BY DEF LendingInv, TypeOK
<1>2. ASSUME NEW q \in Reserves, Accrue(q)
      PROVE  Accrued(r)' /\ reserve'[r].borrow_index = reserve[r].borrow_index
  <2>1. reserve' = [reserve EXCEPT ![q] = accrue_interest(reserve[q], config[q], slot)]
    BY <1>2 DEF Accrue
  <2>2. CASE q # r
    BY <1>1, <2>1, <2>2 DEF Accrued
  <2>3. CASE q = r
    <3>1. ~ OwesInterest(reserve[r], slot)
      BY <1>1 DEF OwesInterest, Accrued
    <3>2. reserve'[r] = [reserve[r] EXCEPT !.last_update_slot = slot]
      BY <1>1, <2>1, <2>3, <3>1 DEF accrue_interest
    <3> QED
      BY <1>1, <3>2 DEF Accrued, ReserveType
  <2> QED
    BY <2>2, <2>3
<1>3. CASE \A q \in Reserves : ~ Accrue(q)
  <2>1. reserve'[r].last_update_slot = reserve[r].last_update_slot
    <3>1. ASSUME NEW w, NEW q \in Reserves, NEW n, Supply(w, q, n) \/ Withdraw(w, q, n)
          PROVE  reserve'[r].last_update_slot = reserve[r].last_update_slot
      BY <1>1, <3>1 DEF Supply, Withdraw, ReserveType
    <3>2. ASSUME NEW o, NEW q \in Reserves, NEW n,
                 DepositCollateral(o, q, n) \/ WithdrawCollateral(o, q, n)
          PROVE  reserve'[r].last_update_slot = reserve[r].last_update_slot
      BY <3>2 DEF DepositCollateral, WithdrawCollateral
    <3>3. ASSUME NEW o, NEW q \in Reserves, NEW n, Borrow(o, q, n) \/ Repay(o, q, n)
          PROVE  reserve'[r].last_update_slot = reserve[r].last_update_slot
      <4>1. CASE Borrow(o, q, n)
        BY <1>1, <4>1 DEF Borrow, ReserveType
      <4>2. CASE Repay(o, q, n)
        BY <1>1, <4>2 DEF Repay, ReserveType
      <4> QED
        BY <3>3, <4>1, <4>2
    <3>4. ASSUME NEW w, NEW o, NEW d \in Reserves, NEW c, NEW n, Liquidate(w, o, d, c, n)
          PROVE  reserve'[r].last_update_slot = reserve[r].last_update_slot
      BY <1>1, <3>4 DEF Liquidate, ReserveType
    <3>5. ASSUME NEW o, NEW q \in Reserves, AbsorbBadDebt(o, q)
          PROVE  reserve'[r].last_update_slot = reserve[r].last_update_slot
      BY <1>1, <3>5 DEF AbsorbBadDebt, ReserveType
    <3>6. ASSUME NEW q \in Reserves, CollectFees(q)
          PROVE  reserve'[r].last_update_slot = reserve[r].last_update_slot
      BY <1>1, <3>6 DEF CollectFees, ReserveType
    <3>7. ASSUME NEW o, RefreshObligation(o)
          PROVE  reserve'[r].last_update_slot = reserve[r].last_update_slot
      BY <3>7 DEF RefreshObligation
    <3> QED
      BY <1>3, <3>1, <3>2, <3>3, <3>4, <3>5, <3>6, <3>7, OutsideStepsKeep
         DEF Next, TokenStep
  <2> QED
    BY <1>3, <2>1, OnlyAccrueMovesIndex DEF Accrued
<1> QED
  BY <1>2, <1>3

\* What refresh_obligation stores.
LEMMA RefreshStores ==
  ASSUME LendingInv, NEW o \in Owners, RefreshObligation(o)
  PROVE  /\ UNCHANGED <<config, reserve, oracle, slot>>
         /\ \A p \in Owners \ {o} : obligation'[p] = obligation[p]
         /\ obligation'[o].deposits = obligation[o].deposits
         /\ obligation'[o].borrows = obligation[o].borrows
         /\ obligation'[o].last_update_slot = slot
         /\ obligation'[o].borrowed_value = BorrowedValue(o)
         /\ obligation'[o].allowed_borrow_value = AllowedValue(o)
         /\ obligation'[o].unhealthy_borrow_value = UnhealthyValue(o)
         /\ obligation'[o].prices_stressed = Stressed(o)
<1> DEFINE debts == BorrowedValue(o)
           limit == AllowedValue(o)
           line == UnhealthyValue(o)
           stressed == Stressed(o)
           seen == [obligation[o] EXCEPT !.borrowed_value = debts,
                                         !.allowed_borrow_value = limit,
                                         !.unhealthy_borrow_value = line,
                                         !.prices_stressed = stressed,
                                         !.last_update_slot = slot,
                                         !.stale = FALSE]
<1>1. obligation' = [obligation EXCEPT ![o].borrowed_value = debts,
                                       ![o].allowed_borrow_value = limit,
                                       ![o].unhealthy_borrow_value = line,
                                       ![o].prices_stressed = stressed,
                                       ![o].last_update_slot = slot,
                                       ![o].stale = FALSE]
  BY DEF RefreshObligation
<1>2. UNCHANGED <<config, reserve, oracle, slot>>
  BY DEF RefreshObligation
<1> HIDE DEF debts, limit, line, stressed
<1>3. obligation \in [Owners -> ObligationType]
  BY DEF LendingInv, TypeOK
<1>4. obligation' = [obligation EXCEPT ![o] = seen]
  BY <1>1, <1>3
<1>5. /\ seen.deposits = obligation[o].deposits
      /\ seen.borrows = obligation[o].borrows
      /\ seen.last_update_slot = slot
      /\ seen.borrowed_value = debts
      /\ seen.allowed_borrow_value = limit
      /\ seen.unhealthy_borrow_value = line
      /\ seen.prices_stressed = stressed
  BY <1>3 DEF ObligationType
<1> HIDE DEF seen
<1> QED
  BY <1>2, <1>3, <1>4, <1>5 DEF debts, limit, line, stressed

\* How a step may leave an obligation refreshed: by refreshing it, or by leaving it
\* alone within the slot.
StaysRefreshed(o) ==
  /\ obligation'[o].last_update_slot <= slot'
  /\ Refreshed(o)' => \/ RefreshObligation(o)
                      \/ obligation'[o] = obligation[o] /\ slot' = slot

LEMMA RefreshedAfter ==
  ASSUME LendingInv, CachesAccrued, [Next]_vars, NEW o \in Owners
  PROVE  StaysRefreshed(o)
<1>1. /\ obligation \in [Owners -> ObligationType] /\ slot \in Nat
      /\ obligation[o].last_update_slot \in Nat /\ obligation[o].last_update_slot <= slot
  BY DEF LendingInv, TypeOK, ObligationType, CachesAccrued
<1>2. ASSUME slot' = slot,
             \/ obligation'[o] = obligation[o]
             \/ obligation'[o].stale /\ obligation'[o].last_update_slot = obligation[o].last_update_slot
      PROVE  StaysRefreshed(o)
  BY <1>1, <1>2 DEF StaysRefreshed, Refreshed
<1>3. ASSUME NEW p \in Owners, NEW q \in Reserves, NEW n,
             obligation' = WithDeposit(p, q, n) \/ obligation' = WithDebt(p, q, n), slot' = slot
      PROVE  StaysRefreshed(o)
  <2>1. \/ obligation'[o] = obligation[o]
        \/ obligation'[o].stale /\ obligation'[o].last_update_slot = obligation[o].last_update_slot
    BY <1>1, <1>3 DEF WithDeposit, WithDebt, ObligationType
  <2> QED
    BY <1>2, <1>3, <2>1
<1>4. CASE Tick
  BY <1>1, <1>4 DEF StaysRefreshed, Tick, Refreshed
<1>5. ASSUME NEW p \in Owners, RefreshObligation(p)
      PROVE  StaysRefreshed(o)
  <2>1. CASE p = o
    <3>1. obligation'[o].last_update_slot = slot /\ slot' = slot
      BY <1>5, <2>1, RefreshStores
    <3>2. RefreshObligation(o)
      BY <1>5, <2>1
    <3> QED
      BY <1>1, <3>1, <3>2 DEF StaysRefreshed
  <2>2. CASE p # o
    <3>1. obligation'[o] = obligation[o] /\ slot' = slot
      BY <1>5, <2>2, RefreshStores
    <3> QED
      BY <1>2, <3>1
  <2> QED
    BY <2>1, <2>2
<1>6. ASSUME NEW p \in Owners, NEW q \in Reserves, NEW n \in Amounts,
             DepositCollateral(p, q, n) \/ WithdrawCollateral(p, q, n)
      PROVE  StaysRefreshed(o)
  BY <1>3, <1>6 DEF DepositCollateral, WithdrawCollateral
<1>7. ASSUME NEW p \in Owners, NEW q \in Reserves, NEW n \in Amounts,
             Borrow(p, q, n) \/ Repay(p, q, n)
      PROVE  StaysRefreshed(o)
  BY <1>3, <1>7 DEF Borrow, Repay
<1>8. ASSUME NEW p \in Owners, NEW q \in Reserves, AbsorbBadDebt(p, q)
      PROVE  StaysRefreshed(o)
  BY <1>3, <1>8 DEF AbsorbBadDebt
<1>9. ASSUME NEW w \in Liquidators, NEW p \in Owners, NEW d \in Reserves,
             NEW c \in Reserves, NEW n \in Amounts, Liquidate(w, p, d, c, n)
      PROVE  StaysRefreshed(o)
  <2>1. PICK scaled, seized :
          obligation' = [WithDebt(p, d, scaled) EXCEPT ![p].deposits[c] = @ - seized]
    BY <1>9 DEF Liquidate
  <2>2. slot' = slot
    BY <1>9 DEF Liquidate
  <2>3. \/ obligation'[o] = obligation[o]
        \/ obligation'[o].stale /\ obligation'[o].last_update_slot = obligation[o].last_update_slot
    BY <1>1, <2>1 DEF WithDebt, ObligationType
  <2> QED
    BY <1>2, <2>2, <2>3
<1>10. ASSUME UNCHANGED <<obligation, slot>>
       PROVE  StaysRefreshed(o)
  BY <1>2, <1>10
<1>11. ASSUME NEW r \in Reserves,
              Accrue(r) \/ RefreshOracle(r) \/ CollectFees(r) \/ SetConfig(r)
       PROVE  StaysRefreshed(o)
  BY <1>10, <1>11 DEF Accrue, RefreshOracle, CollectFees, SetConfig
<1>12. ASSUME NEW w \in Suppliers, NEW r \in Reserves, NEW n \in Amounts,
              Supply(w, r, n) \/ Withdraw(w, r, n)
       PROVE  StaysRefreshed(o)
  BY <1>10, <1>12 DEF Supply, Withdraw
<1>13. CASE PauseBorrow \/ PauseAll \/ Unpause \/ UNCHANGED vars
  BY <1>10, <1>13 DEF PauseBorrow, PauseAll, Unpause, SetPauses, vars
<1>14. ASSUME NEW r \in Reserves, NEW n \in OutsideAmounts, Donate(r, n)
       PROVE  StaysRefreshed(o)
  BY <1>10, <1>14 DEF Donate
<1>15. ASSUME NEW r \in Reserves, NEW n \in OutsideShares[r], TokenStep(r, n)
       PROVE  StaysRefreshed(o)
  BY <1>10, <1>15, TokenStepStays
<1> QED
  BY <1>4, <1>5, <1>6, <1>7, <1>8, <1>9, <1>11, <1>12, <1>13, <1>14, <1>15
  DEF Next, TokenStep

LEMMA CachesAccruedStep ==
  ASSUME LendingInv, CachesAccrued, [Next]_vars
  PROVE  CachesAccrued'
<1> SUFFICES ASSUME NEW o \in Owners
             PROVE  /\ obligation'[o].last_update_slot <= slot'
                    /\ Refreshed(o)' => \A r \in Touched(o)' : Accrued(r)'
  BY DEF CachesAccrued
<1>1. CASE RefreshObligation(o)
  <2>1. /\ reserve' = reserve /\ slot' = slot
        /\ \A r \in Touched(o) : Accrued(r)
        /\ obligation'[o].deposits = obligation[o].deposits
        /\ obligation'[o].borrows = obligation[o].borrows
    BY <1>1, RefreshStores DEF RefreshObligation
  <2>2. Touched(o)' = Touched(o)
    BY <2>1 DEF Touched, Entries
  <2>3. \A r \in Touched(o)' : Accrued(r)'
    BY <2>1, <2>2 DEF Accrued
  <2> QED
    BY <2>3, RefreshedAfter DEF StaysRefreshed
<1>2. ASSUME obligation'[o] = obligation[o], slot' = slot, Refreshed(o)'
      PROVE  \A r \in Touched(o)' : Accrued(r)'
  <2>1. Touched(o)' = Touched(o) /\ Refreshed(o) /\ Touched(o) \subseteq Reserves
    BY <1>2 DEF Touched, Entries, Refreshed
  <2>2. \A r \in Touched(o) : Accrued(r)
    BY <2>1 DEF CachesAccrued
  <2> QED
    BY <1>2, <2>1, <2>2, AccruedStays
<1> QED
  BY <1>1, <1>2, RefreshedAfter DEF StaysRefreshed

LEMMA CachesAccruedInit == Init => CachesAccrued
<1> SUFFICES ASSUME Init, NEW o \in Owners
             PROVE  obligation[o].last_update_slot <= slot /\ ~ Refreshed(o)
  BY DEF CachesAccrued
<1>1. obligation[o] = NewObligation /\ slot = 0
  BY DEF Init
<1> QED
  BY <1>1 DEF NewObligation, Refreshed

\* Collateral is share tokens that exist, so its reserve has a supply to divide by.
CollateralHasSupply ==
  \A o \in Owners, r \in Reserves :
    obligation[o].deposits[r] > 0 => reserve[r].share_mint_supply > 0

LEMMA SupplyBehindCollateral ==
  ASSUME LendingInv, MirrorCoversShares
  PROVE  CollateralHasSupply
<1> SUFFICES ASSUME NEW o \in Owners, NEW r \in Reserves, obligation[o].deposits[r] > 0
             PROVE  reserve[r].share_mint_supply > 0
  BY DEF CollateralHasSupply
<1>1. /\ NumWallets \in Nat /\ Wallets = 1..NumWallets
      /\ NumOwners \in Nat /\ Owners = 1..NumOwners
  BY LendingAssumption DEF Wallets, Owners
<1>2. /\ [w \in Wallets |-> wallet[w][r]] \in [1..NumWallets -> Nat]
      /\ [p \in Owners |-> custody[p][r]] \in [1..NumOwners -> Nat]
      /\ fee_shares[r] \in Nat
      /\ reserve[r].share_mint_supply \in Nat
  BY <1>1 DEF LendingInv, TypeOK, ReserveType
<1>3. custody[o][r] > 0
  BY DEF LendingInv, TypeOK, ObligationType, CollateralInCustody
<1>4. InWallets(r) \in Nat
  BY <1>1, <1>2, SumOfNaturals DEF InWallets
<1>5. InCustody(r) \in Nat /\ custody[o][r] <= InCustody(r)
  BY <1>1, <1>2, SumOfNaturals DEF InCustody
<1>6. custody[o][r] \in Nat
  BY DEF LendingInv, TypeOK
<1>7. InWallets(r) + InCustody(r) + fee_shares[r] <= reserve[r].share_mint_supply
  BY HeldTyped DEF LendingInv, MirrorCoversShares
<1> QED
  BY <1>2, <1>3, <1>4, <1>5, <1>6, <1>7

\* What shares of r are worth as collateral, after the haircut.
EffectiveWorth(r, shares) ==
  apply_haircut(
    market_value_floor(shares_to_liquidity_floor(reserve[r], shares),
                       TokenUnit[r], oracle[r].rate),
    config[r].collateral_haircut_bps)

\* The same shares are worth no less after a step that keeps price and configuration
\* and does not lower their rate; and no shares are worth nothing.
LEMMA EffectiveWorthKept ==
  ASSUME LendingInv, LendingInv', NEW r \in Reserves, NEW shares \in Nat,
         shares > 0 =>
           /\ reserve[r].share_mint_supply > 0 /\ reserve'[r].share_mint_supply > 0
           /\ RateHolds(r) /\ oracle'[r].rate = oracle[r].rate /\ config'[r] = config[r]
  PROVE  /\ EffectiveWorth(r, shares) \in Int /\ EffectiveWorth(r, shares)' \in Int
         /\ EffectiveWorth(r, shares) <= EffectiveWorth(r, shares)'
         /\ shares = 0 => EffectiveWorth(r, shares) = 0 /\ EffectiveWorth(r, shares)' = 0
<1>1. /\ oracle[r].rate \in Nat /\ oracle'[r].rate \in Nat
      /\ reserve[r].share_mint_supply \in Nat /\ reserve'[r].share_mint_supply \in Nat
      /\ total_liquidity(reserve[r]) \in Int /\ total_liquidity(reserve'[r]) \in Int
      /\ TokenUnit[r] \in Nat \ {0}
      /\ config[r] \in Configs /\ config'[r] \in Configs
  <2>1. reserve[r] \in ReserveType /\ reserve'[r] \in ReserveType
    BY DEF LendingInv, TypeOK
  <2>2. /\ reserve[r].share_mint_supply \in Nat /\ reserve'[r].share_mint_supply \in Nat
        /\ total_liquidity(reserve[r]) \in Int /\ total_liquidity(reserve'[r]) \in Int
    BY <2>1, TotalInt DEF ReserveType
  <2>3. /\ oracle[r].rate \in Nat /\ oracle'[r].rate \in Nat
        /\ config[r] \in Configs /\ config'[r] \in Configs
    BY DEF LendingInv, TypeOK, OracleType
  <2> QED
    BY <2>2, <2>3, LendingAssumption
<1> DEFINE worth == shares_to_liquidity_floor(reserve[r], shares)
           worth2 == shares_to_liquidity_floor(reserve'[r], shares)
           kept == BPS_DENOMINATOR - config[r].collateral_haircut_bps
           kept2 == BPS_DENOMINATOR - config'[r].collateral_haircut_bps
<1>2. kept \in Nat /\ kept2 \in Nat /\ BPS_DENOMINATOR \in Nat \ {0}
  BY <1>1, LendingAssumption, ScaleAssumption DEF ValidConfig, ReserveConfigType
<1>3. /\ EffectiveWorth(r, shares)
           = mul_div_floor(mul_div_floor(worth, oracle[r].rate, TokenUnit[r]),
                           kept, BPS_DENOMINATOR)
      /\ EffectiveWorth(r, shares)'
           = mul_div_floor(mul_div_floor(worth2, oracle'[r].rate, TokenUnit[r]),
                           kept2, BPS_DENOMINATOR)
  BY DEF EffectiveWorth, apply_haircut, market_value_floor
<1>4. CASE shares = 0
  <2>1. /\ AtLeast(reserve[r].share_mint_supply, 1) \in Nat \ {0}
        /\ AtLeast(reserve'[r].share_mint_supply, 1) \in Nat \ {0}
    BY <1>1 DEF AtLeast
  <2>2. worth = 0 /\ worth2 = 0
    BY <1>1, <1>4, <2>1, NothingScaled DEF shares_to_liquidity_floor
  <2> HIDE DEF worth, worth2, kept, kept2
  <2>3. /\ mul_div_floor(worth, oracle[r].rate, TokenUnit[r]) = 0
        /\ mul_div_floor(worth2, oracle'[r].rate, TokenUnit[r]) = 0
    BY <1>1, <2>2, NothingScaled
  <2> QED
    BY <1>2, <1>3, <2>3, NothingScaled
<1>5. CASE shares > 0
  <2>1. /\ reserve[r].share_mint_supply \in Nat \ {0}
        /\ reserve'[r].share_mint_supply \in Nat \ {0}
    BY <1>1, <1>5
  <2>2. /\ worth = mul_div_floor(shares, total_liquidity(reserve[r]),
                                 reserve[r].share_mint_supply)
        /\ worth2 = mul_div_floor(shares, total_liquidity(reserve'[r]),
                                  reserve'[r].share_mint_supply)
    BY <2>1 DEF shares_to_liquidity_floor, AtLeast
  <2>3. /\ RateHolds(r)
        /\ oracle'[r].rate = oracle[r].rate
        /\ config'[r] = config[r] /\ kept2 = kept
    BY <1>5
  <2>4. worth <= worth2
    BY <1>1, <2>1, <2>2, <2>3, WorthMonotone DEF RateHolds
  <2>5. worth \in Int /\ worth2 \in Int
    <3>1. /\ shares * total_liquidity(reserve[r]) \in Int
          /\ shares * total_liquidity(reserve'[r]) \in Int
      BY <1>1
    <3> QED
      BY <2>1, <2>2, <3>1, IntQuotient DEF mul_div_floor
  <2> DEFINE value == mul_div_floor(worth, oracle[r].rate, TokenUnit[r])
             value2 == mul_div_floor(worth2, oracle[r].rate, TokenUnit[r])
  <2> HIDE DEF worth, worth2, kept, kept2
  <2>6. value \in Int /\ value2 \in Int /\ value <= value2
    BY <1>1, <2>4, <2>5, FloorMonotoneInt
  <2>7. /\ EffectiveWorth(r, shares) = mul_div_floor(value, kept, BPS_DENOMINATOR)
        /\ EffectiveWorth(r, shares)' = mul_div_floor(value2, kept, BPS_DENOMINATOR)
    BY <1>3, <2>3
  <2> HIDE DEF value, value2
  <2>8. /\ mul_div_floor(value, kept, BPS_DENOMINATOR) \in Int
        /\ mul_div_floor(value2, kept, BPS_DENOMINATOR) \in Int
        /\ mul_div_floor(value, kept, BPS_DENOMINATOR)
             <= mul_div_floor(value2, kept, BPS_DENOMINATOR)
    BY <1>2, <2>6, FloorMonotoneInt
  <2> QED
    BY <1>5, <2>7, <2>8
<1> QED
  BY <1>4, <1>5

\* What a refresh would find of collateral that is left alone: at the same prices,
\* at share rates no lower and under the same configurations no lower limits.
LEMMA LimitsKept ==
  ASSUME LendingInv, LendingInv', CollateralHasSupply, CollateralHasSupply',
         NEW o \in Owners,
         obligation'[o].deposits = obligation[o].deposits,
         \A r \in Entries(obligation[o].deposits) :
           RateHolds(r) /\ oracle'[r].rate = oracle[r].rate /\ config'[r] = config[r]
  PROVE  /\ AllowedValue(o) \in Int /\ AllowedValue(o)' \in Int
         /\ UnhealthyValue(o) \in Int /\ UnhealthyValue(o)' \in Int
         /\ AllowedValue(o) <= AllowedValue(o)'
         /\ UnhealthyValue(o) <= UnhealthyValue(o)'
<1>1. ASSUME NEW r \in Reserves
      PROVE  obligation[o].deposits[r] \in Nat /\ config[r] \in Configs /\ config'[r] \in Configs
  BY DEF LendingInv, TypeOK, ObligationType
<1>2. ASSUME NEW r \in Reserves
      PROVE  /\ EffectiveValue(o, r) \in Int /\ EffectiveValue(o, r)' \in Int
             /\ EffectiveValue(o, r) <= EffectiveValue(o, r)'
             /\ \/ config'[r] = config[r]
                \/ EffectiveValue(o, r) = 0 /\ EffectiveValue(o, r)' = 0
  <2>1. ASSUME NEW shares \in Nat, shares = obligation[o].deposits[r]
        PROVE  /\ EffectiveValue(o, r) = EffectiveWorth(r, shares)
               /\ EffectiveValue(o, r)' = EffectiveWorth(r, shares)'
    BY <2>1 DEF EffectiveValue, EffectiveWorth
  <2>2. ASSUME NEW shares \in Nat, shares = obligation[o].deposits[r]
        PROVE  /\ EffectiveWorth(r, shares) \in Int /\ EffectiveWorth(r, shares)' \in Int
               /\ EffectiveWorth(r, shares) <= EffectiveWorth(r, shares)'
               /\ \/ config'[r] = config[r]
                  \/ EffectiveWorth(r, shares) = 0 /\ EffectiveWorth(r, shares)' = 0
    <3>1. shares > 0 =>
            /\ reserve[r].share_mint_supply > 0 /\ reserve'[r].share_mint_supply > 0
            /\ RateHolds(r) /\ oracle'[r].rate = oracle[r].rate /\ config'[r] = config[r]
      BY <2>2 DEF CollateralHasSupply, Entries
    <3>2. shares = 0 \/ shares > 0
      OBVIOUS
    <3> QED
      BY <3>1, <3>2, EffectiveWorthKept
  <2> QED
    BY <1>1, <2>1, <2>2
<1>3. NumReserves \in Nat /\ Reserves = 1..NumReserves
  BY LendingAssumption DEF Reserves
<1>4. ASSUME NEW weight \in [Reserves -> Nat], NEW weight2 \in [Reserves -> Nat],
             \A r \in Reserves : config'[r] = config[r] => weight2[r] = weight[r]
      PROVE  LET now == SumTo([r \in Reserves |->
                                 mul_div_floor(EffectiveValue(o, r), weight[r],
                                               BPS_DENOMINATOR)], NumReserves)
                 next == SumTo([r \in Reserves |->
                                  mul_div_floor(EffectiveValue(o, r)', weight2[r],
                                                BPS_DENOMINATOR)], NumReserves)
             IN  now \in Int /\ next \in Int /\ now <= next
  <2> DEFINE f == [r \in Reserves |-> mul_div_floor(EffectiveValue(o, r), weight[r],
                                                    BPS_DENOMINATOR)]
             g == [r \in Reserves |-> mul_div_floor(EffectiveValue(o, r)', weight2[r],
                                                    BPS_DENOMINATOR)]
  <2>1. ASSUME NEW r \in Reserves
        PROVE  f[r] \in Int /\ g[r] \in Int /\ f[r] <= g[r]
    <3>1. CASE config'[r] = config[r]
      BY <1>2, <1>4, <3>1, ScaleAssumption, FloorMonotoneInt
    <3>2. CASE EffectiveValue(o, r) = 0 /\ EffectiveValue(o, r)' = 0
      BY <3>2, ScaleAssumption, NothingScaled
    <3> QED
      BY <1>2, <3>1, <3>2
  <2>2. f \in [1..NumReserves -> Int] /\ g \in [1..NumReserves -> Int]
    BY <1>3, <2>1
  <2> HIDE DEF f, g
  <2>3. SumTo(f, NumReserves) <= SumTo(g, NumReserves)
    BY <1>3, <2>1, <2>2, SumsOrdered
  <2>4. SumTo(f, NumReserves) \in Int /\ SumTo(g, NumReserves) \in Int
    BY <1>3, <2>2, PartialSumsAccumulates
  <2> QED
    BY <2>3, <2>4 DEF f, g
<1> DEFINE ltv == [r \in Reserves |-> config[r].loan_to_value_bps]
           ltv2 == [r \in Reserves |-> config'[r].loan_to_value_bps]
           threshold == [r \in Reserves |-> config[r].liquidation_threshold_bps]
           threshold2 == [r \in Reserves |-> config'[r].liquidation_threshold_bps]
<1>5. /\ ltv \in [Reserves -> Nat] /\ ltv2 \in [Reserves -> Nat]
      /\ threshold \in [Reserves -> Nat] /\ threshold2 \in [Reserves -> Nat]
      /\ \A r \in Reserves : config'[r] = config[r] =>
           ltv2[r] = ltv[r] /\ threshold2[r] = threshold[r]
  BY <1>1, LendingAssumption DEF ValidConfig, ReserveConfigType
<1>6. /\ AllowedValue(o)
           = SumTo([r \in Reserves |-> mul_div_floor(EffectiveValue(o, r), ltv[r],
                                                    BPS_DENOMINATOR)], NumReserves)
      /\ AllowedValue(o)'
           = SumTo([r \in Reserves |-> mul_div_floor(EffectiveValue(o, r)', ltv2[r],
                                                    BPS_DENOMINATOR)], NumReserves)
  BY DEF AllowedValue
<1>7. /\ UnhealthyValue(o)
           = SumTo([r \in Reserves |-> mul_div_floor(EffectiveValue(o, r), threshold[r],
                                                    BPS_DENOMINATOR)], NumReserves)
      /\ UnhealthyValue(o)'
           = SumTo([r \in Reserves |-> mul_div_floor(EffectiveValue(o, r)', threshold2[r],
                                                    BPS_DENOMINATOR)], NumReserves)
  BY DEF UnhealthyValue
<1> HIDE DEF ltv, ltv2, threshold, threshold2
<1>8. /\ AllowedValue(o) \in Int /\ AllowedValue(o)' \in Int
       /\ AllowedValue(o) <= AllowedValue(o)'
  BY <1>4, <1>5, <1>6
<1>9. /\ UnhealthyValue(o) \in Int /\ UnhealthyValue(o)' \in Int
       /\ UnhealthyValue(o) <= UnhealthyValue(o)'
  BY <1>4, <1>5, <1>7
<1> QED
  BY <1>8, <1>9

\* What a refresh would find of a position that keeps its entries: at the same
\* rates and indices the same debt, and at share rates no lower and under the same
\* configurations no lower limits.
LEMMA ValuesKept ==
  ASSUME LendingInv, LendingInv', CollateralHasSupply, CollateralHasSupply',
         NEW o \in Owners,
         obligation'[o].deposits = obligation[o].deposits,
         obligation'[o].borrows = obligation[o].borrows,
         \A r \in Touched(o) : oracle'[r].rate = oracle[r].rate,
         \A r \in Touched(o) : reserve'[r].borrow_index = reserve[r].borrow_index,
         \A r \in Entries(obligation[o].deposits) :
           RateHolds(r) /\ config'[r] = config[r]
  PROVE  /\ BorrowedValue(o)' = BorrowedValue(o)
         /\ AllowedValue(o) \in Int /\ AllowedValue(o)' \in Int
         /\ UnhealthyValue(o) \in Int /\ UnhealthyValue(o)' \in Int
         /\ AllowedValue(o) <= AllowedValue(o)'
         /\ UnhealthyValue(o) <= UnhealthyValue(o)'
<1>1. ASSUME NEW r \in Reserves
      PROVE  /\ obligation[o].borrows[r] \in Nat
             /\ oracle[r].rate \in Nat /\ oracle'[r].rate \in Nat
             /\ reserve[r].borrow_index \in Nat /\ reserve'[r].borrow_index \in Nat
             /\ TokenUnit[r] \in Nat \ {0}
  BY LendingAssumption DEF LendingInv, TypeOK, ReserveType, ObligationType, OracleType
<1>2. ASSUME NEW r \in Reserves
      PROVE  market_value_ceil(Debt(o, r)', TokenUnit[r], oracle'[r].rate)
               = market_value_ceil(Debt(o, r), TokenUnit[r], oracle[r].rate)
  <2>1. CASE obligation[o].borrows[r] > 0
    BY <2>1 DEF Touched, Entries, Debt
  <2>2. CASE obligation[o].borrows[r] = 0
    <3>1. Debt(o, r) = 0 /\ Debt(o, r)' = 0
      BY <1>1, <2>2, NothingScaled, ScaleAssumption DEF Debt, debt_at
    <3> QED
      BY <1>1, <3>1, NothingScaled DEF market_value_ceil
  <2> QED
    BY <1>1, <2>1, <2>2
<1>3. BorrowedValue(o)' = BorrowedValue(o)
  BY <1>2 DEF BorrowedValue
<1>4. \A r \in Entries(obligation[o].deposits) :
        RateHolds(r) /\ oracle'[r].rate = oracle[r].rate /\ config'[r] = config[r]
  BY DEF Touched
<1> QED
  BY <1>3, <1>4, LimitsKept

\* One step: a position left alone keeps values at least as good, and a refreshed
\* one has the values of now.
LEMMA CachedStep ==
  ASSUME LendingInv, CollateralHasSupply, CollateralHasSupply', CachesAccrued,
         [Next]_vars, NEW o \in Owners,
         Refreshed(o) => Unflattering(o), Refreshed(o)', ~ Revalued(o)
  PROVE  Unflattering(o)'
<1>1. LendingInv'
  BY LendingInvStep
<1>2. CASE RefreshObligation(o)
  <2>1. /\ AllowedValue(o) \in Nat /\ UnhealthyValue(o) \in Nat
    BY <1>2, ValuationTyped DEF RefreshObligation, LendingInv
  <2>2. /\ UNCHANGED <<config, reserve, oracle>>
        /\ obligation'[o].deposits = obligation[o].deposits
        /\ obligation'[o].borrows = obligation[o].borrows
        /\ obligation'[o].borrowed_value = BorrowedValue(o)
        /\ obligation'[o].allowed_borrow_value = AllowedValue(o)
        /\ obligation'[o].unhealthy_borrow_value = UnhealthyValue(o)
    BY <1>2, RefreshStores
  <2>3. \A r \in Reserves : EffectiveValue(o, r)' = EffectiveValue(o, r) /\ Debt(o, r)' = Debt(o, r)
    BY <2>2 DEF EffectiveValue, Debt
  <2>4. /\ BorrowedValue(o)' = BorrowedValue(o)
        /\ AllowedValue(o)' = AllowedValue(o)
        /\ UnhealthyValue(o)' = UnhealthyValue(o)
    BY <2>2, <2>3 DEF BorrowedValue, AllowedValue, UnhealthyValue
  <2> QED
    BY <2>1, <2>2, <2>4 DEF Unflattering
<1>3. CASE obligation'[o] = obligation[o] /\ slot' = slot
  <2>1. Refreshed(o)
    BY <1>3 DEF Refreshed
  <2>2. \A r \in Touched(o) : r \in Reserves /\ Accrued(r)
    BY <2>1 DEF CachesAccrued, Touched, Entries
  <2>3. \A r \in Touched(o) : reserve'[r].borrow_index = reserve[r].borrow_index
    BY <1>3, <2>2, AccruedStays
  <2>4. \A r \in Touched(o) : oracle'[r].rate = oracle[r].rate
    BY DEF Revalued
  <2>5. \A r \in Entries(obligation[o].deposits) :
          RateHolds(r) /\ config'[r] = config[r]
    BY <2>2, RateStep DEF Revalued, Touched
  <2>6. /\ BorrowedValue(o)' = BorrowedValue(o)
        /\ AllowedValue(o) \in Int /\ AllowedValue(o)' \in Int
        /\ UnhealthyValue(o) \in Int /\ UnhealthyValue(o)' \in Int
        /\ AllowedValue(o) <= AllowedValue(o)' /\ UnhealthyValue(o) <= UnhealthyValue(o)'
    BY <1>1, <1>3, <2>3, <2>4, <2>5, ValuesKept
  <2>7. /\ obligation[o].allowed_borrow_value \in Int
        /\ obligation[o].unhealthy_borrow_value \in Int
    BY DEF LendingInv, TypeOK, ObligationType
  <2> QED
    BY <1>3, <2>1, <2>6, <2>7 DEF Unflattering
<1> QED
  BY <1>2, <1>3, RefreshedAfter DEF StaysRefreshed

\* One step: the flag of a position left alone hides no frozen oracle unless one has
\* just been frozen, and a refresh takes the flag from the oracles of now.
LEMMA StressStep ==
  ASSUME LendingInv, CachesAccrued, [Next]_vars, NEW o \in Owners,
         Refreshed(o) => StressSeen(o), Refreshed(o)', ~ Frozen(o)
  PROVE  StressSeen(o)'
<1>1. CASE RefreshObligation(o)
  <2>1. /\ oracle' = oracle
        /\ obligation'[o].deposits = obligation[o].deposits
        /\ obligation'[o].borrows = obligation[o].borrows
        /\ obligation'[o].prices_stressed = Stressed(o)
    BY <1>1, RefreshStores
  <2>2. Touched(o)' = Touched(o)
    BY <2>1 DEF Touched, Entries
  <2> QED
    BY <2>1, <2>2 DEF StressSeen, Stressed
<1>2. CASE obligation'[o] = obligation[o] /\ slot' = slot
  <2>1. StressSeen(o) /\ Touched(o)' = Touched(o)
    BY <1>2 DEF Refreshed, Touched, Entries
  <2> QED
    BY <1>2, <2>1 DEF StressSeen, Frozen
<1> QED
  BY <1>1, <1>2, RefreshedAfter DEF StaysRefreshed

\* A refreshed obligation's cached values flatter nobody until, within the slot, a
\* price moves, its collateral's reserve is reconfigured, or a debt is written off
\* there; and its flag hides no frozen oracle until one is frozen within the slot.
THEOREM CachedValuesAlwaysHold == Spec => CachedValuesHold
<1>1. LendingInv /\ MirrorCoversShares => CollateralHasSupply
  BY SupplyBehindCollateral
<1>2. LendingInv /\ CachesAccrued /\ [Next]_vars => CachesAccrued'
  BY CachesAccruedStep
<1>3. LendingInv /\ CollateralHasSupply /\ CollateralHasSupply' /\ CachesAccrued /\ [Next]_vars
        => [\A o \in Owners : Refreshed(o)' =>
              /\ (Refreshed(o) => Unflattering(o)) /\ ~ Revalued(o) => Unflattering(o)'
              /\ (Refreshed(o) => StressSeen(o)) /\ ~ Frozen(o) => StressSeen(o)']_vars
  BY CachedStep, StressStep
<1> QED
  BY <1>1, <1>2, <1>3, CachesAccruedInit, LendingInvariant, MirrorAlwaysCoversShares, PTL
     DEF Spec, CachedValuesHold

-------------------------------------------------------------------------------
\* A seizure is paid for.

\* What is left to the liquidator of a seizure is what the repayment itself is worth:
\* the protocol's share is clamped to the bonus and floored.
LEMMA SplitLeavesWorth ==
  ASSUME NEW seized \in Nat, NEW bonus \in Nat, NEW share \in Nat
  PROVE  split_seized_shares(seized, bonus, share).liquidator * (BPS_DENOMINATOR + bonus)
           >= seized * BPS_DENOMINATOR
<1> DEFINE part == AtMost(share, bonus)
           whole == BPS_DENOMINATOR + bonus
           protocol == protocol_seized_shares(seized, bonus, share)
<1>1. /\ part \in Nat /\ part <= bonus /\ whole \in Nat \ {0}
      /\ BPS_DENOMINATOR \in Nat
  BY ScaleAssumption DEF AtMost
<1>2. protocol \in Nat /\ protocol * whole <= seized * part
  <2> HIDE DEF part, whole
  <2> QED
    BY <1>1, FloorNat DEF protocol_seized_shares, part, whole
<1>3. split_seized_shares(seized, bonus, share).liquidator = seized - protocol
  BY DEF split_seized_shares
<1> HIDE DEF part, protocol
<1>4. seized * part <= seized * bonus
  BY <1>1, ProductNat
<1>5. (seized - protocol) * whole = seized * BPS_DENOMINATOR + (seized * bonus - protocol * whole)
  BY <1>1, <1>2
<1>6. /\ protocol * whole \in Int /\ seized * bonus \in Int /\ seized * part \in Int
      /\ seized * BPS_DENOMINATOR \in Int
  BY <1>1, <1>2
<1> QED
  <2> DEFINE x == protocol * whole
             y == seized * bonus
             z == seized * BPS_DENOMINATOR
             p == seized * part
             g == (seized - protocol) * whole
  <2>1. x <= p /\ p <= y /\ g = z + (y - x) /\ x \in Int /\ y \in Int /\ z \in Int /\ p \in Int
    BY <1>2, <1>4, <1>5, <1>6
  <2> HIDE DEF x, y, z, p, g
  <2>2. g >= z
    BY <2>1
  <2> QED
    BY <1>3, <2>2 DEF g, z

LEMMA SeizureStep ==
  ASSUME LendingInv, CollateralHasSupply,
         NEW w \in Liquidators, NEW o \in Owners, NEW d \in Reserves, NEW c \in Reserves,
         NEW n \in Amounts, Liquidate(w, o, d, c, n)
  PROVE  LET seized == obligation[o].deposits[c] - obligation'[o].deposits[c]
             with_bonus == BPS_DENOMINATOR + config[c].liquidation_bonus_bps
         IN /\ seized * total_liquidity(reserve[c]) * oracle[c].rate * TokenUnit[d]
                   * BPS_DENOMINATOR
                 <= (vault'[d] - vault[d]) * oracle[d].rate * with_bonus
                      * reserve[c].share_mint_supply * TokenUnit[c]
            /\ (wallet'[w][c] - wallet[w][c]) * with_bonus >= seized * BPS_DENOMINATOR
<1> DEFINE paid == AtMost(n, MaxRepay(o, d))
           seized == SeizedShares(d, c, paid)
           gain == split_seized_shares(seized, config[c].liquidation_bonus_bps,
                                       Risk[c].protocol_liquidation_share_bps).liquidator
<1>1. /\ vault' = [vault EXCEPT ![d] = @ + paid]
      /\ wallet' = [wallet EXCEPT ![w][c] = @ + gain]
      /\ seized \in 1..obligation[o].deposits[c]
      /\ obligation[o].deposits[c] > 0
      /\ reserve[c].share_mint_supply > 0 => TotalDefined(reserve[c])
      /\ oracle[c].rate > 0
  BY DEF Liquidate, SeizureDefined, Fresh
<1>2. paid \in Nat
  BY MaxRepayTyped, LendingAssumption DEF AtMost
<1>3. seized \in Nat
  BY <1>1 DEF LendingInv, TypeOK, ObligationType
<1>4. /\ oracle[d].rate \in Nat /\ oracle[c].rate \in Nat \ {0}
      /\ TokenUnit[d] \in Nat \ {0} /\ TokenUnit[c] \in Nat \ {0}
      /\ config[c].liquidation_bonus_bps \in Nat
  BY <1>1, ConfigTyped DEF LendingInv, TypeOK, OracleType
<1>5. reserve[c].share_mint_supply \in Nat \ {0}
  BY <1>1, ReserveTyped DEF CollateralHasSupply
<1>6. total_liquidity(reserve[c]) \in Nat
  BY <1>1, <1>5, ReserveTyped DEF TotalDefined, total_liquidity, gross_liquidity
<1>7. seized * total_liquidity(reserve[c]) * oracle[c].rate * TokenUnit[d] * BPS_DENOMINATOR
        <= paid * oracle[d].rate * (BPS_DENOMINATOR + config[c].liquidation_bonus_bps)
             * reserve[c].share_mint_supply * TokenUnit[c]
  <2> HIDE DEF paid
  <2> QED
    BY <1>2, <1>4, <1>5, <1>6, SeizureWorth DEF SeizedShares
<1>8. /\ gain * (BPS_DENOMINATOR + config[c].liquidation_bonus_bps) >= seized * BPS_DENOMINATOR
      /\ gain \in Nat
  <2>1. Risk[c].protocol_liquidation_share_bps \in Nat
    BY ConfigTyped DEF LendingInv
  <2> HIDE DEF seized
  <2> QED
    BY <1>3, <1>4, <2>1, SplitLeavesWorth, SplitTyped
<1>9. obligation[o].deposits[c] - obligation'[o].deposits[c] = seized
  <2>1. w \in Wallets /\ n \in Nat
    BY LendingAssumption
  <2>2. TradesEntries(o, d, c, paid)
    BY <2>1, LiquidationEntries
  <2>3. obligation'[o].deposits = [obligation[o].deposits EXCEPT ![c] = @ - seized]
    BY <2>2 DEF TradesEntries
  <2> HIDE DEF paid, seized
  <2> QED
    BY <1>3, <2>3 DEF LendingInv, TypeOK, ObligationType
<1> HIDE DEF paid, seized, gain
<1>10. vault'[d] - vault[d] = paid /\ wallet'[w][c] - wallet[w][c] = gain
  <2>1. w \in Wallets
    BY LendingAssumption
  <2> QED
    BY <1>1, <1>2, <1>8, <2>1 DEF LendingInv, TypeOK
<1> QED
  BY <1>7, <1>8, <1>9, <1>10

\* No liquidator seizes shares worth more than the payment and the bonus, at the
\* prices and the share rate of the moment, and the protocol takes the bonus of
\* them at most.
THEOREM SeizureIsBounded == Spec => SeizureBounded
<1>1. LendingInv /\ MirrorCoversShares => CollateralHasSupply
  BY SupplyBehindCollateral
<1>2. LendingInv /\ CollateralHasSupply /\ [Next]_vars
        => [\A w \in Liquidators, o \in Owners, d \in Reserves, c \in Reserves, n \in Amounts :
              Liquidate(w, o, d, c, n) =>
                LET seized == obligation[o].deposits[c] - obligation'[o].deposits[c]
                    with_bonus == BPS_DENOMINATOR + config[c].liquidation_bonus_bps
                IN /\ seized * total_liquidity(reserve[c]) * oracle[c].rate * TokenUnit[d]
                          * BPS_DENOMINATOR
                        <= (vault'[d] - vault[d]) * oracle[d].rate * with_bonus
                             * reserve[c].share_mint_supply * TokenUnit[c]
                   /\ (wallet'[w][c] - wallet[w][c]) * with_bonus
                        >= seized * BPS_DENOMINATOR]_vars
  BY SeizureStep
<1> QED
  BY <1>1, <1>2, LendingInvariant, MirrorAlwaysCoversShares, PTL DEF Spec, SeizureBounded
===============================================================================
