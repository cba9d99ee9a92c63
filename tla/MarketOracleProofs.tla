-------------------------- MODULE MarketOracleProofs ---------------------------
(***************************************************************************)
(* The market breaker for every configuration, every pair of pools and     *)
(* every length of the ring.                                               *)
(*                                                                         *)
(* The average lies between the prices it is taken of, because the newest  *)
(* observation always weighs something; everything the breaker promises    *)
(* about the price is then a matter of one refresh.  The inductive         *)
(* invariant adds to the type what that argument needs of the ring: no     *)
(* observation is of the future.  A price may be nothing; the average is   *)
(* nothing only if some observation is.                                    *)
(***************************************************************************)
EXTENDS MarketOracleProperties, MathProofs, TLAPS

\* A ring that an average can be taken of.
Ring == {ring \in Seq(Observation) : Len(ring) <= OBSERVATION_CAPACITY}

UpTo(ring, time) == \A i \in DOMAIN ring : ring[i].unix_timestamp <= time

\* No observation is of a price that rounded down to nothing.
Costly(ring) == \A i \in DOMAIN ring : ring[i].price > 0

MarketInv ==
  /\ TypeOK
  /\ UpTo(observations, now)
  /\ NewRiskRestsOnHistory
  /\ observations = <<>> => price = 0

-------------------------------------------------------------------------------
\* The history.

\* A nonempty set of times has a latest, if it ends somewhere.
LEMMA LatestExists ==
  ASSUME NEW T, T \subseteq Nat, T # {}, NEW time \in Nat, \A t \in T : t <= time
  PROVE  \E t \in T : \A u \in T : u <= t
<1> DEFINE D == {time - t : t \in T}
<1>1. D \subseteq Nat /\ D # {}
  <2>1. \A t \in T : time - t \in Nat
    OBVIOUS
  <2>2. PICK t \in T : TRUE
    OBVIOUS
  <2>3. time - t \in D
    BY <2>2
  <2> QED
    BY <2>1, <2>3
<1>2. PICK d \in D : \A e \in D : d <= e
  BY <1>1, LeastNatural
<1>3. PICK t \in T : d = time - t
  BY <1>2
<1>4. \A u \in T : time - u \in D /\ time - t <= time - u
  BY <1>2, <1>3
<1>5. \A u \in T : u <= t
  BY <1>4
<1> QED
  BY <1>5

\* Each observation has a price and a time.
LEMMA RingEntries ==
  ASSUME NEW ring \in Ring
  PROVE  /\ Len(ring) \in Nat
         /\ DOMAIN ring = 1..Len(ring)
         /\ \A i \in DOMAIN ring :
              ring[i].price \in Nat /\ ring[i].unix_timestamp \in Nat
         /\ Stamps(ring) \subseteq Nat
         /\ ring # <<>> => Len(ring) > 0 /\ Stamps(ring) # {}
<1>1. ring \in Seq(Observation)
  BY DEF Ring
<1>2. Len(ring) \in Nat /\ DOMAIN ring = 1..Len(ring)
  BY <1>1
<1>3. \A i \in DOMAIN ring : ring[i] \in Observation
  BY <1>1
<1>4. \A i \in DOMAIN ring : ring[i].price \in Nat /\ ring[i].unix_timestamp \in Nat
  BY <1>3 DEF Observation
<1>5. Stamps(ring) \subseteq Nat
  BY <1>4 DEF Stamps
<1>6. ring # <<>> => Len(ring) > 0
  BY <1>1, <1>2
<1>7. ring # <<>> => Stamps(ring) # {}
  BY <1>2, <1>6 DEF Stamps
<1> QED
  BY <1>2, <1>4, <1>5, <1>6, <1>7

\* The newest and the oldest observation of a ring that is not empty.
LEMMA NewestOldest ==
  ASSUME NEW ring \in Ring, ring # <<>>, NEW time \in Nat, UpTo(ring, time)
  PROVE  /\ Newest(ring) \in Stamps(ring)
         /\ \A u \in Stamps(ring) : u <= Newest(ring)
         /\ Oldest(ring) \in Stamps(ring)
         /\ \A u \in Stamps(ring) : Oldest(ring) <= u
         /\ Newest(ring) \in Nat /\ Oldest(ring) \in Nat
         /\ Newest(ring) <= time
         /\ \E i \in DOMAIN ring : ring[i].unix_timestamp = Newest(ring)
<1>1. Stamps(ring) \subseteq Nat /\ Stamps(ring) # {}
  BY RingEntries
<1>2. \A t \in Stamps(ring) : t <= time
  BY DEF Stamps, UpTo
<1>3. \E t \in Stamps(ring) : \A u \in Stamps(ring) : u <= t
  BY <1>1, <1>2, LatestExists
<1>4. \E t \in Stamps(ring) : \A u \in Stamps(ring) : t <= u
  BY <1>1, LeastNatural
<1>5. Newest(ring) \in Stamps(ring) /\ \A u \in Stamps(ring) : u <= Newest(ring)
  BY <1>3, Zenon DEF Newest
<1>6. Oldest(ring) \in Stamps(ring) /\ \A u \in Stamps(ring) : Oldest(ring) <= u
  BY <1>4, Zenon DEF Oldest
<1>7. \E i \in DOMAIN ring : ring[i].unix_timestamp = Newest(ring)
  BY <1>5 DEF Stamps
<1> QED
  BY <1>1, <1>2, <1>5, <1>6, <1>7

\* A weight is a natural, and that of the newest observation is at least a second.
LEMMA WeightNat ==
  ASSUME NEW ring \in Ring, NEW i \in DOMAIN ring, NEW time \in Nat, NEW window \in Nat
  PROVE  /\ Weight(ring, i, time, window) \in Nat
         /\ Later(ring, i) = {} => Weight(ring, i, time, window) >= 1
<1> DEFINE cutoff == saturating_sub(time, window)
           from   == AtLeast(ring[i].unix_timestamp, cutoff)
           later  == Later(ring, i)
           until  == CHOOSE t \in later : \A u \in later : t <= u
<1>1. cutoff \in Nat
  BY DEF saturating_sub
<1>2. from \in Nat
  BY <1>1, RingEntries DEF AtLeast
<1> HIDE DEF cutoff, from
<1>3. CASE later = {}
  <2>1. Weight(ring, i, time, window) = AtLeast(time, from + 1) - from
    BY <1>3 DEF Weight, cutoff, from
  <2> QED
    BY <1>2, <2>1 DEF AtLeast
<1>4. CASE later # {}
  <2>1. later \subseteq Nat
    BY RingEntries DEF Later
  <2>2. \E t \in later : \A u \in later : t <= u
    BY <1>4, <2>1, LeastNatural
  <2>3. until \in later
    BY <2>2, Zenon
  <2>4. Weight(ring, i, time, window) = saturating_sub(AtLeast(until, cutoff), from)
    BY <1>4 DEF Weight, cutoff, from
  <2>5. until \in Nat
    BY <2>1, <2>3
  <2> HIDE DEF until
  <2>6. AtLeast(until, cutoff) \in Nat
    BY <1>1, <2>5 DEF AtLeast
  <2>7. saturating_sub(AtLeast(until, cutoff), from) \in Nat
    BY <1>2, <2>6 DEF saturating_sub
  <2> QED
    BY <1>4, <2>4, <2>7
<1> QED
  BY <1>3, <1>4

-------------------------------------------------------------------------------
\* The average.

LEMMA ProductAtLeast ==
  ASSUME NEW a \in Nat, NEW b \in Nat, a >= 1
  PROVE  b <= a * b
OBVIOUS

\* The average of a ring lies between any two bounds of its prices: the weights
\* cancel, since they do not add up to nothing.
LEMMA TwapBounds ==
  ASSUME NEW ring \in Ring, ring # <<>>, NEW time \in Nat, UpTo(ring, time),
         NEW window \in Nat, NEW lo \in Nat, NEW hi \in Nat,
         \A i \in DOMAIN ring : lo <= ring[i].price /\ ring[i].price <= hi
  PROVE  /\ twap(ring, time, window) \in Nat
         /\ lo <= twap(ring, time, window)
         /\ twap(ring, time, window) <= hi
<1> DEFINE n        == Len(ring)
           weights  == [i \in 1..n |-> Weight(ring, i, time, window)]
           weighted == [i \in 1..n |-> ring[i].price * weights[i]]
           w        == SumTo(weights, n)
           p        == SumTo(weighted, n)
<1>1. n \in Nat /\ DOMAIN ring = 1..n
  BY RingEntries
<1>2. weights \in [1..n -> Nat]
  BY <1>1, WeightNat
<1>3. \A i \in 1..n : weights[i] \in Nat /\ ring[i].price \in Nat /\ weighted[i] = ring[i].price * weights[i]
  BY <1>1, <1>2, RingEntries
<1> HIDE DEF weights
<1>4. weighted \in [1..n -> Nat]
  BY <1>3, ProductNat
<1>5. w \in Nat /\ w >= 1
  <2>1. PICK i \in DOMAIN ring : ring[i].unix_timestamp = Newest(ring)
    BY NewestOldest
  <2>2. \A u \in Stamps(ring) : u <= ring[i].unix_timestamp
    BY <2>1, NewestOldest
  <2>3. ring[i].unix_timestamp \in Nat /\ Stamps(ring) \subseteq Nat
    BY RingEntries
  <2>4. Later(ring, i) = {}
    BY <2>2, <2>3 DEF Later
  <2>5. weights[i] >= 1
    BY <1>1, <2>4, WeightNat DEF weights
  <2>6. w \in Nat /\ weights[i] <= w /\ weights[i] \in Nat
    BY <1>1, <1>2, SumOfNaturals
  <2> QED
    BY <2>5, <2>6
<1>6. p \in Nat
  BY <1>1, <1>4, SumOfNaturals
<1>7. twap(ring, time, window) = p \div w
  BY DEF twap, weights
<1>8. \A i \in 1..n : weighted[i] <= hi * weights[i]
  <2>1. TAKE i \in 1..n
  <2>2. ring[i].price <= hi
    BY <1>1
  <2>3. ring[i].price * weights[i] <= hi * weights[i]
    BY <1>3, <2>2, ProductMonotone
  <2> QED
    BY <1>3, <2>3
<1>9. p <= hi * w
  BY <1>1, <1>2, <1>4, <1>8, SumAtMost
<1>10. lo * w <= p
  <2>1. \A i \in 1..n : lo * weights[i] <= 1 * weighted[i]
    <3>1. TAKE i \in 1..n
    <3>2. lo <= ring[i].price
      BY <1>1
    <3>3. lo * weights[i] <= ring[i].price * weights[i]
      BY <1>3, <3>2, ProductMonotone
    <3> QED
      BY <1>3, <3>3
  <2>2. lo * w <= 1 * p
    <3>1. weights \in [1..n -> Int] /\ weighted \in [1..n -> Int] /\ 1 \in Nat
      BY <1>2, <1>4
    <3> QED
      BY <1>1, <2>1, <3>1, SumsCompared
  <2> QED
    BY <1>6, <2>2
<1> HIDE DEF w, p
<1>11. p \div w \in Nat /\ p \div w <= hi
  BY <1>5, <1>6, <1>9, Quotient, QuotientAtMost
<1>12. lo <= p \div w
  BY <1>5, <1>6, <1>10, QuotientAtLeast
<1> QED
  BY <1>7, <1>11, <1>12

-------------------------------------------------------------------------------
\* The breaker.

LEMMA Restriction ==
  ASSUME NEW age \in Int, NEW cfg
  PROVE  /\ AgeHealth(age, cfg) \in {"Healthy", "RateWarning", "BorrowFrozen"}
         /\ worse("BorrowFrozen", "Healthy") = "BorrowFrozen"
         /\ worse("BorrowFrozen", "Bootstrapping") = "Bootstrapping"
         /\ worse(AgeHealth(age, cfg), "Healthy") = AgeHealth(age, cfg)
         /\ worse(AgeHealth(age, cfg), "Bootstrapping") = "Bootstrapping"
         /\ worse(AgeHealth(age, cfg), "BorrowFrozen") = "BorrowFrozen"
<1>1. AgeHealth(age, cfg) \in {"Healthy", "RateWarning", "BorrowFrozen"}
  BY DEF AgeHealth
<1>2. AgeHealth(age, cfg) = "Healthy" \/ AgeHealth(age, cfg) = "RateWarning"
        \/ AgeHealth(age, cfg) = "BorrowFrozen"
  BY <1>1
<1>3. /\ Severity["Healthy"] = 0 /\ Severity["RateWarning"] = 1
      /\ Severity["BorrowFrozen"] = 2 /\ Severity["Bootstrapping"] = 4
  BY DEF Severity
<1> HIDE DEF Severity
<1> QED
  BY <1>1, <1>2, <1>3 DEF worse

\* What the limit admits is no less than the price, and one step of it at most.
LEMMA CappedRiseBounds ==
  ASSUME NEW current \in Nat \ {0}, NEW cfg \in MarketOracleConfig
  PROVE  /\ CappedRise(current, cfg) \in Nat
         /\ current <= CappedRise(current, cfg)
         /\ \A q \in current..CappedRise(current, cfg) :
              move_bps(current, q) <= cfg.max_rise_bps_per_window
<1> DEFINE rise == cfg.max_rise_bps_per_window
           B == BPS_DENOMINATOR
           capped == CappedRise(current, cfg)
<1>1. rise \in Nat /\ B \in Nat \ {0} /\ B + rise \in Nat
  BY ScaleAssumption DEF MarketOracleConfig
<1> HIDE DEF rise, B
<1>2. capped = mul_div_floor(current, B + rise, B)
  BY DEF CappedRise, rise, B
<1>3. capped \in Nat /\ capped * B <= current * (B + rise)
  BY <1>1, <1>2, FloorNat
<1>4. current <= capped
  BY <1>1, <1>2, FloorGrows
<1>5. \A q \in current..capped : move_bps(current, q) <= rise
  <2>1. TAKE q \in current..capped
  <2>2. q \in Nat /\ q - current \in Nat /\ q <= capped
    BY <1>3
  <2>3. abs_diff(current, q) = q - current
    BY <2>2 DEF abs_diff
  <2>4. (q - current) * B <= rise * current
    <3>1. q * B <= capped * B
      BY <1>1, <1>3, <2>2, ProductMonotone
    <3>2. (q - current) * B = q * B - current * B
      BY <1>1, <2>2
    <3>3. current * (B + rise) = current * B + rise * current
      BY <1>1
    <3>4. /\ q * B \in Nat /\ capped * B \in Nat /\ current * B \in Nat
          /\ rise * current \in Nat
      BY <1>1, <1>3, <2>2, ProductNat
    <3> QED
      BY <1>3, <3>1, <3>2, <3>3, <3>4
  <2>5. (q - current) * B \in Nat
    BY <1>1, <2>2, ProductNat
  <2>6. ((q - current) * B) \div current <= rise
    BY <1>1, <2>4, <2>5, QuotientAtMost
  <2> QED
    BY <2>3, <2>6 DEF move_bps, mul_div_floor, B
<1> QED
  BY <1>3, <1>4, <1>5 DEF rise

\* One judgement: it prices, it never goes past the average, it opens only on a
\* bootstrapped history, and it rises only on sound information and within the
\* limit.
LEMMA VerdictIsSound ==
  ASSUME NEW current \in Nat, NEW average \in Nat, NEW bootstrapped \in BOOLEAN,
         NEW age \in Int, NEW degraded \in BOOLEAN, NEW cfg \in MarketOracleConfig
  PROVE  LET v == evaluate_market(current, average, bootstrapped, age, degraded, cfg) IN
         /\ v.accepted_price \in Nat
         /\ average > 0 => v.accepted_price > 0
         /\ v.health \in OracleHealth
         /\ v.health \in {"Healthy", "RateWarning"} => bootstrapped
         /\ v.accepted_price <= average
         /\ v.accepted_price > current /\ current # 0 =>
              /\ ~ degraded
              /\ move_bps(current, v.accepted_price) <= cfg.max_rise_bps_per_window
<1> DEFINE floor  == IF bootstrapped THEN "Healthy" ELSE "Bootstrapping"
           frozen == worse("BorrowFrozen", floor)
           aged   == worse(AgeHealth(age, cfg), floor)
           v      == evaluate_market(current, average, bootstrapped, age, degraded, cfg)
<1>1. /\ frozen \in {"BorrowFrozen", "Bootstrapping"}
      /\ worse(AgeHealth(age, cfg), frozen) \in {"BorrowFrozen", "Bootstrapping"}
      /\ aged \in {"Healthy", "RateWarning", "BorrowFrozen", "Bootstrapping"}
      /\ aged \in {"Healthy", "RateWarning"} => bootstrapped
  BY Restriction
<1> HIDE DEF frozen, aged
<1>2. CASE current = 0
  <2>1. v = Verdict(average, "Bootstrapping")
    BY <1>2 DEF evaluate_market
  <2> QED
    BY <1>2, <2>1 DEF Verdict, OracleHealth
<1>3. CASE current # 0 /\ average <= current
  <2>1. v = Verdict(average, IF degraded THEN worse(AgeHealth(age, cfg), frozen) ELSE aged)
    BY <1>3 DEF evaluate_market, frozen, aged
  <2> QED
    BY <1>1, <1>3, <2>1 DEF Verdict, OracleHealth
<1>4. CASE current # 0 /\ average > current /\ degraded
  <2>1. v = Verdict(current, frozen)
    BY <1>4 DEF evaluate_market, frozen
  <2>2. v.accepted_price = current /\ v.health = frozen
    BY <2>1 DEF Verdict
  <2>3. ~ (v.accepted_price > current)
    BY <2>2
  <2> HIDE DEF v
  <2>4. v.health \in OracleHealth /\ v.health \notin {"Healthy", "RateWarning"}
    BY <1>1, <2>2 DEF OracleHealth
  <2>5. v.accepted_price \in Nat \ {0} /\ v.accepted_price <= average
    BY <1>4, <2>2
  <2> QED
    BY <2>3, <2>4, <2>5 DEF v
<1>5. CASE current # 0 /\ average > current /\ ~ degraded
  <2>1. v = IF move_bps(current, average) <= cfg.max_rise_bps_per_window
            THEN Verdict(average, aged)
            ELSE Verdict(AtMost(CappedRise(current, cfg), average), frozen)
    BY <1>5 DEF evaluate_market, frozen, aged
  <2>2. CASE move_bps(current, average) <= cfg.max_rise_bps_per_window
    BY <1>1, <1>5, <2>1, <2>2 DEF Verdict, OracleHealth
  <2>3. CASE ~ (move_bps(current, average) <= cfg.max_rise_bps_per_window)
    <3> DEFINE accepted == AtMost(CappedRise(current, cfg), average)
    <3>1. accepted \in current..CappedRise(current, cfg) /\ accepted <= average
      BY <1>5, CappedRiseBounds DEF AtMost
    <3>2. move_bps(current, accepted) <= cfg.max_rise_bps_per_window
      BY <1>5, <3>1, CappedRiseBounds
    <3>3. accepted \in Nat \ {0}
      BY <1>5, <3>1, CappedRiseBounds
    <3> HIDE DEF accepted
    <3>4. v = Verdict(accepted, frozen)
      BY <2>1, <2>3 DEF accepted
    <3> QED
      BY <1>1, <1>5, <3>1, <3>2, <3>3, <3>4 DEF Verdict, OracleHealth
  <2> QED
    BY <2>2, <2>3
<1> QED
  BY <1>2, <1>3, <1>4, <1>5

-------------------------------------------------------------------------------
\* One refresh.

LEMMA PriceOfPools ==
  ASSUME NEW a \in Pools, NEW b \in Pools, Priced(a, b)
  PROVE  /\ spot_price(a) \in Nat
         /\ spot_price(b) \in Nat
         /\ spot_price(a) + spot_price(b) > 0
         /\ CombinedPrice(a, b) \in Nat
<1>1. \A pool \in Pools : Readable(pool) => spot_price(pool) \in Nat
  <2>1. SUFFICES ASSUME NEW pool \in Pools, Readable(pool)
                 PROVE  spot_price(pool) \in Nat
    OBVIOUS
  <2>2. pool.collateral \in Nat \ {0} /\ pool.quote \in Nat \ {0}
    BY <2>1, MarketAssumption DEF PoolState, Readable
  <2>3. /\ pool.quote * FIXED_POINT_SCALE \in Nat
        /\ pool.collateral * QUOTE_UNIT \in Nat \ {0}
        /\ COLLATERAL_UNIT \in Nat
    BY <2>2, MarketAssumption, ScaleAssumption, ProductNat, ProductAtLeast
  <2> QED
    BY <2>3, FloorNat DEF spot_price
<1>2. spot_price(a) \in Nat /\ spot_price(b) \in Nat /\ spot_price(a) + spot_price(b) > 0
  BY <1>1 DEF Priced
<1> QED
  BY <1>2 DEF CombinedPrice, AtMost

LEMMA DeviationNat ==
  ASSUME NEW a \in Pools, NEW b \in Pools, Priced(a, b)
  PROVE  deviation_bps(a, b) \in Nat
<1>1. spot_price(a) \in Nat /\ spot_price(b) \in Nat /\ spot_price(a) + spot_price(b) > 0
  BY PriceOfPools
<1>2. 2 * abs_diff(spot_price(a), spot_price(b)) \in Nat
  BY <1>1 DEF abs_diff
<1>3. spot_price(a) + spot_price(b) \in Nat \ {0}
  BY <1>1
<1>4. BPS_DENOMINATOR \in Nat
  BY ScaleAssumption
<1> QED
  BY <1>2, <1>3, <1>4, FloorNat DEF deviation_bps

LEMMA InvRing ==
  ASSUME MarketInv
  PROVE  /\ observations \in Ring
         /\ now \in Nat \ {0}
         /\ Gap \in Nat
         /\ config \in MarketOracleConfig
         /\ config.twap_window_seconds \in Nat
         /\ observations # <<>> =>
              \A i \in DOMAIN observations : now - observations[i].unix_timestamp >= Gap
<1>1. observations \in Ring /\ now \in Nat \ {0} /\ UpTo(observations, now)
  BY DEF MarketInv, TypeOK, Ring
<1>2. observations # <<>> => Newest(observations) \in Nat /\ Newest(observations) <= now
  BY <1>1, NewestOldest
<1>3. observations # <<>> => \A u \in Stamps(observations) : u <= Newest(observations)
  BY <1>1, NewestOldest
<1>4. Gap \in Nat
  BY <1>1, <1>2 DEF Gap
<1>5. observations # <<>> =>
        \A i \in DOMAIN observations : now - observations[i].unix_timestamp >= Gap
  <2>1. SUFFICES ASSUME observations # <<>>, NEW i \in DOMAIN observations
                 PROVE  now - observations[i].unix_timestamp >= Gap
    OBVIOUS
  <2>2. observations[i].unix_timestamp \in Stamps(observations)
    BY DEF Stamps
  <2>3. observations[i].unix_timestamp \in Nat
    BY <1>1, RingEntries
  <2> QED
    BY <1>1, <1>2, <1>3, <2>1, <2>2, <2>3 DEF Gap
<1>6. config \in MarketOracleConfig
  BY DEF MarketInv, TypeOK
<1> QED
  BY <1>1, <1>4, <1>5, <1>6 DEF MarketOracleConfig

\* The ring after a refresh, whether it has recorded or not.
LEMMA RingAfterSound ==
  ASSUME MarketInv, NEW a \in Pools, NEW b \in Pools, Priced(a, b)
  PROVE  /\ RingAfter(a, b) \in Ring
         /\ UpTo(RingAfter(a, b), now)
         /\ RingAfter(a, b) # <<>>
         /\ NextIndex \in 0..(OBSERVATION_CAPACITY - 1)
         /\ Recorded => now \in Stamps(RingAfter(a, b))
<1> DEFINE reading == [price |-> CombinedPrice(a, b), unix_timestamp |-> now]
           ring == RingAfter(a, b)
<1>1. /\ observations \in Seq(Observation) /\ Len(observations) <= OBSERVATION_CAPACITY
      /\ now \in Nat /\ UpTo(observations, now)
      /\ next_index \in 0..(OBSERVATION_CAPACITY - 1)
  BY DEF MarketInv, TypeOK
<1>2. OBSERVATION_CAPACITY \in Nat \ {0}
  BY MarketAssumption
<1>3. NextIndex \in 0..(OBSERVATION_CAPACITY - 1)
  BY <1>1, <1>2 DEF NextIndex
<1>4. reading \in Observation /\ reading.unix_timestamp = now
  BY <1>1, PriceOfPools DEF Observation
<1> HIDE DEF reading
<1>5. CASE Recorded /\ Len(observations) < OBSERVATION_CAPACITY
  <2>1. ring = Append(observations, reading)
    BY <1>5 DEF RingAfter, Appended, reading
  <2>2. /\ ring \in Seq(Observation) /\ Len(ring) = Len(observations) + 1
        /\ \A i \in 1..Len(observations) : ring[i] = observations[i]
        /\ ring[Len(ring)] = reading
    BY <1>1, <1>4, <2>1
  <2> HIDE DEF ring
  <2>3. Len(observations) \in Nat /\ DOMAIN ring = 1..(Len(observations) + 1)
        /\ DOMAIN observations = 1..Len(observations)
    BY <1>1, <2>2
  <2>4. ring \in Ring /\ ring # <<>>
    BY <1>2, <1>5, <2>2, <2>3 DEF Ring
  <2>5. \A i \in DOMAIN ring : ring[i] = reading \/ (i \in DOMAIN observations /\ ring[i] = observations[i])
    BY <2>2, <2>3
  <2>6. UpTo(ring, now)
    BY <1>1, <1>4, <2>5 DEF UpTo
  <2>7. now \in Stamps(ring)
    BY <1>4, <2>2, <2>3 DEF Stamps
  <2> QED
    BY <1>3, <2>4, <2>6, <2>7 DEF ring
<1>6. CASE Recorded /\ Len(observations) >= OBSERVATION_CAPACITY
  <2>1. ring = [observations EXCEPT ![next_index + 1] = reading]
    BY <1>1, <1>2, <1>6 DEF RingAfter, Appended, reading
  <2>2. Len(observations) = OBSERVATION_CAPACITY
    BY <1>1, <1>2, <1>6
  <2>3. next_index + 1 \in 1..Len(observations) /\ DOMAIN observations = 1..Len(observations)
    BY <1>1, <1>2, <2>2
  <2>4. /\ ring \in Seq(Observation) /\ Len(ring) = Len(observations)
        /\ \A i \in 1..Len(observations) : i # next_index + 1 => ring[i] = observations[i]
        /\ ring[next_index + 1] = reading
    BY <1>1, <1>4, <2>1, <2>3
  <2> HIDE DEF ring
  <2>5. DOMAIN ring = 1..Len(observations)
    BY <2>4
  <2>6. ring \in Ring /\ ring # <<>>
    BY <1>2, <2>2, <2>4 DEF Ring
  <2>7. \A i \in DOMAIN ring : ring[i] = reading \/ (i \in DOMAIN observations /\ ring[i] = observations[i])
    BY <2>3, <2>4, <2>5
  <2>8. UpTo(ring, now)
    BY <1>1, <1>4, <2>7 DEF UpTo
  <2>9. now \in Stamps(ring)
    BY <1>4, <2>3, <2>4, <2>5 DEF Stamps
  <2> QED
    BY <1>3, <2>6, <2>8, <2>9 DEF ring
<1>7. CASE ~ Recorded
  <2>1. ring = observations
    BY <1>7 DEF RingAfter
  <2>2. observations # <<>>
    BY <1>7 DEF Recorded
  <2> QED
    BY <1>1, <1>3, <1>7, <2>1, <2>2 DEF Ring
<1>8. Len(observations) < OBSERVATION_CAPACITY \/ Len(observations) >= OBSERVATION_CAPACITY
  BY <1>1, <1>2
<1> QED
  BY <1>5, <1>6, <1>7, <1>8

\* The average is a price, some observation is at least as high, and it is nothing
\* only if some observation is.
LEMMA TwapIsSeen ==
  ASSUME NEW ring \in Ring, ring # <<>>, NEW time \in Nat, UpTo(ring, time),
         NEW window \in Nat
  PROVE  /\ twap(ring, time, window) \in Nat
         /\ Costly(ring) => twap(ring, time, window) > 0
         /\ \E i \in DOMAIN ring : twap(ring, time, window) <= ring[i].price
<1> DEFINE n      == Len(ring)
           prices == [i \in 1..n |-> ring[i].price]
           total  == SumTo(prices, n)
           mean   == twap(ring, time, window)
<1>1. n \in Nat /\ DOMAIN ring = 1..n /\ \A i \in 1..n : ring[i].price \in Nat
  BY RingEntries
<1>2. prices \in [1..n -> Nat]
  BY <1>1
<1>3. total \in Nat /\ \A i \in 1..n : prices[i] <= total
  BY <1>1, <1>2, SumOfNaturals
<1>4. \A i \in DOMAIN ring : 0 <= ring[i].price /\ ring[i].price <= total
  BY <1>1, <1>3
<1> HIDE DEF total, mean
<1>5. mean \in Nat
  BY <1>3, <1>4, TwapBounds DEF mean
<1>7. ASSUME Costly(ring) PROVE mean >= 1
  <2>1. \A i \in DOMAIN ring : 1 <= ring[i].price /\ ring[i].price <= total
    BY <1>1, <1>4, <1>7 DEF Costly
  <2> QED
    BY <1>3, <2>1, TwapBounds DEF mean
<1>6. ASSUME \A i \in DOMAIN ring : ~ (mean <= ring[i].price)
      PROVE  FALSE
  <2>1. \A i \in DOMAIN ring : 0 <= ring[i].price /\ ring[i].price <= mean - 1
    BY <1>1, <1>5, <1>6
  <2>2. mean - 1 \in Nat
    <3>1. 1 \in DOMAIN ring
      BY <1>1, RingEntries
    <3> QED
      BY <1>1, <1>5, <2>1, <3>1
  <2>3. mean <= mean - 1
    BY <2>1, <2>2, TwapBounds DEF mean
  <2> QED
    BY <1>5, <2>3
<1> QED
  BY <1>5, <1>6, <1>7 DEF mean

LEMMA RefreshIsSound ==
  ASSUME MarketInv, NEW a \in Pools, NEW b \in Pools, RefreshMarketOracle(a, b)
  PROVE  /\ observations' = RingAfter(a, b)
         /\ observations' \in Ring /\ observations' # <<>>
         /\ UpTo(observations', now)
         /\ price' \in Nat
         /\ Costly(observations') => price' > 0
         /\ price' <= twap(observations', now, config.twap_window_seconds)
         /\ \E i \in DOMAIN observations' : price' <= observations'[i].price
         /\ health' \in OracleHealth
         /\ health' \in {"Healthy", "RateWarning"} => is_bootstrapped(observations', config)
         /\ price # 0 /\ price' > price =>
              /\ Recorded
              /\ ~ Degraded(a, b, config)
              /\ move_bps(price, price') <= config.max_rise_bps_per_window
<1> DEFINE ring     == observations'
           mean     == twap(ring, now, config.twap_window_seconds)
           enough   == is_bootstrapped(ring, config)
           degraded == Degraded(a, b, config)
           verdict  == evaluate_market(price, mean, enough, Gap, degraded, config)
<1>1. Priced(a, b) /\ ring = RingAfter(a, b)
  BY DEF RefreshMarketOracle
<1>2. ring \in Ring /\ ring # <<>> /\ UpTo(ring, now)
  BY <1>1, RingAfterSound
<1>3. price' = Accepted(verdict.accepted_price) /\ health' = verdict.health
  BY DEF RefreshMarketOracle
<1>4. price \in Nat /\ now \in Nat /\ Gap \in Nat /\ config \in MarketOracleConfig
      /\ config.twap_window_seconds \in Nat
  BY InvRing DEF MarketInv, TypeOK
<1> HIDE DEF ring
<1>5. /\ mean \in Nat /\ (Costly(ring) => mean > 0)
      /\ \E i \in DOMAIN ring : mean <= ring[i].price
  BY <1>2, <1>4, TwapIsSeen
<1>6. enough \in BOOLEAN /\ degraded \in BOOLEAN /\ Gap \in Int
  BY <1>4 DEF is_bootstrapped, Degraded
<1> HIDE DEF mean, enough, degraded
<1>7. /\ verdict.accepted_price \in Nat
      /\ mean > 0 => verdict.accepted_price > 0
      /\ verdict.health \in OracleHealth
      /\ verdict.health \in {"Healthy", "RateWarning"} => enough
      /\ verdict.accepted_price <= mean
      /\ verdict.accepted_price > price /\ price # 0 =>
           /\ ~ degraded
           /\ move_bps(price, verdict.accepted_price) <= config.max_rise_bps_per_window
  BY <1>4, <1>5, <1>6, VerdictIsSound, Zenon
<1> HIDE DEF verdict
<1>8. /\ price' \in Nat
      /\ verdict.accepted_price > 0 => price' > 0
      /\ price' <= verdict.accepted_price
      /\ price # 0 /\ price' > price => Recorded /\ price' = verdict.accepted_price
  BY <1>3, <1>4, <1>7 DEF Accepted, AtMost
<1>9. price' <= mean
  BY <1>5, <1>7, <1>8
<1>10. \E i \in DOMAIN ring : price' <= ring[i].price
  <2>1. PICK i \in DOMAIN ring : mean <= ring[i].price
    BY <1>5
  <2>2. ring[i].price \in Nat
    BY <1>2, RingEntries
  <2>3. price' <= ring[i].price
    BY <1>5, <1>8, <1>9, <2>1, <2>2
  <2> QED
    BY <2>3
<1>11. price # 0 /\ price' > price =>
         Recorded /\ ~ degraded /\ move_bps(price, price') <= config.max_rise_bps_per_window
  BY <1>7, <1>8
<1>12. Costly(ring) => price' > 0
  BY <1>5, <1>7, <1>8
<1> QED
  BY <1>1, <1>2, <1>3, <1>7, <1>8, <1>9, <1>10, <1>11, <1>12 DEF ring, mean, enough, degraded

-------------------------------------------------------------------------------
\* The invariant.

LEMMA RefreshKeeps ==
  ASSUME MarketInv, NEW a \in Pools, NEW b \in Pools, RefreshMarketOracle(a, b)
  PROVE  MarketInv'
<1>1. /\ now' = now /\ amm_deploy' = amm_deploy /\ config' = config /\ pending' = pending
      /\ last_refresh_slot' = now /\ next_index' = IF Recorded THEN NextIndex ELSE next_index
      /\ Priced(a, b)
  BY DEF RefreshMarketOracle
<1>2. /\ observations' \in Ring /\ observations' # <<>>
      /\ UpTo(observations', now)
      /\ price' \in Nat
      /\ health' \in OracleHealth
      /\ health' \in {"Healthy", "RateWarning"} => is_bootstrapped(observations', config)
  BY RefreshIsSound
<1>3. NextIndex \in 0..(OBSERVATION_CAPACITY - 1)
  BY <1>1, RingAfterSound
<1>4. TypeOK'
  BY <1>1, <1>2, <1>3 DEF MarketInv, TypeOK, Ring
<1>5. UpTo(observations, now)'
  BY <1>1, <1>2 DEF UpTo
<1>6. NewRiskRestsOnHistory'
  <2>1. SUFFICES ASSUME PermitsNewRisk'
                 PROVE  Len(observations') >= 2 /\ span_seconds(observations') >= MIN_SPAN_SECONDS
    BY DEF NewRiskRestsOnHistory
  <2>2. is_bootstrapped(observations', config)
    BY <1>2, <2>1 DEF PermitsNewRisk
  <2>3. /\ config.min_observations \in Nat /\ config.min_observations >= 2
        /\ config.min_span_seconds \in Nat /\ config.min_span_seconds >= MIN_SPAN_SECONDS
    <3>1. ValidMarketConfig(config) /\ config \in MarketOracleConfig
      BY Zenon DEF MarketInv, TypeOK
    <3>2. config.min_observations \in Nat /\ config.min_span_seconds \in Nat
      BY <3>1 DEF MarketOracleConfig
    <3>3. config.min_observations \in 2..OBSERVATION_CAPACITY
          /\ config.min_span_seconds >= MIN_SPAN_SECONDS
      BY <3>1, Zenon DEF ValidMarketConfig
    <3>4. OBSERVATION_CAPACITY \in Nat
      BY MarketAssumption
    <3> QED
      BY <3>2, <3>3, <3>4
  <2>4. Len(observations') \in Nat
    BY <1>2, RingEntries
  <2>5. span_seconds(observations') \in Int
    BY <1>1, <1>2, InvRing, NewestOldest DEF span_seconds
  <2>6. Len(observations') >= config.min_observations
        /\ span_seconds(observations') >= config.min_span_seconds
    BY <2>2 DEF is_bootstrapped
  <2>7. MIN_SPAN_SECONDS \in Nat
    BY MarketAssumption
  <2> QED
    BY <2>3, <2>4, <2>5, <2>6, <2>7
<1> QED
  BY <1>2, <1>4, <1>5, <1>6 DEF MarketInv

\* The other steps leave the history alone, and open nothing.
LEMMA OthersKeep ==
  ASSUME MarketInv, TypeOK', now' >= now,
         observations' = observations,
         \/ price' = price /\ health' = health
         \/ price' \in {price, 0} /\ health' = "BorrowFrozen"
  PROVE  MarketInv'
<1>1. now \in Nat /\ now' \in Nat /\ observations \in Ring
  BY InvRing DEF TypeOK
<1>2. UpTo(observations, now)'
  <2>1. \A i \in DOMAIN observations : observations[i].unix_timestamp \in Nat
                                       /\ observations[i].unix_timestamp <= now
    BY <1>1, RingEntries DEF MarketInv, UpTo
  <2>2. \A i \in DOMAIN observations : observations[i].unix_timestamp <= now'
    BY <1>1, <2>1
  <2> QED
    BY <2>2 DEF UpTo
<1>3. NewRiskRestsOnHistory'
  BY DEF MarketInv, NewRiskRestsOnHistory, PermitsNewRisk, span_seconds, Newest, Oldest, Stamps
<1>4. (observations = <<>> => price = 0)'
  BY DEF MarketInv
<1> QED
  BY <1>2, <1>3, <1>4 DEF MarketInv

\* Time, the AMM's deployer and the admin.
LEMMA OtherStepsTyped ==
  ASSUME TypeOK,
         \/ Tick \/ Redeploy \/ ApplyPendingMarketOracleConfig
         \/ \E cfg \in Configs : SetMarketOracleConfig(cfg)
         \/ \E source_changed \in BOOLEAN : SetOracle(source_changed)
         \/ UNCHANGED vars
  PROVE  /\ TypeOK' /\ now' >= now /\ observations' = observations
         /\ \/ price' = price /\ health' = health
            \/ price' \in {price, 0} /\ health' = "BorrowFrozen"
<1> USE DEF ring_vars, oracle_vars, param_vars
<1>1. CASE Tick
  BY <1>1 DEF Tick, TypeOK
<1>2. CASE Redeploy
  BY <1>2 DEF Redeploy, TypeOK
<1>3. CASE ApplyPendingMarketOracleConfig
  <2>1. /\ config' = pending.config /\ pending' = [pending EXCEPT !.eta = 0] /\ pending.eta # 0
        /\ now' = now /\ amm_deploy' = amm_deploy /\ observations' = observations
        /\ next_index' = next_index /\ price' = price /\ health' = health
        /\ last_refresh_slot' = last_refresh_slot
    BY <1>3 DEF ApplyPendingMarketOracleConfig
  <2>2. pending \in [config : MarketOracleConfig, eta : Nat] /\ ValidMarketConfig(pending.config)
    BY <2>1 DEF TypeOK
  <2>3. config' \in MarketOracleConfig /\ ValidMarketConfig(config')
    BY <2>1, <2>2
  <2>4. pending' \in [config : MarketOracleConfig, eta : Nat] /\ pending'.eta = 0
    BY <2>1, <2>2
  <2>5. TypeOK'
    BY <2>1, <2>3, <2>4 DEF TypeOK, ValidMarketConfig
  <2> QED
    BY <2>1, <2>5 DEF TypeOK
<1>4. CASE \E cfg \in Configs : SetMarketOracleConfig(cfg)
  <2>1. PICK cfg \in Configs : SetMarketOracleConfig(cfg)
    BY <1>4
  <2>2. cfg \in MarketOracleConfig /\ ValidMarketConfig(cfg)
    BY <2>1, MarketAssumption DEF SetMarketOracleConfig
  <2>3. /\ now' = now /\ amm_deploy' = amm_deploy /\ observations' = observations
        /\ next_index' = next_index /\ price' = price /\ health' = health
        /\ last_refresh_slot' = last_refresh_slot
        /\ \/ config' = cfg /\ pending' = [pending EXCEPT !.eta = 0]
           \/ config' = config /\ pending' = [config |-> cfg, eta |-> now + PARAM_TIMELOCK_SECONDS]
    BY <2>1 DEF SetMarketOracleConfig
  <2>4. config' \in MarketOracleConfig /\ ValidMarketConfig(config')
    BY <2>2, <2>3 DEF TypeOK
  <2>5. PARAM_TIMELOCK_SECONDS \in Nat /\ now \in Nat
    BY MarketAssumption DEF TypeOK
  <2>6. /\ pending' \in [config : MarketOracleConfig, eta : Nat]
        /\ pending'.eta # 0 => ValidMarketConfig(pending'.config)
    BY <2>2, <2>3, <2>5 DEF TypeOK
  <2>7. TypeOK'
    BY <2>3, <2>4, <2>6 DEF TypeOK, ValidMarketConfig
  <2> QED
    BY <2>3, <2>7 DEF TypeOK
<1>5. CASE \E source_changed \in BOOLEAN : SetOracle(source_changed)
  <2>1. PICK source_changed \in BOOLEAN : SetOracle(source_changed)
    BY <1>5
  <2> QED
    BY <2>1 DEF SetOracle, TypeOK, OracleHealth
<1>6. CASE UNCHANGED vars
  BY <1>6 DEF vars, TypeOK
<1> QED
  BY <1>1, <1>2, <1>3, <1>4, <1>5, <1>6

LEMMA StepKeeps == MarketInv /\ [Next]_vars => MarketInv'
<1> SUFFICES ASSUME MarketInv, [Next]_vars PROVE MarketInv'
  OBVIOUS
<1>1. CASE \E a, b \in Pools : RefreshMarketOracle(a, b)
  BY <1>1, RefreshKeeps
<1>2. CASE \/ Tick \/ Redeploy \/ ApplyPendingMarketOracleConfig
           \/ \E cfg \in Configs : SetMarketOracleConfig(cfg)
           \/ \E source_changed \in BOOLEAN : SetOracle(source_changed)
           \/ UNCHANGED vars
  BY <1>2, OtherStepsTyped, OthersKeep DEF MarketInv
<1> QED
  BY <1>1, <1>2 DEF Next

LEMMA InitKeeps == Init => MarketInv
<1> SUFFICES ASSUME Init PROVE MarketInv
  OBVIOUS
<1>1. config \in MarketOracleConfig /\ ValidMarketConfig(config)
  BY MarketAssumption DEF Init
<1>2. pending \in [config : MarketOracleConfig, eta : Nat] /\ pending.eta = 0
  BY DEF Init, NoPending, MarketOracleConfig
<1>3. observations = <<>> /\ observations \in Seq(Observation) /\ Len(observations) = 0
  BY DEF Init
<1>4. 0 \in 0..(OBSERVATION_CAPACITY - 1) /\ 0 <= OBSERVATION_CAPACITY
  BY MarketAssumption
<1>5. TypeOK
  BY <1>1, <1>2, <1>3, <1>4 DEF Init, TypeOK, OracleHealth
<1>6. UpTo(observations, now)
  BY <1>3 DEF UpTo
<1>7. ~ PermitsNewRisk /\ price = 0
  BY DEF Init, PermitsNewRisk
<1> QED
  BY <1>5, <1>6, <1>7 DEF MarketInv, NewRiskRestsOnHistory

\* The inductive invariant of the market oracle.
THEOREM MarketInvariant == Spec => []MarketInv
<1> QED
  BY InitKeeps, StepKeeps, PTL DEF Spec

-------------------------------------------------------------------------------
\* What the runs check, for every value of the constants.

\* The configuration in force is always a valid one, and so is the one that waits;
\* the ring never outgrows its capacity nor its index leaves it.
THEOREM MarketTyped == Spec => []TypeOK
<1>1. MarketInv => TypeOK
  BY DEF MarketInv
<1> QED
  BY <1>1, MarketInvariant, PTL

\* New risk always rests on a history of the least span, whatever was reconfigured.
THEOREM NewRiskAlwaysRestsOnHistory == Spec => []NewRiskRestsOnHistory
<1>1. MarketInv => NewRiskRestsOnHistory
  BY DEF MarketInv
<1> QED
  BY <1>1, MarketInvariant, PTL

\* The price is never above everything in the ring.
THEOREM NeverAboveWhatWasSeenHolds == Spec => []NeverAboveWhatWasSeen
<1>1. Init => NeverAboveWhatWasSeen
  BY DEF Init, NeverAboveWhatWasSeen
<1>2. MarketInv /\ NeverAboveWhatWasSeen /\ [Next]_vars => NeverAboveWhatWasSeen'
  <2> SUFFICES ASSUME MarketInv, NeverAboveWhatWasSeen, [Next]_vars
               PROVE  NeverAboveWhatWasSeen'
    OBVIOUS
  <2>1. CASE \E a, b \in Pools : RefreshMarketOracle(a, b)
    BY <2>1, RefreshIsSound DEF NeverAboveWhatWasSeen
  <2>2. CASE \/ Tick \/ Redeploy \/ ApplyPendingMarketOracleConfig
             \/ \E cfg \in Configs : SetMarketOracleConfig(cfg)
             \/ \E source_changed \in BOOLEAN : SetOracle(source_changed)
             \/ UNCHANGED vars
    <3>1. observations' = observations /\ price' \in {price, 0}
      BY <2>2, OtherStepsTyped DEF MarketInv
    <3> QED
      BY <3>1 DEF NeverAboveWhatWasSeen
  <2> QED
    BY <2>1, <2>2 DEF Next
<1> QED
  BY <1>1, <1>2, MarketInvariant, PTL DEF Spec

\* A step is a step of the contract that the lending instructions rely on, or a
\* refresh over a ring with a price of nothing takes the price away.
LEMMA StepKeepsContract ==
  ASSUME MarketInv, [Next]_vars
  PROVE  [Contract!Next \/ PriceVanishes]_(Contract!contract_vars)
<1> USE DEF Contract!Next, Contract!contract_vars
<1>1. price \in Nat
  BY DEF MarketInv, TypeOK
<1>2. CASE \E a, b \in Pools : RefreshMarketOracle(a, b)
  <2>1. PICK a \in Pools, b \in Pools : RefreshMarketOracle(a, b)
    BY <1>2
  <2>2. /\ price' \in Nat /\ health' \in OracleHealth
        /\ observations' \in Ring
        /\ Costly(observations') => price' > 0
    BY <2>1, RefreshIsSound
  <2>3. last_refresh_slot' = now /\ now' = now
    BY <2>1 DEF RefreshMarketOracle
  <2>4. CASE price' > 0
    BY <2>2, <2>3, <2>4 DEF Contract!Refresh, Contract!OracleHealth, OracleHealth
  <2>5. CASE price' = 0
    <3>1. \E i \in DOMAIN observations' : ~ (observations'[i].price > 0)
      BY <2>2, <2>5 DEF Costly
    <3>2. \A i \in DOMAIN observations' : observations'[i].price \in Nat
      BY <2>2, RingEntries
    <3>3. \E i \in DOMAIN observations' : observations'[i].price = 0
      BY <3>1, <3>2
    <3> QED
      BY <2>3, <2>5, <3>3 DEF PriceVanishes
  <2> QED
    BY <2>2, <2>4, <2>5
<1>3. CASE Tick
  BY <1>3 DEF Tick, oracle_vars, Contract!Tick
<1>4. CASE \E source_changed \in BOOLEAN : SetOracle(source_changed)
  BY <1>4 DEF SetOracle, Contract!Reconfigure
<1>5. CASE Redeploy
  BY <1>5 DEF Redeploy, oracle_vars
<1>6. CASE ApplyPendingMarketOracleConfig
  BY <1>6 DEF ApplyPendingMarketOracleConfig, oracle_vars
<1>7. CASE \E cfg \in Configs : SetMarketOracleConfig(cfg)
  BY <1>7 DEF SetMarketOracleConfig, oracle_vars
<1>8. CASE UNCHANGED vars
  BY <1>8 DEF vars, oracle_vars
<1> QED
  BY <1>2, <1>3, <1>4, <1>5, <1>6, <1>7, <1>8 DEF Next

\* The market oracle implements the contract that the lending instructions rely on,
\* but for a refresh over a ring in which some price rounded down to nothing.
THEOREM MarketKeepsContract == Spec => KeepsContract
<1>1. Init => Contract!Init
  BY DEF Init, Contract!Init
<1>2. MarketInv /\ [Next]_vars => [Contract!Next \/ PriceVanishes]_(Contract!contract_vars)
  BY StepKeepsContract
<1> QED
  BY <1>1, <1>2, MarketInvariant, PTL DEF Spec, KeepsContract

-------------------------------------------------------------------------------
\* What a step may do to the price.

\* A rise takes a spaced observation of two deep pools that agree, and is one step
\* of the limit at most.
THEOREM RisesAreAlwaysRationed == Spec => RisesAreRationed
<1> DEFINE Rationed(a, b) ==
      /\ observations # <<>> => Gap >= config.min_spacing_seconds
      /\ Newest(observations') = now
      /\ a.quote >= config.min_pool_quote_depth
      /\ b.quote >= config.min_pool_quote_depth
      /\ deviation_bps(a, b) <= config.max_cross_pool_deviation_bps
      /\ move_bps(price, price') <= config.max_rise_bps_per_window
      /\ price' <= twap(observations', now, config.twap_window_seconds)
<1>1. ASSUME MarketInv, NEW a \in Pools, NEW b \in Pools,
             price # 0, price' > price, RefreshMarketOracle(a, b)
      PROVE  Rationed(a, b)
  <2>1. /\ Recorded /\ ~ Degraded(a, b, config)
        /\ move_bps(price, price') <= config.max_rise_bps_per_window
        /\ price' <= twap(observations', now, config.twap_window_seconds)
    BY <1>1, RefreshIsSound
  <2>2. observations # <<>> => Gap >= config.min_spacing_seconds
    BY <2>1 DEF Recorded
  <2>3. /\ ~ (a.quote < config.min_pool_quote_depth)
        /\ ~ (b.quote < config.min_pool_quote_depth)
        /\ ~ (deviation_bps(a, b) > config.max_cross_pool_deviation_bps)
    BY <2>1 DEF Degraded, Shallow
  <2>4. /\ config.min_pool_quote_depth \in Nat /\ config.max_cross_pool_deviation_bps \in Nat
        /\ a.quote \in Nat /\ b.quote \in Nat
    <3>1. config \in MarketOracleConfig
      BY <1>1, InvRing
    <3>2. a \in PoolState /\ b \in PoolState
      BY <1>1, MarketAssumption
    <3> QED
      BY <3>1, <3>2 DEF MarketOracleConfig, PoolState
  <2>5. deviation_bps(a, b) \in Nat
    BY <1>1, DeviationNat DEF RefreshMarketOracle
  <2>6. Newest(observations') = now
    <3>1. /\ observations' \in Ring /\ observations' # <<>> /\ UpTo(observations', now)
          /\ observations' = RingAfter(a, b)
      BY <1>1, RefreshIsSound
    <3>2. Priced(a, b)
      BY <1>1 DEF RefreshMarketOracle
    <3>3. now \in Stamps(observations')
      BY <1>1, <2>1, <3>1, <3>2, RingAfterSound
    <3>4. now \in Nat
      BY <1>1, InvRing
    <3>5. /\ now <= Newest(observations') /\ Newest(observations') <= now
          /\ Newest(observations') \in Nat
      BY <3>1, <3>3, <3>4, NewestOldest
    <3> QED
      BY <3>4, <3>5
  <2> QED
    BY <2>1, <2>2, <2>3, <2>4, <2>5, <2>6
<1>2. MarketInv /\ [Next]_vars =>
        [\A a, b \in Pools :
           price # 0 /\ price' > price /\ RefreshMarketOracle(a, b) => Rationed(a, b)]_vars
  BY <1>1
<1> QED
  BY <1>2, MarketInvariant, PTL DEF Spec, RisesAreRationed

-------------------------------------------------------------------------------
\* Where the price goes.

\* A step of the limit is a step at all, unless the price is too small for it.
LEMMA RiseMovesOn ==
  ASSUME NEW current \in Nat, NEW cfg \in MarketOracleConfig,
         current * cfg.max_rise_bps_per_window >= BPS_DENOMINATOR
  PROVE  CappedRise(current, cfg) >= current + 1
<1> DEFINE rise == cfg.max_rise_bps_per_window
           B == BPS_DENOMINATOR
<1>1. rise \in Nat /\ B \in Nat \ {0} /\ B + rise \in Nat
  BY ScaleAssumption DEF MarketOracleConfig
<1> HIDE DEF rise, B
<1>2. /\ (current + 1) * B = current * B + B
      /\ current * (B + rise) = current * B + current * rise
      /\ current * B \in Nat /\ current * rise \in Nat
  BY <1>1
<1>3. current * rise >= B
  BY DEF rise, B
<1>4. (current + 1) * B <= current * (B + rise)
  BY <1>1, <1>2, <1>3
<1>5. current * (B + rise) \in Nat
  BY <1>1, <1>2
<1>6. current + 1 <= (current * (B + rise)) \div B
  BY <1>1, <1>4, <1>5, QuotientAtLeast
<1> QED
  BY <1>6 DEF CappedRise, mul_div_floor, rise, B

\* What the breaker makes of an average: it is accepted from below at once, from
\* above up to the limit, and from above on degraded information not at all.
LEMMA VerdictApproaches ==
  ASSUME NEW current \in Nat, NEW average \in Nat, NEW bootstrapped \in BOOLEAN,
         NEW age \in Int, NEW degraded \in BOOLEAN, NEW cfg \in MarketOracleConfig
  PROVE  LET v == evaluate_market(current, average, bootstrapped, age, degraded, cfg) IN
         /\ current = 0 \/ current >= average => v.accepted_price = average
         /\ current \in 1..average => v.accepted_price \in current..average
         /\ /\ current \in 1..(average - 1)
            /\ ~ degraded
            /\ current * cfg.max_rise_bps_per_window >= BPS_DENOMINATOR
            => v.accepted_price > current
<1> DEFINE floor  == IF bootstrapped THEN "Healthy" ELSE "Bootstrapping"
           frozen == worse("BorrowFrozen", floor)
           aged   == worse(AgeHealth(age, cfg), floor)
           v      == evaluate_market(current, average, bootstrapped, age, degraded, cfg)
<1> HIDE DEF frozen, aged
<1>1. CASE current = 0
  <2>1. v = Verdict(average, "Bootstrapping")
    BY <1>1 DEF evaluate_market
  <2> QED
    BY <1>1, <2>1 DEF Verdict
<1>2. CASE current # 0 /\ average <= current
  <2>1. v = Verdict(average, IF degraded THEN worse(AgeHealth(age, cfg), frozen) ELSE aged)
    BY <1>2 DEF evaluate_market, frozen, aged
  <2>2. v.accepted_price = average
    BY <2>1 DEF Verdict
  <2> HIDE DEF v
  <2>3. v.accepted_price = average
    BY <2>2
  <2> QED
    BY <1>2, <2>3 DEF v
<1>3. CASE current # 0 /\ average > current /\ degraded
  <2>1. v = Verdict(current, frozen)
    BY <1>3 DEF evaluate_market, frozen
  <2>2. v.accepted_price = current
    BY <2>1 DEF Verdict
  <2> HIDE DEF v
  <2>3. current \in current..average /\ degraded /\ ~ (current = 0 \/ current >= average)
    BY <1>3
  <2>4. /\ current = 0 \/ current >= average => v.accepted_price = average
        /\ current \in 1..average => v.accepted_price \in current..average
        /\ ~ ~ degraded
    BY <2>2, <2>3
  <2> QED
    BY <2>4 DEF v
<1>4. CASE current # 0 /\ average > current /\ ~ degraded
  <2>1. v = IF move_bps(current, average) <= cfg.max_rise_bps_per_window
            THEN Verdict(average, aged)
            ELSE Verdict(AtMost(CappedRise(current, cfg), average), frozen)
    BY <1>4 DEF evaluate_market, frozen, aged
  <2>2. v.accepted_price \in {average, AtMost(CappedRise(current, cfg), average)}
    BY <2>1 DEF Verdict
  <2>3. CappedRise(current, cfg) \in Nat /\ current <= CappedRise(current, cfg)
    BY <1>4, CappedRiseBounds
  <2>4. current * cfg.max_rise_bps_per_window >= BPS_DENOMINATOR =>
          CappedRise(current, cfg) >= current + 1
    BY RiseMovesOn
  <2> DEFINE accepted == v.accepted_price
  <2>5. accepted \in current..average
    BY <1>4, <2>2, <2>3 DEF AtMost
  <2>6. current * cfg.max_rise_bps_per_window >= BPS_DENOMINATOR => accepted > current
    BY <1>4, <2>2, <2>3, <2>4 DEF AtMost
  <2> HIDE DEF v
  <2> QED
    BY <1>4, <2>5, <2>6 DEF v
<1> QED
  BY <1>1, <1>2, <1>3, <1>4

\* A refresh over a ring of one price goes towards that price and not past it, for
\* every configuration, every pair of pools and every length of the ring.
THEOREM AlwaysApproachesTheMarket == Spec => ApproachesTheMarket
<1> DEFINE Approaches(a, b, level) ==
      /\ price = 0 \/ price >= level => price' = level
      /\ price \in 1..level => price' \in price..level
      /\ /\ price \in 1..(level - 1)
         /\ Recorded
         /\ ~ Degraded(a, b, config)
         /\ price * config.max_rise_bps_per_window >= BPS_DENOMINATOR
         => price' > price
<1>1. ASSUME MarketInv, NEW a \in Pools, NEW b \in Pools, RefreshMarketOracle(a, b),
             \A i \in DOMAIN observations' : observations'[i].price = observations'[1].price
      PROVE  Approaches(a, b, observations'[1].price)
  <2> DEFINE level    == observations'[1].price
             mean     == twap(observations', now, config.twap_window_seconds)
             enough   == is_bootstrapped(observations', config)
             degraded == Degraded(a, b, config)
             verdict  == evaluate_market(price, mean, enough, Gap, degraded, config)
  <2>1. /\ observations' \in Ring /\ observations' # <<>>
        /\ UpTo(observations', now)
    BY <1>1, RefreshIsSound
  <2>2. price' = Accepted(verdict.accepted_price)
    BY <1>1 DEF RefreshMarketOracle
  <2>3. /\ price \in Nat /\ now \in Nat /\ Gap \in Int /\ config \in MarketOracleConfig
        /\ config.twap_window_seconds \in Nat
    BY <1>1, InvRing DEF MarketInv, TypeOK
  <2>4. enough \in BOOLEAN /\ degraded \in BOOLEAN
    BY DEF is_bootstrapped, Degraded
  <2>5. level \in Nat
    <3>1. 1 \in DOMAIN observations'
      BY <2>1, RingEntries
    <3> QED
      BY <2>1, <3>1, RingEntries
  <2>6. mean = level
    <3> HIDE DEF level
    <3>1. \A i \in DOMAIN observations' :
            level <= observations'[i].price /\ observations'[i].price <= level
      BY <1>1, <2>5 DEF level
    <3>2. mean \in Nat /\ level <= mean /\ mean <= level
      BY <2>1, <2>3, <2>5, <3>1, TwapBounds
    <3> QED
      BY <2>5, <3>2
  <2> HIDE DEF level, mean, enough, degraded
  <2> DEFINE accepted == verdict.accepted_price
  <2>7. /\ price = 0 \/ price >= level => accepted = level
        /\ price \in 1..level => accepted \in price..level
        /\ /\ price \in 1..(level - 1)
           /\ ~ degraded
           /\ price * config.max_rise_bps_per_window >= BPS_DENOMINATOR
           => accepted > price
    <3> DEFINE gap == Gap
               v == evaluate_market(price, mean, enough, gap, degraded, config)
    <3>1. /\ price \in Nat /\ mean \in Nat /\ enough \in BOOLEAN /\ gap \in Int
          /\ degraded \in BOOLEAN /\ config \in MarketOracleConfig
      BY <2>3, <2>4, <2>5, <2>6
    <3> HIDE DEF gap
    <3>2. /\ price = 0 \/ price >= mean => v.accepted_price = mean
          /\ price \in 1..mean => v.accepted_price \in price..mean
          /\ /\ price \in 1..(mean - 1)
             /\ ~ degraded
             /\ price * config.max_rise_bps_per_window >= BPS_DENOMINATOR
             => v.accepted_price > price
      BY <3>1, VerdictApproaches
    <3> QED
      BY <2>6, <3>2 DEF gap
  <2> HIDE DEF verdict
  <2>8. price' = IF ~ Recorded /\ price # 0 THEN AtMost(accepted, price) ELSE accepted
    BY <2>2 DEF Accepted
  <2> HIDE DEF accepted
  <2>9. price = 0 \/ price >= level => price' = level
    BY <2>3, <2>5, <2>7, <2>8 DEF AtMost
  <2>10. price \in 1..level => price' \in price..level
    BY <2>3, <2>5, <2>7, <2>8 DEF AtMost
  <2>11. /\ price \in 1..(level - 1)
         /\ Recorded
         /\ ~ degraded
         /\ price * config.max_rise_bps_per_window >= BPS_DENOMINATOR
         => price' > price
    BY <2>7, <2>8
  <2> QED
    BY <2>9, <2>10, <2>11 DEF level, degraded
<1>2. MarketInv /\ [Next]_vars =>
        [\A a, b \in Pools :
           LET level == observations'[1].price IN
           /\ RefreshMarketOracle(a, b)
           /\ \A i \in DOMAIN observations' : observations'[i].price = level
           => Approaches(a, b, level)]_vars
  BY <1>1
<1> QED
  BY <1>2, MarketInvariant, PTL DEF Spec, ApproachesTheMarket

-------------------------------------------------------------------------------
\* The order of the ring.

LEMMA Remainder ==
  ASSUME NEW n \in Nat \ {0}, NEW x \in (-n)..(n - 1)
  PROVE  x % n = IF x >= 0 THEN x ELSE x + n
OBVIOUS

\* Where entry i stands in a ring of n whose next index is k.
Slot(i, k, n) == (i - 1 - k) % n

LEMMA PlaceIs ==
  ASSUME NEW n \in Nat \ {0}, NEW k \in 0..n, NEW i \in 1..n
  PROVE  Slot(i, k, n) = IF i > k THEN i - 1 - k ELSE i - 1 - k + n
<1>1. i - 1 - k \in (-n)..(n - 1)
  OBVIOUS
<1>2. Slot(i, k, n) = IF i - 1 - k >= 0 THEN i - 1 - k ELSE i - 1 - k + n
  BY <1>1, Remainder DEF Slot
<1> QED
  BY <1>2

\* A recorded observation is later than any before it.
LEMMA RecordedIsLater ==
  ASSUME MarketInv, Recorded, NEW i \in DOMAIN observations
  PROVE  observations[i].unix_timestamp < now
<1>1. /\ observations \in Ring /\ now \in Nat /\ Gap \in Nat
      /\ observations # <<>> => now - observations[i].unix_timestamp >= Gap
  BY InvRing
<1>2. observations # <<>>
  BY <1>1, RingEntries
<1>3. observations[i].unix_timestamp \in Nat
  BY <1>1, RingEntries
<1>4. config.min_spacing_seconds \in Nat /\ config.min_spacing_seconds > 0
  <2>1. config \in MarketOracleConfig /\ ValidMarketConfig(config)
    BY Zenon DEF MarketInv, TypeOK
  <2>2. config.min_spacing_seconds > 0
    BY <2>1, Zenon DEF ValidMarketConfig
  <2> QED
    BY <2>1, <2>2 DEF MarketOracleConfig
<1>5. Gap >= config.min_spacing_seconds
  BY <1>2 DEF Recorded
<1> QED
  BY <1>1, <1>2, <1>3, <1>4, <1>5

\* A ring has its newest observation one before the next index.
LEMMA LastPlace ==
  ASSUME NEW n \in Nat \ {0}, NEW k \in 0..n
  PROVE  LET w == IF k = 0 THEN n ELSE k
         IN w \in 1..n /\ Slot(w, k, n) = n - 1
<1> DEFINE w == IF k = 0 THEN n ELSE k
<1>1. w \in 1..n
  OBVIOUS
<1>2. Slot(w, k, n) = IF w > k THEN w - 1 - k ELSE w - 1 - k + n
  BY <1>1, PlaceIs
<1>3. Slot(w, k, n) = n - 1
  BY <1>2
<1> QED
  BY <1>1, <1>3

\* And its oldest at the next index, or at 1 if that is beyond the end.
LEMMA FirstPlace ==
  ASSUME NEW n \in Nat \ {0}, NEW k \in 0..n
  PROVE  LET w == IF k = n THEN 1 ELSE k + 1
         IN w \in 1..n /\ Slot(w, k, n) = 0
<1> DEFINE w == IF k = n THEN 1 ELSE k + 1
<1>1. w \in 1..n
  OBVIOUS
<1>2. Slot(w, k, n) = IF w > k THEN w - 1 - k ELSE w - 1 - k + n
  BY <1>1, PlaceIs
<1>3. Slot(w, k, n) = 0
  BY <1>2
<1> QED
  BY <1>1, <1>3

LEMMA PlaceInRange ==
  ASSUME NEW n \in Nat \ {0}, NEW k \in 0..n, NEW i \in 1..n
  PROVE  Slot(i, k, n) \in 0..(n - 1)
<1>1. Slot(i, k, n) = IF i > k THEN i - 1 - k ELSE i - 1 - k + n
  BY PlaceIs
<1> QED
  BY <1>1

\* An observation recorded at e takes the last place.  In a ring that grows every
\* other one keeps its place, and in a full one each moves up by one, the one whose
\* place was 0 being gone.
LEMMA RecordingMovesPlaces ==
  ASSUME MarketInv, RingInOrder, Recorded,
         NEW a \in Pools, NEW b \in Pools, RefreshMarketOracle(a, b)
  PROVE  LET n == Len(observations)
             m == Len(observations')
         IN /\ n \in Nat /\ m \in {n, n + 1} /\ m # 0
            /\ DOMAIN observations = 1..n /\ DOMAIN observations' = 1..m
            /\ m = n => n = OBSERVATION_CAPACITY
            /\ m < OBSERVATION_CAPACITY => next_index' = m
            /\ next_index' \in 0..m
            /\ \E e \in 1..m :
                 /\ observations'[e].unix_timestamp = now
                 /\ Slot(e, next_index', m) = m - 1
                 /\ \A i \in (1..m) \ {e} :
                      /\ i \in 1..n
                      /\ observations'[i] = observations[i]
                      /\ Slot(i, next_index, n) \in 0..(n - 1)
                      /\ Slot(i, next_index', m) = Slot(i, next_index, n) - (n + 1 - m)
<1> DEFINE C == OBSERVATION_CAPACITY
           n == Len(observations)
           k == next_index
           reading == [price |-> CombinedPrice(a, b), unix_timestamp |-> now]
<1>1. /\ observations \in Seq(Observation) /\ n \in Nat /\ n <= C
      /\ DOMAIN observations = 1..n
      /\ k \in 0..(C - 1) /\ C \in Nat \ {0} /\ now \in Nat
  BY MarketAssumption DEF MarketInv, TypeOK
<1>2. n < C => k = n
  BY DEF RingInOrder
<1>3. observations' = Appended(reading) /\ next_index' = (k + 1) % C
  BY DEF RefreshMarketOracle, RingAfter, NextIndex
<1>4. reading \in Observation /\ reading.unix_timestamp = now
  <2>1. Priced(a, b)
    BY DEF RefreshMarketOracle
  <2>2. CombinedPrice(a, b) \in Nat
    BY <2>1, PriceOfPools
  <2> QED
    BY <1>1, <2>2 DEF Observation
<1>5. next_index' = IF k + 1 = C THEN 0 ELSE k + 1
  <2>1. CASE k + 1 = C
    <3>1. C % C = 0
      BY <1>1
    <3> QED
      BY <1>3, <2>1, <3>1
  <2>2. CASE k + 1 # C
    <3>1. k + 1 \in (-C)..(C - 1) /\ k + 1 >= 0
      BY <1>1, <2>2
    <3>2. (k + 1) % C = k + 1
      BY <1>1, <3>1, Remainder
    <3> QED
      BY <1>3, <2>2, <3>2
  <2> QED
    BY <2>1, <2>2
<1> DEFINE m == Len(observations')
<1> HIDE DEF reading, n, k, C, m
<1>6. CASE n < C
  <2>1. observations' = Append(observations, reading)
    BY <1>3, <1>6 DEF Appended, n, C
  <2>2. /\ m = n + 1 /\ DOMAIN observations' = 1..(n + 1)
        /\ \A i \in 1..n : observations'[i] = observations[i]
        /\ observations'[n + 1] = reading
    BY <1>1, <1>4, <2>1 DEF n, m
  <2>3. \A i \in 1..(n + 1) : Slot(i, next_index', n + 1) = i - 1
    <3>1. SUFFICES ASSUME NEW i \in 1..(n + 1)
                   PROVE  Slot(i, next_index', n + 1) = i - 1
      OBVIOUS
    <3>2. n + 1 \in Nat \ {0} /\ next_index' \in 0..(n + 1)
      BY <1>1, <1>2, <1>5, <1>6
    <3>3. next_index' = 0 \/ next_index' = n + 1
      BY <1>1, <1>2, <1>5, <1>6
    <3>4. Slot(i, next_index', n + 1)
            = IF i > next_index' THEN i - 1 - next_index' ELSE i - 1 - next_index' + (n + 1)
      BY <3>2, PlaceIs
    <3> QED
      BY <1>1, <3>3, <3>4
  <2>4. n + 1 < C => next_index' = n + 1
    BY <1>1, <1>2, <1>5, <1>6
  <2>5. next_index' \in 0..(n + 1)
    BY <1>1, <1>2, <1>5, <1>6
  <2>6. \A i \in (1..(n + 1)) \ {n + 1} :
          /\ i \in 1..n
          /\ Slot(i, k, n) = i - 1
          /\ Slot(i, k, n) \in 0..(n - 1)
    <3>1. SUFFICES ASSUME NEW i \in (1..(n + 1)) \ {n + 1}
                   PROVE  /\ i \in 1..n
                          /\ Slot(i, k, n) = i - 1
                          /\ Slot(i, k, n) \in 0..(n - 1)
      OBVIOUS
    <3>2. i \in 1..n /\ n \in Nat \ {0} /\ k \in 0..n /\ k = n
      BY <1>1, <1>2, <1>6
    <3>3. Slot(i, k, n) = IF i > k THEN i - 1 - k ELSE i - 1 - k + n
      BY <3>2, PlaceIs
    <3> QED
      BY <3>2, <3>3
  <2>7. m = n + 1 /\ m # n /\ m \in Nat \ {0} /\ n + 1 - m = 0
    BY <1>1, <2>2
  <2>8. /\ m \in 1..m
        /\ observations'[m].unix_timestamp = now
        /\ Slot(m, next_index', m) = m - 1
    BY <1>4, <2>2, <2>3, <2>7
  <2>9. \A i \in (1..m) \ {m} :
          /\ i \in 1..n
          /\ observations'[i] = observations[i]
          /\ Slot(i, k, n) \in 0..(n - 1)
          /\ Slot(i, next_index', m) = Slot(i, k, n) - (n + 1 - m)
    BY <1>1, <2>2, <2>3, <2>6, <2>7
  <2>10. \E e \in 1..m :
          /\ observations'[e].unix_timestamp = now
          /\ Slot(e, next_index', m) = m - 1
          /\ \A i \in (1..m) \ {e} :
               /\ i \in 1..n
               /\ observations'[i] = observations[i]
               /\ Slot(i, k, n) \in 0..(n - 1)
               /\ Slot(i, next_index', m) = Slot(i, k, n) - (n + 1 - m)
    BY <2>8, <2>9, Zenon
  <2>11. /\ m \in {n, n + 1} /\ m # 0
         /\ DOMAIN observations' = 1..m
         /\ m < C => next_index' = m
         /\ next_index' \in 0..m
    BY <1>1, <2>2, <2>4, <2>5, <2>7
  <2> QED
    BY <1>1, <2>7, <2>10, <2>11, Zenon DEF m, n, k, C
<1>7. CASE n >= C
  <2>1. n = C
    BY <1>1, <1>7
  <2>2. observations' = [observations EXCEPT ![k + 1] = reading]
    <3>1. ~ (n < C)
      BY <1>1, <1>7
    <3> QED
      BY <1>3, <3>1 DEF Appended, n, k, C
  <2>3. k + 1 \in 1..n /\ k \in 0..n /\ n \in Nat \ {0}
    BY <1>1, <2>1
  <2>4. /\ m = n /\ DOMAIN observations' = 1..n
        /\ \A i \in 1..n : i # k + 1 => observations'[i] = observations[i]
        /\ observations'[k + 1] = reading
    BY <1>1, <1>4, <2>2, <2>3 DEF n, m
  <2>5. next_index' \in 0..n
    BY <1>1, <1>5, <2>1
  <2>6. \A i \in 1..n :
          /\ i # k + 1 => Slot(i, next_index', n) = Slot(i, k, n) - 1
          /\ i = k + 1 => Slot(i, next_index', n) = n - 1
    <3>1. SUFFICES ASSUME NEW i \in 1..n
                   PROVE  /\ i # k + 1 => Slot(i, next_index', n) = Slot(i, k, n) - 1
                          /\ i = k + 1 => Slot(i, next_index', n) = n - 1
      OBVIOUS
    <3>2. Slot(i, next_index', n)
            = IF i > next_index' THEN i - 1 - next_index' ELSE i - 1 - next_index' + n
      BY <2>3, <2>5, PlaceIs
    <3>3. Slot(i, k, n) = IF i > k THEN i - 1 - k ELSE i - 1 - k + n
      BY <2>3, PlaceIs
    <3> QED
      BY <1>1, <1>5, <2>1, <2>3, <3>2, <3>3
  <2>7. \A i \in 1..n : Slot(i, k, n) \in 0..(n - 1)
    BY <2>3, PlaceInRange
  <2>8. \A i \in (1..n) \ {k + 1} :
          /\ i \in 1..n
          /\ observations'[i] = observations[i]
          /\ Slot(i, k, n) \in 0..(n - 1)
          /\ Slot(i, next_index', n) = Slot(i, k, n) - (n + 1 - n)
    <3>1. n + 1 - n = 1
      BY <1>1
    <3> QED
      BY <2>4, <2>6, <2>7, <3>1
  <2>9. /\ observations'[k + 1].unix_timestamp = now
        /\ Slot(k + 1, next_index', n) = n - 1
    BY <1>4, <2>3, <2>4, <2>6
  <2>10. \E e \in 1..n :
           /\ observations'[e].unix_timestamp = now
           /\ Slot(e, next_index', n) = n - 1
           /\ \A i \in (1..n) \ {e} :
                /\ i \in 1..n
                /\ observations'[i] = observations[i]
                /\ Slot(i, k, n) \in 0..(n - 1)
                /\ Slot(i, next_index', n) = Slot(i, k, n) - (n + 1 - n)
    BY <2>3, <2>8, <2>9, Zenon
  <2>11. m = n /\ ~ (m < C) /\ m # 0
    BY <1>1, <2>1, <2>4
  <2> QED
    BY <1>1, <2>1, <2>4, <2>5, <2>10, <2>11 DEF m, n, k, C
<1> QED
  BY <1>1, <1>6, <1>7

\* An observation recorded puts every other one place back and itself last.
LEMMA RecordingKeepsOrder ==
  ASSUME MarketInv, RingInOrder, Recorded,
         NEW a \in Pools, NEW b \in Pools, RefreshMarketOracle(a, b)
  PROVE  RingInOrder'
<1> DEFINE n == Len(observations)
           m == Len(observations')
<1>1. /\ n \in Nat /\ m \in {n, n + 1} /\ m # 0
      /\ DOMAIN observations = 1..n /\ DOMAIN observations' = 1..m
      /\ m < OBSERVATION_CAPACITY => next_index' = m
      /\ next_index' \in 0..m
  BY RecordingMovesPlaces, Zenon
<1>2. PICK e \in 1..m :
        /\ observations'[e].unix_timestamp = now
        /\ Slot(e, next_index', m) = m - 1
        /\ \A i \in (1..m) \ {e} :
             /\ i \in 1..n
             /\ observations'[i] = observations[i]
             /\ Slot(i, next_index, n) \in 0..(n - 1)
             /\ Slot(i, next_index', m) = Slot(i, next_index, n) - (n + 1 - m)
  BY RecordingMovesPlaces, Zenon
<1>3. \A i, j \in 1..n : Slot(i, next_index, n) < Slot(j, next_index, n) =>
        observations[i].unix_timestamp < observations[j].unix_timestamp
  BY <1>1 DEF RingInOrder, Place, Slot
<1>4. \A i \in 1..n : observations[i].unix_timestamp < now
  BY <1>1, RecordedIsLater
<1> HIDE DEF n, m
<1>5. \A i \in 1..m : Slot(i, next_index', m) \in 0..(m - 1)
  <2>1. m \in Nat \ {0} /\ next_index' \in 0..m
    BY <1>1
  <2> QED
    BY <2>1, PlaceInRange
<1>6. ASSUME NEW i \in 1..m, NEW j \in 1..m,
             Slot(i, next_index', m) < Slot(j, next_index', m)
      PROVE  observations'[i].unix_timestamp < observations'[j].unix_timestamp
  <2>1. i # e
    <3>1. Slot(j, next_index', m) <= m - 1
      BY <1>1, <1>5
    <3> QED
      BY <1>1, <1>2, <1>5, <1>6, <3>1
  <2>2. /\ i \in 1..n /\ observations'[i] = observations[i]
        /\ Slot(i, next_index, n) \in 0..(n - 1)
        /\ Slot(i, next_index', m) = Slot(i, next_index, n) - (n + 1 - m)
    BY <1>2, <2>1
  <2>3. CASE j = e
    BY <1>2, <1>4, <2>2, <2>3
  <2>4. CASE j # e
    <3>1. /\ j \in 1..n /\ observations'[j] = observations[j]
          /\ Slot(j, next_index, n) \in 0..(n - 1)
          /\ Slot(j, next_index', m) = Slot(j, next_index, n) - (n + 1 - m)
      BY <1>2, <2>4
    <3>2. Slot(i, next_index, n) < Slot(j, next_index, n)
      BY <1>1, <1>6, <2>2, <3>1
    <3> QED
      BY <1>3, <2>2, <3>1, <3>2
  <2> QED
    BY <2>3, <2>4
<1> QED
  BY <1>1, <1>6 DEF RingInOrder, Place, Slot, n, m

\* The ring holds the latest observations in the order they were taken.
THEOREM RingStaysInOrder == Spec => []RingInOrder
<1>1. Init => RingInOrder
  BY DEF Init, RingInOrder
<1>2. MarketInv /\ RingInOrder /\ [Next]_vars => RingInOrder'
  <2> SUFFICES ASSUME MarketInv, RingInOrder, [Next]_vars PROVE RingInOrder'
    OBVIOUS
  <2>1. CASE \E a, b \in Pools : RefreshMarketOracle(a, b)
    <3>1. PICK a \in Pools, b \in Pools : RefreshMarketOracle(a, b)
      BY <2>1
    <3>2. CASE Recorded
      BY <3>1, <3>2, RecordingKeepsOrder
    <3>3. CASE ~ Recorded
      <4>1. observations' = observations /\ next_index' = next_index
        BY <3>1, <3>3 DEF RefreshMarketOracle, RingAfter
      <4> QED
        BY <4>1 DEF RingInOrder, Place
    <3> QED
      BY <3>2, <3>3
  <2>2. CASE \/ Tick \/ Redeploy \/ ApplyPendingMarketOracleConfig
             \/ \E cfg \in Configs : SetMarketOracleConfig(cfg)
             \/ \E source_changed \in BOOLEAN : SetOracle(source_changed)
             \/ UNCHANGED vars
    <3>1. observations' = observations /\ next_index' = next_index
      BY <2>2 DEF Tick, Redeploy, ApplyPendingMarketOracleConfig, SetMarketOracleConfig,
                  SetOracle, ring_vars, vars
    <3> QED
      BY <3>1 DEF RingInOrder, Place
  <2> QED
    BY <2>1, <2>2 DEF Next
<1> QED
  BY <1>1, <1>2, MarketInvariant, PTL DEF Spec

-------------------------------------------------------------------------------
\* The spacing of the ring, and bootstrap.

\* What a configuration in force says of the history.
LEMMA HistoryParams ==
  ASSUME MarketInv
  PROVE  /\ config.min_spacing_seconds \in Nat \ {0}
         /\ config.min_span_seconds \in Nat
         /\ config.min_observations \in Nat
         /\ config.min_observations >= 2
         /\ OBSERVATION_CAPACITY \in Nat
         /\ config.min_observations <= OBSERVATION_CAPACITY
<1>1. config \in MarketOracleConfig /\ ValidMarketConfig(config)
  BY Zenon DEF MarketInv, TypeOK
<1>2. /\ config.min_spacing_seconds > 0
      /\ config.min_observations \in 2..OBSERVATION_CAPACITY
  BY <1>1, Zenon DEF ValidMarketConfig
<1>3. /\ config.min_spacing_seconds \in Nat
      /\ config.min_span_seconds \in Nat
      /\ config.min_observations \in Nat
  BY <1>1 DEF MarketOracleConfig
<1> QED
  BY <1>2, <1>3, MarketAssumption

\* The span is a distance between two of the observations, and none are further apart.
LEMMA SpanIsWidest ==
  ASSUME NEW ring \in Ring, ring # <<>>, NEW time \in Nat, UpTo(ring, time)
  PROVE  /\ span_seconds(ring) \in Nat
         /\ \E i, j \in DOMAIN ring :
              span_seconds(ring) = ring[j].unix_timestamp - ring[i].unix_timestamp
         /\ \A i, j \in DOMAIN ring :
              ring[j].unix_timestamp - ring[i].unix_timestamp <= span_seconds(ring)
<1>1. span_seconds(ring) = Newest(ring) - Oldest(ring)
  BY DEF span_seconds
<1>2. /\ Newest(ring) \in Nat /\ Oldest(ring) \in Nat
      /\ Newest(ring) \in Stamps(ring) /\ Oldest(ring) \in Stamps(ring)
      /\ \A u \in Stamps(ring) : u <= Newest(ring) /\ Oldest(ring) <= u
  BY NewestOldest
<1>3. PICK i \in DOMAIN ring, j \in DOMAIN ring :
        /\ ring[i].unix_timestamp = Oldest(ring)
        /\ ring[j].unix_timestamp = Newest(ring)
  BY <1>2 DEF Stamps
<1>4. \A k \in DOMAIN ring :
        /\ ring[k].unix_timestamp \in Nat
        /\ Oldest(ring) <= ring[k].unix_timestamp
        /\ ring[k].unix_timestamp <= Newest(ring)
  BY <1>2, RingEntries DEF Stamps
<1>5. span_seconds(ring) \in Nat
  BY <1>1, <1>2
<1> QED
  BY <1>1, <1>2, <1>3, <1>4, <1>5

\* An observation recorded is spaced from the newest, which stands in the last place,
\* and from the others by the places between.
LEMMA RecordingKeepsSpacing ==
  ASSUME MarketInv, RingInOrder, Recorded, Spaced, config' = config,
         NEW a \in Pools, NEW b \in Pools, RefreshMarketOracle(a, b)
  PROVE  Spaced'
<1> DEFINE n == Len(observations)
           m == Len(observations')
           s == config.min_spacing_seconds
<1>1. /\ n \in Nat /\ m \in {n, n + 1} /\ m # 0
      /\ DOMAIN observations = 1..n /\ DOMAIN observations' = 1..m
      /\ next_index' \in 0..m
  BY RecordingMovesPlaces, Zenon
<1>2. PICK e \in 1..m :
        /\ observations'[e].unix_timestamp = now
        /\ Slot(e, next_index', m) = m - 1
        /\ \A i \in (1..m) \ {e} :
             /\ i \in 1..n
             /\ observations'[i] = observations[i]
             /\ Slot(i, next_index, n) \in 0..(n - 1)
             /\ Slot(i, next_index', m) = Slot(i, next_index, n) - (n + 1 - m)
  BY RecordingMovesPlaces, Zenon
<1>3. \A i, j \in 1..n : Slot(i, next_index, n) < Slot(j, next_index, n) =>
        observations[j].unix_timestamp - observations[i].unix_timestamp
          >= (Slot(j, next_index, n) - Slot(i, next_index, n)) * s
  BY <1>1 DEF Spaced, Place, Slot
<1>4. /\ s \in Nat /\ now \in Nat
      /\ \A i \in 1..n : observations[i].unix_timestamp \in Nat
      /\ \A i \in 1..n : now - observations[i].unix_timestamp >= s
  <2>1. /\ observations \in Ring /\ now \in Nat /\ Gap \in Nat
        /\ observations # <<>> =>
             \A i \in DOMAIN observations : now - observations[i].unix_timestamp >= Gap
    BY InvRing
  <2>2. s \in Nat
    BY HistoryParams
  <2>3. \A i \in DOMAIN observations : observations[i].unix_timestamp \in Nat
    BY <2>1, RingEntries
  <2>4. observations # <<>> => Gap >= s
    BY DEF Recorded
  <2>5. \A i \in 1..n : observations # <<>>
    BY <2>1, RingEntries
  <2>6. ASSUME NEW i \in DOMAIN observations
        PROVE  now - observations[i].unix_timestamp >= s
    <3>1. observations[i].unix_timestamp \in Nat /\ observations # <<>>
      BY <2>3, <2>5
    <3>2. now - observations[i].unix_timestamp >= Gap /\ Gap >= s
      BY <2>1, <2>4, <3>1
    <3> HIDE DEF s
    <3> QED
      BY <2>1, <2>2, <3>1, <3>2
  <2> HIDE DEF n, m, s
  <2> QED
    BY <1>1, <2>1, <2>2, <2>3, <2>6
<1>5. next_index \in 0..n
  <2>1. /\ Len(observations) < OBSERVATION_CAPACITY => next_index = Len(observations)
        /\ next_index \in 0..(OBSERVATION_CAPACITY - 1)
        /\ Len(observations) <= OBSERVATION_CAPACITY
    BY DEF RingInOrder, MarketInv, TypeOK
  <2>2. Len(observations) \in Nat /\ OBSERVATION_CAPACITY \in Nat
    BY <1>1, MarketAssumption
  <2> QED
    BY <2>1, <2>2
<1> HIDE DEF n, m, s
<1>6. \A i \in 1..m : Slot(i, next_index', m) \in 0..(m - 1)
  <2>1. m \in Nat \ {0}
    BY <1>1
  <2> QED
    BY <1>1, <2>1, PlaceInRange
<1>7. ASSUME NEW i \in 1..m, NEW j \in 1..m,
             Slot(i, next_index', m) < Slot(j, next_index', m)
      PROVE  observations'[j].unix_timestamp - observations'[i].unix_timestamp
               >= (Slot(j, next_index', m) - Slot(i, next_index', m)) * s
  <2>1. i # e
    <3>1. Slot(j, next_index', m) <= m - 1
      BY <1>1, <1>6
    <3> QED
      BY <1>1, <1>2, <1>6, <1>7, <3>1
  <2>2. /\ i \in 1..n /\ observations'[i] = observations[i]
        /\ Slot(i, next_index, n) \in 0..(n - 1)
        /\ Slot(i, next_index', m) = Slot(i, next_index, n) - (n + 1 - m)
    BY <1>2, <2>1
  <2>3. CASE j = e
    <3> DEFINE p == Slot(i, next_index, n)
    <3>1. p \in 0..(n - 1) /\ Slot(j, next_index', m) - Slot(i, next_index', m) = n - p
      BY <1>1, <1>2, <2>2, <2>3
    <3>2. observations'[j].unix_timestamp = now
      BY <1>2, <2>3
    <3> DEFINE w == IF next_index = 0 THEN n ELSE next_index
    <3>3. w \in 1..n /\ Slot(w, next_index, n) = n - 1
      <4>1. n \in Nat \ {0}
        BY <1>1, <2>2
      <4> QED
        BY <1>5, <4>1, LastPlace
    <3> HIDE DEF w, p
    <3>4. now - observations[i].unix_timestamp >= (n - p) * s
      <4>1. CASE p = n - 1
        <5>1. n - p = 1 /\ 1 * s = s
          BY <1>1, <1>4, <4>1
        <5> QED
          BY <1>4, <2>2, <5>1
      <4>2. CASE p # n - 1
        <5>1. p < n - 1
          BY <1>1, <3>1, <4>2
        <5>2. observations[w].unix_timestamp - observations[i].unix_timestamp
                >= (n - 1 - p) * s
          BY <1>3, <2>2, <3>3, <5>1 DEF p
        <5>3. (n - p) * s = (n - 1 - p) * s + s
          <6>1. n - 1 - p \in Nat
            BY <1>1, <3>1
          <6>2. ((n - 1 - p) + 1) * s = (n - 1 - p) * s + 1 * s
            BY <1>4, <6>1, Distributes
          <6>3. (n - 1 - p) + 1 = n - p /\ 1 * s = s
            BY <1>1, <1>4, <3>1
          <6> QED
            BY <6>2, <6>3
        <5>4. (n - 1 - p) * s \in Int
          BY <1>1, <1>4, <3>1
        <5>5. now - observations[w].unix_timestamp >= s
          BY <1>4, <3>3
        <5>6. observations[w].unix_timestamp \in Nat /\ observations[i].unix_timestamp \in Nat
          BY <1>4, <2>2, <3>3
        <5> HIDE DEF s
        <5> QED
          BY <1>4, <5>2, <5>3, <5>4, <5>5, <5>6
      <4> QED
        BY <4>1, <4>2
    <3> QED
      BY <2>2, <3>1, <3>2, <3>4
  <2>4. CASE j # e
    <3>1. /\ j \in 1..n /\ observations'[j] = observations[j]
          /\ Slot(j, next_index, n) \in 0..(n - 1)
          /\ Slot(j, next_index', m) = Slot(j, next_index, n) - (n + 1 - m)
      BY <1>2, <2>4
    <3>2. /\ Slot(i, next_index, n) < Slot(j, next_index, n)
          /\ Slot(j, next_index', m) - Slot(i, next_index', m)
               = Slot(j, next_index, n) - Slot(i, next_index, n)
      BY <1>1, <1>7, <2>2, <3>1
    <3> QED
      BY <1>3, <2>2, <3>1, <3>2
  <2> QED
    BY <2>3, <2>4
<1> QED
  BY <1>1, <1>7 DEF Spaced, Place, Slot, m, s

\* A history that was enough is enough with one observation more: either it has lost
\* none, or it is full, and a full ring spans enough.
LEMMA RecordingKeepsEnough ==
  ASSUME MarketInv, RingInOrder, Recorded, Spaced', config' = config, RingHoldsSpan,
         is_bootstrapped(observations, config),
         NEW a \in Pools, NEW b \in Pools, RefreshMarketOracle(a, b)
  PROVE  is_bootstrapped(observations', config)
<1> DEFINE n == Len(observations)
           m == Len(observations')
           C == OBSERVATION_CAPACITY
           span == config.min_span_seconds
<1>1. /\ n \in Nat /\ m \in {n, n + 1} /\ m # 0
      /\ DOMAIN observations = 1..n /\ DOMAIN observations' = 1..m
      /\ m = n => n = C
      /\ next_index' \in 0..m
  BY RecordingMovesPlaces, Zenon
<1>2. PICK e \in 1..m :
        /\ observations'[e].unix_timestamp = now
        /\ Slot(e, next_index', m) = m - 1
        /\ \A i \in (1..m) \ {e} :
             /\ i \in 1..n
             /\ observations'[i] = observations[i]
             /\ Slot(i, next_index, n) \in 0..(n - 1)
             /\ Slot(i, next_index', m) = Slot(i, next_index, n) - (n + 1 - m)
  BY RecordingMovesPlaces, Zenon
<1>3. /\ observations \in Ring /\ observations' \in Ring /\ now \in Nat
      /\ UpTo(observations, now) /\ UpTo(observations', now)
  <2>1. observations \in Ring /\ now \in Nat
    BY InvRing
  <2>2. observations' \in Ring /\ UpTo(observations', now)
    BY RefreshIsSound
  <2> QED
    BY <2>1, <2>2 DEF MarketInv
<1>4. /\ config.min_spacing_seconds \in Nat /\ span \in Nat /\ C \in Nat
      /\ config.min_observations \in Nat /\ config.min_observations >= 2
  BY HistoryParams
<1>5. n >= config.min_observations /\ span_seconds(observations) >= span
  BY DEF is_bootstrapped
<1>6. observations # <<>> /\ observations' # <<>>
  <2>1. n # 0 /\ m # 0
    <3> HIDE DEF n, m, span
    <3> QED
      BY <1>1, <1>4, <1>5
  <2> QED
    BY <2>1
<1>7. /\ span_seconds(observations') \in Nat
      /\ \A i, j \in DOMAIN observations' :
           observations'[j].unix_timestamp - observations'[i].unix_timestamp
             <= span_seconds(observations')
  BY <1>3, <1>6, SpanIsWidest
<1> HIDE DEF m, n, C, span
<1>8. span_seconds(observations') >= span
  <2>1. CASE m = n + 1
    <3>1. PICK i \in DOMAIN observations, j \in DOMAIN observations :
            span_seconds(observations)
              = observations[j].unix_timestamp - observations[i].unix_timestamp
      BY <1>3, <1>6, SpanIsWidest
    <3>2. \A k \in 1..n : k # e
      <4>1. ASSUME NEW k \in 1..n, k = e PROVE FALSE
        <5>1. \A x \in (1..m) \ {e} : x \in 1..n
          BY <1>2
        <5>2. n + 1 \in (1..m) \ {e}
          <6>1. n \in Nat /\ n + 1 # k
            BY <1>1, <4>1
          <6> QED
            BY <2>1, <4>1, <6>1
        <5>3. n + 1 \in 1..n
          BY <5>1, <5>2
        <5> QED
          BY <1>1, <5>3
      <4> QED
        BY <4>1
    <3>3. \A k \in 1..n : k \in 1..m /\ observations'[k] = observations[k]
      <4>1. \A k \in 1..n : k \in (1..m) \ {e}
        BY <1>1, <2>1, <3>2
      <4> QED
        BY <1>2, <4>1
    <3>4. observations[j].unix_timestamp - observations[i].unix_timestamp
            <= span_seconds(observations')
      BY <1>1, <1>7, <3>1, <3>3
    <3>5. span_seconds(observations) \in Nat
      BY <1>3, <1>6, SpanIsWidest
    <3> QED
      BY <1>4, <1>5, <1>7, <3>1, <3>4, <3>5
  <2>2. CASE m = n
    <3>1. m = C /\ m >= 2
      BY <1>1, <1>4, <1>5, <2>2
    <3> DEFINE o == IF next_index' = m THEN 1 ELSE next_index' + 1
    <3>2. o \in 1..m /\ Slot(o, next_index', m) = 0
      <4>1. m \in Nat \ {0} /\ next_index' \in 0..m
        BY <1>1
      <4> QED
        BY <4>1, FirstPlace
    <3> HIDE DEF o
    <3>3. Slot(o, next_index', m) < Slot(e, next_index', m)
      BY <1>1, <1>2, <3>1, <3>2
    <3>4. observations'[e].unix_timestamp - observations'[o].unix_timestamp
            >= (Slot(e, next_index', m) - Slot(o, next_index', m)) * config.min_spacing_seconds
      <4>1. config'.min_spacing_seconds = config.min_spacing_seconds
        OBVIOUS
      <4> QED
        BY <1>1, <1>2, <3>2, <3>3, <4>1 DEF Spaced, Place, Slot, m
    <3>5. Slot(e, next_index', m) - Slot(o, next_index', m) = C - 1
      BY <1>1, <1>2, <1>4, <3>1, <3>2
    <3>6. (C - 1) * config.min_spacing_seconds >= span
      BY DEF RingHoldsSpan, C, span
    <3>7. observations'[e].unix_timestamp - observations'[o].unix_timestamp
            <= span_seconds(observations')
      BY <1>1, <1>2, <1>7, <3>2
    <3>8. /\ observations'[e].unix_timestamp \in Nat
          /\ observations'[o].unix_timestamp \in Nat
      BY <1>1, <1>2, <1>3, <3>2, RingEntries
    <3>9. (C - 1) * config.min_spacing_seconds \in Int
      BY <1>4
    <3> QED
      BY <1>4, <1>7, <3>4, <3>5, <3>6, <3>7, <3>8, <3>9
  <2> QED
    BY <1>1, <2>1, <2>2
<1>9. m >= config.min_observations
  BY <1>1, <1>4, <1>5
<1> QED
  BY <1>8, <1>9 DEF is_bootstrapped, m, span

\* A history that is enough for bootstrap stays enough while the configuration
\* stands, for every length of the ring that can hold the span (the ring keeps what
\* MarketOracleConfig::validate is there for).
THEOREM BootstrapIsAlwaysKept == Spec => BootstrapIsKept
<1> DEFINE Kept == config' = config /\ Spaced =>
                     /\ Spaced'
                     /\ RingHoldsSpan /\ is_bootstrapped(observations, config) =>
                          is_bootstrapped(observations', config')
<1>1. MarketInv /\ RingInOrder /\ [Next]_vars => [Kept]_vars
  <2> SUFFICES ASSUME MarketInv, RingInOrder, [Next]_vars, config' = config, Spaced
               PROVE  /\ Spaced'
                      /\ RingHoldsSpan /\ is_bootstrapped(observations, config) =>
                           is_bootstrapped(observations', config')
    OBVIOUS
  <2>1. CASE \E a, b \in Pools : Recorded /\ RefreshMarketOracle(a, b)
    <3>1. PICK a \in Pools, b \in Pools : Recorded /\ RefreshMarketOracle(a, b)
      BY <2>1
    <3>2. Spaced'
      BY <3>1, RecordingKeepsSpacing
    <3>3. RingHoldsSpan /\ is_bootstrapped(observations, config) =>
            is_bootstrapped(observations', config)
      BY <3>1, <3>2, RecordingKeepsEnough
    <3> QED
      BY <3>2, <3>3
  <2>2. CASE \/ \E a, b \in Pools : ~ Recorded /\ RefreshMarketOracle(a, b)
             \/ Tick \/ Redeploy \/ ApplyPendingMarketOracleConfig
             \/ \E cfg \in Configs : SetMarketOracleConfig(cfg)
             \/ \E source_changed \in BOOLEAN : SetOracle(source_changed)
             \/ UNCHANGED vars
    <3>1. observations' = observations /\ next_index' = next_index
      BY <2>2 DEF RefreshMarketOracle, RingAfter, Tick, Redeploy,
                  ApplyPendingMarketOracleConfig, SetMarketOracleConfig,
                  SetOracle, ring_vars, vars
    <3> QED
      BY <3>1 DEF Spaced, Place
  <2> QED
    BY <2>1, <2>2 DEF Next
<1> QED
  BY <1>1, MarketInvariant, RingStaysInOrder, PTL DEF Spec, BootstrapIsKept

-------------------------------------------------------------------------------
\* The queue of the configuration.

\* evaluate_market case by case: what it accepts, and when it permits new risk.
LEMMA WhatIsAccepted ==
  ASSUME NEW held \in Nat, NEW average \in Nat, NEW bootstrapped, NEW age,
         NEW degraded \in BOOLEAN, NEW cfg
  PROVE  evaluate_market(held, average, bootstrapped, age, degraded, cfg).accepted_price
           = IF held = 0 \/ average <= held THEN average
             ELSE IF degraded THEN held
             ELSE IF move_bps(held, average) <= cfg.max_rise_bps_per_window THEN average
             ELSE AtMost(CappedRise(held, cfg), average)
<1> DEFINE v == evaluate_market(held, average, bootstrapped, age, degraded, cfg)
<1> USE DEF Verdict
<1>1. CASE held = 0
  BY <1>1 DEF evaluate_market
<1>2. CASE held # 0 /\ average <= held
  BY <1>2 DEF evaluate_market
<1>3. CASE held # 0 /\ average > held /\ degraded
  BY <1>3 DEF evaluate_market
<1>4. CASE held # 0 /\ average > held /\ ~ degraded
  BY <1>4 DEF evaluate_market
<1> QED
  BY <1>1, <1>2, <1>3, <1>4

Opening(held, average, bootstrapped, age, degraded, cfg) ==
  /\ held # 0 /\ bootstrapped /\ ~ degraded
  /\ AgeHealth(age, cfg) # "BorrowFrozen"
  /\ average <= held \/ move_bps(held, average) <= cfg.max_rise_bps_per_window

LEMMA WhenItOpens ==
  ASSUME NEW held \in Nat, NEW average \in Nat, NEW bootstrapped \in BOOLEAN,
         NEW age \in Int, NEW degraded \in BOOLEAN, NEW cfg
  PROVE  evaluate_market(held, average, bootstrapped, age, degraded, cfg).health
             \in {"Healthy", "RateWarning"}
           <=> Opening(held, average, bootstrapped, age, degraded, cfg)
<1> DEFINE floor  == IF bootstrapped THEN "Healthy" ELSE "Bootstrapping"
           frozen == worse("BorrowFrozen", floor)
           aged   == worse(AgeHealth(age, cfg), floor)
           open   == {"Healthy", "RateWarning"}
           v      == evaluate_market(held, average, bootstrapped, age, degraded, cfg)
<1> USE DEF Opening
<1>1. /\ frozen \notin open
      /\ worse(AgeHealth(age, cfg), frozen) \notin open
      /\ aged \in open <=> bootstrapped /\ AgeHealth(age, cfg) # "BorrowFrozen"
  BY Restriction
<1> HIDE DEF frozen, aged
<1>2. CASE held = 0
  <2>1. v.health = "Bootstrapping"
    BY <1>2 DEF evaluate_market, Verdict
  <2> QED
    BY <1>2, <2>1
<1>3. CASE held # 0 /\ average <= held
  <2>1. v.health = IF degraded THEN worse(AgeHealth(age, cfg), frozen) ELSE aged
    BY <1>3 DEF evaluate_market, Verdict, frozen, aged
  <2> QED
    BY <1>1, <1>3, <2>1
<1>4. CASE held # 0 /\ average > held /\ degraded
  <2>1. v.health = frozen
    BY <1>4 DEF evaluate_market, Verdict, frozen
  <2> QED
    BY <1>1, <1>4, <2>1
<1>5. CASE held # 0 /\ average > held /\ ~ degraded
  <2>1. v.health = IF move_bps(held, average) <= cfg.max_rise_bps_per_window
                   THEN aged ELSE frozen
    BY <1>5 DEF evaluate_market, Verdict, frozen, aged
  <2>2. ~ (average <= held)
    BY <1>5
  <2> QED
    BY <1>1, <1>5, <2>1, <2>2
<1> QED
  BY <1>2, <1>3, <1>4, <1>5

\* The fields that is_tightening_from compares, as the arguments below use them.
LEMMA TighterFields ==
  ASSUME NEW current \in MarketOracleConfig, NEW next \in MarketOracleConfig,
         is_tightening_from(current, next)
  PROVE  /\ next.expected_deploy_slot = current.expected_deploy_slot
         /\ {current.max_cross_pool_deviation_bps, next.max_cross_pool_deviation_bps,
             current.min_pool_quote_depth, next.min_pool_quote_depth,
             current.max_rise_bps_per_window, next.max_rise_bps_per_window,
             current.min_spacing_seconds, next.min_spacing_seconds,
             current.max_observation_age_seconds, next.max_observation_age_seconds,
             current.min_observations, next.min_observations,
             current.min_span_seconds, next.min_span_seconds} \subseteq Nat
         /\ next.max_cross_pool_deviation_bps <= current.max_cross_pool_deviation_bps
         /\ next.max_observation_age_seconds <= current.max_observation_age_seconds
         /\ next.max_rise_bps_per_window <= current.max_rise_bps_per_window
         /\ next.min_observations >= current.min_observations
         /\ next.min_span_seconds >= current.min_span_seconds
         /\ next.min_spacing_seconds >= current.min_spacing_seconds
         /\ next.min_pool_quote_depth >= current.min_pool_quote_depth
BY DEF MarketOracleConfig, is_tightening_from

\* A tighter configuration judges no reading more kindly.
LEMMA JudgedNoLooser ==
  ASSUME NEW current \in MarketOracleConfig, NEW next \in MarketOracleConfig,
         is_tightening_from(current, next),
         NEW held \in Nat, NEW average \in Nat, NEW gap \in Nat,
         NEW e1 \in BOOLEAN, NEW e2 \in BOOLEAN, e2 => e1,
         NEW d1 \in BOOLEAN, NEW d2 \in BOOLEAN, d1 => d2
  PROVE  /\ Judged(next, held, average, e2, gap, d2).price
              <= Judged(current, held, average, e1, gap, d1).price
         /\ Judged(next, held, average, e2, gap, d2).opens
              => Judged(current, held, average, e1, gap, d1).opens
<1> DEFINE old == evaluate_market(held, average, e1, gap, d1, current)
           new == evaluate_market(held, average, e2, gap, d2, next)
           before == old.accepted_price
           after  == new.accepted_price
           move   == move_bps(held, average)
<1>1. /\ current.max_rise_bps_per_window \in Nat /\ next.max_rise_bps_per_window \in Nat
      /\ next.max_rise_bps_per_window <= current.max_rise_bps_per_window
      /\ current.min_spacing_seconds \in Nat /\ next.min_spacing_seconds \in Nat
      /\ next.min_spacing_seconds >= current.min_spacing_seconds
      /\ current.max_observation_age_seconds \in Nat /\ next.max_observation_age_seconds \in Nat
      /\ next.max_observation_age_seconds <= current.max_observation_age_seconds
  BY TighterFields
<1>2. held # 0 => move \in Nat
  <2>1. abs_diff(held, average) \in Nat /\ BPS_DENOMINATOR \in Nat
    BY ScaleAssumption DEF abs_diff
  <2> QED
    BY <2>1, FloorNat DEF move_bps
<1>3. before = IF held = 0 \/ average <= held THEN average
               ELSE IF d1 THEN held
               ELSE IF move <= current.max_rise_bps_per_window THEN average
               ELSE AtMost(CappedRise(held, current), average)
  BY WhatIsAccepted
<1>4. after = IF held = 0 \/ average <= held THEN average
              ELSE IF d2 THEN held
              ELSE IF move <= next.max_rise_bps_per_window THEN average
              ELSE AtMost(CappedRise(held, next), average)
  BY WhatIsAccepted
<1>5. held # 0 => /\ CappedRise(held, current) \in Nat /\ CappedRise(held, next) \in Nat
                  /\ held <= CappedRise(held, next)
                  /\ CappedRise(held, next) <= CappedRise(held, current)
  <2>1. SUFFICES ASSUME held # 0
                 PROVE  /\ CappedRise(held, current) \in Nat /\ CappedRise(held, next) \in Nat
                        /\ held <= CappedRise(held, next)
                        /\ CappedRise(held, next) <= CappedRise(held, current)
    OBVIOUS
  <2>2. /\ BPS_DENOMINATOR \in Nat \ {0}
        /\ BPS_DENOMINATOR + next.max_rise_bps_per_window \in Nat
        /\ BPS_DENOMINATOR + current.max_rise_bps_per_window \in Nat
        /\ BPS_DENOMINATOR + next.max_rise_bps_per_window
              <= BPS_DENOMINATOR + current.max_rise_bps_per_window
    BY <1>1, ScaleAssumption
  <2>3. CappedRise(held, next) <= CappedRise(held, current)
    BY <2>2, FloorMonotone DEF CappedRise
  <2> QED
    BY <2>1, <2>3, CappedRiseBounds
<1> HIDE DEF move, before, after
<1>6. before \in Nat /\ after \in Nat /\ after <= before
  <2>1. CASE held = 0 \/ average <= held
    BY <1>3, <1>4, <2>1
  <2>2. CASE held # 0 /\ ~ (average <= held) /\ d2
    BY <1>3, <1>4, <1>5, <2>2 DEF AtMost
  <2>3. CASE held # 0 /\ ~ (average <= held) /\ ~ d2
    BY <1>1, <1>2, <1>3, <1>4, <1>5, <2>3 DEF AtMost
  <2> QED
    BY <2>1, <2>2, <2>3
<1>7. Judged(next, held, average, e2, gap, d2).price
        <= Judged(current, held, average, e1, gap, d1).price
  <2>1. Judged(current, held, average, e1, gap, d1).price
          = IF gap < current.min_spacing_seconds /\ held # 0 THEN AtMost(before, held) ELSE before
    BY DEF Judged, before
  <2>2. Judged(next, held, average, e2, gap, d2).price
          = IF gap < next.min_spacing_seconds /\ held # 0 THEN AtMost(after, held) ELSE after
    BY DEF Judged, after
  <2>3. gap < current.min_spacing_seconds => gap < next.min_spacing_seconds
    BY <1>1
  <2> QED
    BY <1>6, <2>1, <2>2, <2>3 DEF AtMost
<1>8. Judged(next, held, average, e2, gap, d2).opens
        => Judged(current, held, average, e1, gap, d1).opens
  <2> DEFINE open == {"Healthy", "RateWarning"}
  <2>gap. gap \in Int
    OBVIOUS
  <2>new. new.health \in open <=> Opening(held, average, e2, gap, d2, next)
    BY <2>gap, WhenItOpens
  <2>old. old.health \in open <=> Opening(held, average, e1, gap, d1, current)
    BY <2>gap, WhenItOpens
  <2>1. SUFFICES ASSUME new.health \in open PROVE old.health \in open
    BY DEF Judged
  <2> HIDE DEF new, old, open
  <2>2. /\ held # 0 /\ e2 /\ ~ d2 /\ AgeHealth(gap, next) # "BorrowFrozen"
        /\ average <= held \/ move <= next.max_rise_bps_per_window
    BY <2>1, <2>new DEF move, Opening
  <2>3. AgeHealth(gap, current) # "BorrowFrozen"
    <3>1. ~ (gap >= next.max_observation_age_seconds)
      BY <1>1, <2>2 DEF AgeHealth
    <3>2. ~ (gap >= current.max_observation_age_seconds)
      BY <1>1, <3>1
    <3> QED
      BY <3>2 DEF AgeHealth
  <2>4. average <= held \/ move <= current.max_rise_bps_per_window
    BY <1>1, <1>2, <2>2
  <2> QED
    BY <2>2, <2>3, <2>4, <2>old DEF move, Opening
<1> QED
  BY <1>7, <1>8

\* What is_tightening_from decides field by field judges no average more kindly, for
\* every pair of pools, every history and every reading.
LEMMA TighterJudges ==
  ASSUME NEW current \in MarketOracleConfig, NEW next \in MarketOracleConfig,
         is_tightening_from(current, next),
         NEW averages, \A pair \in averages : pair[1] \in Nat /\ pair[2] = pair[1]
  PROVE  NoLooserJudge(current, next, averages)
<1>1. next.expected_deploy_slot = current.expected_deploy_slot
  BY TighterFields
<1>2. ASSUME NEW a \in Pools, NEW b \in Pools, Priced(a, b), Degraded(a, b, current)
      PROVE  Degraded(a, b, next)
  <2>1. deviation_bps(a, b) \in Nat
    BY <1>2, DeviationNat
  <2>2. a.quote \in Nat /\ b.quote \in Nat
    BY MarketAssumption DEF PoolState
  <2> QED
    BY <1>2, <2>1, <2>2, TighterFields DEF Degraded, Shallow
<1>3. ASSUME NEW count \in 0..OBSERVATION_CAPACITY, NEW span \in SampleAges,
             Enough(next, count, span)
      PROVE  Enough(current, count, span)
  <2>1. count \in Nat /\ span \in Nat
    BY MarketAssumption, SampleAssumption
  <2> QED
    BY <1>3, <2>1, TighterFields DEF Enough
<1>4. ASSUME NEW held \in SamplePrices, NEW average \in averages, NEW gap \in SampleAges,
             NEW sound \in {<<FALSE, FALSE>>, <<TRUE, FALSE>>, <<TRUE, TRUE>>},
             NEW enough \in {<<FALSE, FALSE>>, <<TRUE, FALSE>>, <<TRUE, TRUE>>}
      PROVE  LET old == Judged(current, held, average[1], enough[1], gap, ~ sound[1])
                 new == Judged(next, held, average[2], enough[2], gap, ~ sound[2])
             IN new.price <= old.price /\ (new.opens => old.opens)
  <2>1. held \in Nat /\ average[1] \in Nat /\ average[2] = average[1] /\ gap \in Nat
    BY SampleAssumption
  <2>2. \A pair \in {<<FALSE, FALSE>>, <<TRUE, FALSE>>, <<TRUE, TRUE>>} :
          pair[1] \in BOOLEAN /\ pair[2] \in BOOLEAN /\ (pair[2] => pair[1])
    <3>1. <<FALSE, FALSE>>[1] = FALSE /\ <<FALSE, FALSE>>[2] = FALSE
      OBVIOUS
    <3>2. <<TRUE, FALSE>>[1] = TRUE /\ <<TRUE, FALSE>>[2] = FALSE
      OBVIOUS
    <3>3. <<TRUE, TRUE>>[1] = TRUE /\ <<TRUE, TRUE>>[2] = TRUE
      OBVIOUS
    <3> QED
      BY <3>1, <3>2, <3>3, Zenon
  <2>3. /\ enough[1] \in BOOLEAN /\ enough[2] \in BOOLEAN /\ (enough[2] => enough[1])
        /\ sound[1] \in BOOLEAN /\ sound[2] \in BOOLEAN /\ (sound[2] => sound[1])
    BY <2>2, Zenon
  <2>4. /\ (~ sound[1]) \in BOOLEAN /\ (~ sound[2]) \in BOOLEAN
        /\ ~ sound[1] => ~ sound[2]
    BY <2>3, Zenon
  <2>5. /\ Judged(next, held, average[1], enough[2], gap, ~ sound[2]).price
             <= Judged(current, held, average[1], enough[1], gap, ~ sound[1]).price
        /\ Judged(next, held, average[1], enough[2], gap, ~ sound[2]).opens
             => Judged(current, held, average[1], enough[1], gap, ~ sound[1]).opens
    <3> DEFINE e1 == enough[1]
               e2 == enough[2]
               d1 == ~ sound[1]
               d2 == ~ sound[2]
               a  == average[1]
    <3>1. /\ held \in Nat /\ a \in Nat /\ gap \in Nat
          /\ e1 \in BOOLEAN /\ e2 \in BOOLEAN /\ (e2 => e1)
          /\ d1 \in BOOLEAN /\ d2 \in BOOLEAN /\ (d1 => d2)
      BY <2>1, <2>3, <2>4, Zenon
    <3> HIDE DEF e1, e2, d1, d2, a
    <3>2. /\ Judged(next, held, a, e2, gap, d2).price
               <= Judged(current, held, a, e1, gap, d1).price
          /\ Judged(next, held, a, e2, gap, d2).opens
               => Judged(current, held, a, e1, gap, d1).opens
      BY <3>1, JudgedNoLooser, Zenon
    <3> QED
      BY <3>2, Zenon DEF e1, e2, d1, d2, a
  <2> QED
    BY <2>1, <2>5, Zenon
<1> QED
  BY <1>1, <1>2, <1>3, <1>4 DEF NoLooserJudge

\* What is_tightening_from accepts is a tightening on every average; and where it
\* leaves the averaging window alone, it is one of every history there can be, whose
\* average is the same before and after.
THEOREM MarketTighteningIsNoLooser ==
  ASSUME NEW current \in MarketOracleConfig, NEW next \in MarketOracleConfig,
         is_tightening_from(current, next)
  PROVE  /\ NoLooserOnOneAverage(current, next)
         /\ next.twap_window_seconds = current.twap_window_seconds =>
              \A ring \in Ring \ {<<>>}, time \in Nat : UpTo(ring, time) =>
                NoLooserJudge(current, next,
                              {<<twap(ring, time, current.twap_window_seconds),
                                 twap(ring, time, next.twap_window_seconds)>>})
<1>1. NoLooserOnOneAverage(current, next)
  <2>1. \A pair \in SameAverages : pair[1] \in Nat /\ pair[2] = pair[1]
    BY SampleAssumption DEF SameAverages
  <2>2. NoLooserJudge(current, next, SameAverages)
    BY <2>1, TighterJudges
  <2> QED
    BY <2>2 DEF NoLooserOnOneAverage
<1>2. ASSUME next.twap_window_seconds = current.twap_window_seconds,
             NEW ring \in Ring \ {<<>>}, NEW time \in Nat, UpTo(ring, time)
      PROVE  NoLooserJudge(current, next,
                           {<<twap(ring, time, current.twap_window_seconds),
                              twap(ring, time, next.twap_window_seconds)>>})
  <2> DEFINE mean == twap(ring, time, current.twap_window_seconds)
  <2>1. ring \in Ring /\ ring # <<>> /\ current.twap_window_seconds \in Nat
    BY <1>2 DEF MarketOracleConfig
  <2>2. mean \in Nat
    BY <1>2, <2>1, TwapIsSeen
  <2> HIDE DEF mean
  <2>3. \A pair \in {<<mean, mean>>} : pair[1] \in Nat /\ pair[2] = pair[1]
    BY <2>2
  <2>4. NoLooserJudge(current, next, {<<mean, mean>>})
    BY <2>3, TighterJudges
  <2> QED
    BY <1>2, <2>4 DEF mean
<1> QED
  BY <1>1, <1>2

\* Every change of the configuration judges no average more kindly or has waited.
THEOREM JudgementAlwaysFollows == Spec => JudgementFollowsTheRule
<1> USE DEF MarketParams!change_vars
<1>1. Init => MarketParams!Init
  BY DEF Init, NoPending, MarketParams!Init
<1>2. ASSUME MarketInv, [Next]_vars
      PROVE  [MarketParams!Next]_(MarketParams!change_vars)
  <2>1. CASE Tick
    BY <2>1 DEF Tick, param_vars, MarketParams!Next, MarketParams!TimePasses
  <2>2. CASE \E cfg \in Configs : SetMarketOracleConfig(cfg)
    <3>1. PICK cfg \in Configs : SetMarketOracleConfig(cfg)
      BY <2>2
    <3>2. /\ config \in MarketOracleConfig /\ cfg \in MarketOracleConfig
          /\ pending \in [config : MarketOracleConfig, eta : Nat] /\ now' = now
      BY <1>2, <3>1, MarketAssumption DEF MarketInv, TypeOK, SetMarketOracleConfig
    <3>3. CASE is_tightening_from(config, cfg)
      <4>1. config' = cfg /\ pending'.eta = 0
        BY <3>1, <3>2, <3>3 DEF SetMarketOracleConfig
      <4>2. NoLooserOnOneAverage(config, config')
        BY <3>2, <3>3, <4>1, MarketTighteningIsNoLooser
      <4> QED
        BY <3>2, <4>1, <4>2 DEF MarketParams!Next, MarketParams!Restrict
    <3>4. CASE ~ is_tightening_from(config, cfg)
      <4>1. config' = config /\ pending'.eta = now + PARAM_TIMELOCK_SECONDS
        BY <3>1, <3>4 DEF SetMarketOracleConfig
      <4> QED
        BY <3>2, <4>1 DEF MarketParams!Next, MarketParams!Announce
    <3> QED
      BY <3>3, <3>4
  <2>3. CASE ApplyPendingMarketOracleConfig
    <3>1. pending \in [config : MarketOracleConfig, eta : Nat]
      BY <1>2 DEF MarketInv, TypeOK
    <3>2. /\ pending.eta # 0 /\ now >= pending.eta
          /\ config' = pending.config /\ pending'.eta = 0 /\ now' = now
      BY <2>3, <3>1 DEF ApplyPendingMarketOracleConfig
    <3> QED
      BY <3>2 DEF MarketParams!Next, MarketParams!Enact
  <2>4. CASE \/ Redeploy \/ UNCHANGED vars
             \/ \E a, b \in Pools : RefreshMarketOracle(a, b)
             \/ \E source_changed \in BOOLEAN : SetOracle(source_changed)
    <3>1. now' = now /\ config' = config /\ pending' = pending
      BY <2>4 DEF Redeploy, RefreshMarketOracle, SetOracle, param_vars, vars
    <3> QED
      BY <3>1
  <2> QED
    BY <1>2, <2>1, <2>2, <2>3, <2>4 DEF Next
<1> QED
  BY <1>1, <1>2, MarketInvariant, PTL
     DEF Spec, JudgementFollowsTheRule, MarketParams!Spec
===============================================================================
