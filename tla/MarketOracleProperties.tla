----------------------- MODULE MarketOracleProperties -------------------------
(***************************************************************************)
(* What the market breaker is for: the price follows every fall, rises no  *)
(* faster than it may, never on information it knows to be bad, and opens  *)
(* the market only on a history that spans real time.                      *)
(***************************************************************************)
EXTENDS MarketOracle

CONSTANTS
  SamplePrices,  \* prices and averages, and
  SampleAges     \* gaps and spans, at which two configurations are compared

ASSUME SampleAssumption == SamplePrices \subseteq Nat /\ SampleAges \subseteq Nat

PermitsNewRisk == health \in {"Healthy", "RateWarning"}

Contract == INSTANCE OracleContract WITH slot <- now, rate <- price

\* A refresh after which the average is nothing, because the ring holds a price that
\* rounded down to nothing: read_pool takes a pool whose token is worth less than one
\* unit, and the pool beside it need only be priced above that.
PriceVanishes ==
  /\ \E i \in DOMAIN observations' : observations'[i].price = 0
  /\ price' = 0
  /\ last_refresh_slot' = now
  /\ now' = now

\* The oracle keeps the contract the lending instructions rely on: no refresh
\* takes the price away, new risk is never permitted without one, and
\* reconfiguring shuts it (state/oracle.rs, set_oracle).  One exception: PriceVanishes.
KeepsContract ==
  Contract!Init /\ [][Contract!Next \/ PriceVanishes]_(Contract!contract_vars)

\* Where an observation stands in the order of recording, from 0.
Place(i) == (i - 1 - next_index) % Len(observations)

\* The ring holds the latest observations in the order they were taken, each at
\* another time than the next, also after it has wrapped: what is overwritten is
\* always the oldest (OBSERVATION_CAPACITY, next_index).
RingInOrder ==
  /\ Len(observations) < OBSERVATION_CAPACITY => next_index = Len(observations)
  /\ \A i, j \in DOMAIN observations :
       Place(i) < Place(j) =>
         observations[i].unix_timestamp < observations[j].unix_timestamp

\* Each observation was taken at the configured spacing, or more, after the one
\* before it.
Spaced ==
  \A i, j \in DOMAIN observations :
    Place(i) < Place(j) =>
      observations[j].unix_timestamp - observations[i].unix_timestamp
        >= (Place(j) - Place(i)) * config.min_spacing_seconds

\* A full ring cannot span less than bootstrap asks for.  validate does not compare
\* the two: it bounds the spacing from above only.
RingHoldsSpan ==
  (OBSERVATION_CAPACITY - 1) * config.min_spacing_seconds >= config.min_span_seconds

\* While the configuration stands, the history keeps its spacing, and a history that
\* is enough for bootstrap stays enough: the ring that forgets its oldest observation
\* does not send the market back (MarketOracleConfig::validate is there so that
\* bootstrap can be left).
BootstrapIsKept ==
  [][config' = config /\ Spaced =>
       /\ Spaced'
       /\ RingHoldsSpan /\ is_bootstrapped(observations, config) =>
            is_bootstrapped(observations', config')]_vars

\* Every fall comes through: whatever degraded, skipped or aged readings did in
\* between, the price is never above every observation that is left in the ring
\* (market_breaker.rs "it may never preserve a higher one").
NeverAboveWhatWasSeen ==
  price # 0 => \E i \in DOMAIN observations : price <= observations[i].price

\* New risk always rests on a history of the least span the program allows to be
\* configured, however the configuration, the ring and the source have changed
\* since (refresh_market_oracle.rs "a market cannot open on history that does not
\* span enough real time").
NewRiskRestsOnHistory ==
  PermitsNewRisk =>
    /\ Len(observations) >= 2
    /\ span_seconds(observations) >= MIN_SPAN_SECONDS

\* A rise is rationed: it takes an observation spaced from the one before, from
\* two deep pools that agree, and goes no further than one step of the limit and
\* the average.  No number of refreshes in between adds to it.
RisesAreRationed ==
  [][\A a, b \in Pools :
       price # 0 /\ price' > price /\ RefreshMarketOracle(a, b) =>
         /\ observations # <<>> => Gap >= config.min_spacing_seconds
         /\ Newest(observations') = now
         /\ a.quote >= config.min_pool_quote_depth
         /\ b.quote >= config.min_pool_quote_depth
         /\ deviation_bps(a, b) <= config.max_cross_pool_deviation_bps
         /\ move_bps(price, price') <= config.max_rise_bps_per_window
         /\ price' <= twap(observations', now, config.twap_window_seconds)]_vars

\* The price goes where the market is and never past it: over a ring of one price, as
\* a market at rest leaves it, a refresh falls to that price at once, and rises
\* towards it with each recorded observation of sound pools, unless the price is so
\* small that the limit on a step rounds down to no step at all ("B converges
\* instead", market_breaker.rs).
ApproachesTheMarket ==
  [][\A a, b \in Pools :
       LET level == observations'[1].price IN
       /\ RefreshMarketOracle(a, b)
       /\ \A i \in DOMAIN observations' : observations'[i].price = level
       => /\ price = 0 \/ price >= level => price' = level
          /\ price \in 1..level => price' \in price..level
          /\ /\ price \in 1..(level - 1)
             /\ Recorded
             /\ ~ Degraded(a, b, config)
             /\ price * config.max_rise_bps_per_window >= BPS_DENOMINATOR
             => price' > price]_vars

\* The claim: "an oracle that stopped being refreshed ages into a restriction on
\* its own", by "how much of the history behind it is missing" (market_breaker.rs,
\* refresh_market_oracle.rs).  The observation just taken follows the one before it
\* after a gap that freezes, so nothing is permitted at this moment.
StaleHistoryIsShut ==
  \A t \in Stamps(observations) \ {now} :
    /\ now \in Stamps(observations)
    /\ \A u \in Stamps(observations) \ {now} : u <= t
    /\ now - t >= config.max_observation_age_seconds
    => ~ PermitsNewRisk

-------------------------------------------------------------------------------
\* The queue of the configuration.

\* What one reading does under a configuration: the price accepted, and whether
\* new risk is permitted.  gap is the time since the observation before it.
Judged(cfg, held, average, bootstrapped, gap, degraded) ==
  LET verdict == evaluate_market(held, average, bootstrapped, gap, degraded, cfg)
  IN [price |-> IF gap < cfg.min_spacing_seconds /\ held # 0
                THEN AtMost(verdict.accepted_price, held) ELSE verdict.accepted_price,
      opens |-> verdict.health \in {"Healthy", "RateWarning"}]

Enough(cfg, count, span) == count >= cfg.min_observations /\ span >= cfg.min_span_seconds

\* Under the new configuration no pair of pools is sound that was degraded under
\* the old one, no history is enough that was not, and no reading is taken at a
\* higher price or opens the market where it did not.  averages holds what the old and
\* the new one make of a history, in pairs.
NoLooserJudge(current, next, averages) ==
  /\ next.expected_deploy_slot = current.expected_deploy_slot
  /\ \A a, b \in Pools :
       Priced(a, b) /\ Degraded(a, b, current) => Degraded(a, b, next)
  /\ \A count \in 0..OBSERVATION_CAPACITY, span \in SampleAges :
       Enough(next, count, span) => Enough(current, count, span)
  /\ \A held \in SamplePrices, average \in averages, gap \in SampleAges :
       \* each of the two a pair <<before, after>>: neither turns true
       \A sound, enough \in {<<FALSE, FALSE>>, <<TRUE, FALSE>>, <<TRUE, TRUE>>} :
         LET old == Judged(current, held, average[1], enough[1], gap, ~ sound[1])
             new == Judged(next, held, average[2], enough[2], gap, ~ sound[2])
         IN new.price <= old.price /\ (new.opens => old.opens)

\* The two configurations are compared on one and the same average.
SameAverages == {<<average, average>> : average \in SamplePrices}

NoLooserOnOneAverage(current, next) ==
  next = current \/ NoLooserJudge(current, next, SameAverages)

MarketParams ==
  INSTANCE DelayedChange WITH
    delay <- PARAM_TIMELOCK_SECONDS, live <- config, announced <- pending.config,
    eta <- pending.eta, NoLooser <- NoLooserOnOneAverage

\* What lands at once judges no average more kindly than before; anything else waits
\* out its own announcement (set_market_oracle_config).  One parameter is outside the
\* rule: the averaging window, which is_tightening_from does not compare, so a change
\* that lands at once may bring another window and with it another average.
JudgementFollowsTheRule == MarketParams!Spec
===============================================================================
