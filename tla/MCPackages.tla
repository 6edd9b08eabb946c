----------------------------- MODULE MCPackages -----------------------------
(* The packages that nothing in the repository connects to the store, each *)
(* on a small instance.  They share no state, so a behaviour exercises one *)
(* of them, named by package, and leaves the others alone.                 *)
EXTENDS LRUCache, SharedIndex, Bloom, Stats, TTL, Batch, KeyDir, Codec, Config, CommandLine

CONSTANTS c1, c2, c3, u1, u2, f1, f2, f3, x1, x2, t1, t2, d1, d2

VARIABLE package

packageVars ==
  <<cacheVars, sharedIndexVars, bloomVars, counterVars, historyVars, ttlVars,
    batchVars, keyDirVars, codecVars, configVars, args>>

\* Two filters of one size and a third one, too large to read back; x1's second
\* hash is zero, and the hashes of x2 add up past HashRange.
MCHash1 == [x \in Item |-> IF x = x1 THEN 2 ELSE 5]
MCHash2 == [x \in Item |-> IF x = x1 THEN 0 ELSE 6]
MCBits == [f \in Filter |-> IF f = f3 THEN 6 ELSE 5]
MCHashCount == [f \in Filter |-> 2]
MCUnionPairs == {<<f1, f2>>, <<f2, f3>>}

\* -6 wraps to 2, which the clock has yet to reach, 5 to a time long past.
MCSetTime == {-6, 1, 5}

MCDirList ==
  LET rec(k, tomb) == [key |-> k, tomb |-> tomb]
  IN {<<>>, <<rec(d2, TRUE), rec(d2, FALSE)>>,
      <<rec(d1, FALSE), rec(d2, FALSE), rec(d1, TRUE)>>}

\* The last one is of a length that its prefix does not hold.
MCPayload == {<<>>, <<7>>, <<1, 2>>, <<3, 4, 5>>, <<3, 4, 5, 6, 7>>}

MCInterval == -1 .. 1
MCNumber == -1 .. 2

PackagesInit ==
  /\ package \in {"cache", "index", "bloom", "counters", "history", "ttl",
                  "batch", "keydir", "codec", "config", "command"}
  /\ CacheInit /\ (package # "cache" => capacity = 0)
  /\ SharedIndexInit /\ BloomInit /\ CountersInit /\ HistoryInit
  /\ TTLInit /\ BatchInit /\ KeyDirInit /\ CodecInit /\ ConfigInit /\ CommandLineInit

\* Each package in turn, and what the others keep.
CacheStep ==
  /\ package = "cache" /\ CacheNext
  /\ UNCHANGED <<sharedIndexVars, bloomVars, counterVars, historyVars, ttlVars,
                 batchVars, keyDirVars, codecVars, configVars, args>>
IndexStep ==
  /\ package = "index" /\ SharedIndexNext
  /\ UNCHANGED <<cacheVars, bloomVars, counterVars, historyVars, ttlVars,
                 batchVars, keyDirVars, codecVars, configVars, args>>
BloomStep ==
  /\ package = "bloom" /\ BloomNext
  /\ UNCHANGED <<cacheVars, sharedIndexVars, counterVars, historyVars, ttlVars,
                 batchVars, keyDirVars, codecVars, configVars, args>>
CountersStep ==
  /\ package = "counters" /\ CountersNext
  /\ UNCHANGED <<cacheVars, sharedIndexVars, bloomVars, historyVars, ttlVars,
                 batchVars, keyDirVars, codecVars, configVars, args>>
HistoryStep ==
  /\ package = "history" /\ HistoryNext
  /\ UNCHANGED <<cacheVars, sharedIndexVars, bloomVars, counterVars, ttlVars,
                 batchVars, keyDirVars, codecVars, configVars, args>>
TTLStep ==
  /\ package = "ttl" /\ TTLNext
  /\ UNCHANGED <<cacheVars, sharedIndexVars, bloomVars, counterVars, historyVars,
                 batchVars, keyDirVars, codecVars, configVars, args>>
BatchStep ==
  /\ package = "batch" /\ BatchNext
  /\ UNCHANGED <<cacheVars, sharedIndexVars, bloomVars, counterVars, historyVars,
                 ttlVars, keyDirVars, codecVars, configVars, args>>
KeyDirStep ==
  /\ package = "keydir" /\ KeyDirNext
  /\ UNCHANGED <<cacheVars, sharedIndexVars, bloomVars, counterVars, historyVars,
                 ttlVars, batchVars, codecVars, configVars, args>>
CodecStep ==
  /\ package = "codec" /\ CodecNext
  /\ UNCHANGED <<cacheVars, sharedIndexVars, bloomVars, counterVars, historyVars,
                 ttlVars, batchVars, keyDirVars, configVars, args>>
ConfigStep ==
  /\ package = "config" /\ ConfigNext
  /\ UNCHANGED <<cacheVars, sharedIndexVars, bloomVars, counterVars, historyVars,
                 ttlVars, batchVars, keyDirVars, codecVars, args>>
CommandStep ==
  /\ package = "command" /\ CommandLineNext
  /\ UNCHANGED <<cacheVars, sharedIndexVars, bloomVars, counterVars, historyVars,
                 ttlVars, batchVars, keyDirVars, codecVars, configVars>>

PackagesNext ==
  /\ \/ CacheStep \/ IndexStep \/ BloomStep \/ CountersStep \/ HistoryStep
     \/ TTLStep \/ BatchStep \/ KeyDirStep \/ CodecStep \/ ConfigStep \/ CommandStep
  /\ UNCHANGED package

PackagesSpec ==
  PackagesInit /\ [][PackagesNext]_<<package, packageVars>> /\ BloomFairness
=============================================================================
