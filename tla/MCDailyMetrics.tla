--------------------------- MODULE MCDailyMetrics ---------------------------
(* One populator of each kind: a core input, the one that writes columns   *)
(* of DailyMetric and one that only has a table of its own.                *)
EXTENDS DailyMetrics, Sequences

MCPopulators == <<"active_safes", "tx_volume", "token_volume">>

ASSUME Setting
=============================================================================
