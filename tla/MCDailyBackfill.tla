--------------------------- MODULE MCDailyBackfill ---------------------------
(* The management command is given one day or the whole window.            *)
EXTENDS DailyBackfill

MCRanges == {{1}, Days}
=============================================================================
