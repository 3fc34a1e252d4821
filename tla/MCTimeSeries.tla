---------------------------- MODULE MCTimeSeries ----------------------------
(* Model-checking instance of TimeSeries: three records, two small enough  *)
(* for the cache (a, b) and one over MAX_CHUNK_SIZE (c); segments that fill *)
(* after two frames, and a cache that holds two entries.                    *)
EXTENDS TimeSeries, TLC

CONSTANTS a, b, c

MCRecs == {a, b, c}
MCRecSize == (a :> 1) @@ (b :> 1) @@ (c :> 2)
=============================================================================
