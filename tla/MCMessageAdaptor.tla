--------------------------- MODULE MCMessageAdaptor ---------------------------
(* MessageAdaptor on pools of four names and four address lines: one more  *)
(* than the three slots, so that the IndexError boundary is reached.       *)
EXTENDS MessageAdaptor

MCGivenPool == <<"Ann", "Beth", "Cara", "Dora">>
MCLinePool == <<"1 High St", "Leeds", "West Yorks", "UK">>

=============================================================================
