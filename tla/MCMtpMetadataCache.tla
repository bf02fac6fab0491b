------------------------- MODULE MCMtpMetadataCache -------------------------
(***************************************************************************)
(* The metadata cache with two ids and two values; an entry is young for   *)
(* one second instead of five.                                             *)
(***************************************************************************)
EXTENDS MtpMetadataCache

CONSTANTS i1, i2, v1, v2

TwoIds    == {i1, i2}
TwoValues == {v1, v2}
=============================================================================
