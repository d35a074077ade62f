--------------------------- MODULE MCAttestation ---------------------------
(* The rendezvous ranking of three validators for each of the four epochs of a   *)
(* run: the holder set turns over from the first epoch to the second.            *)
EXTENDS Attestation

MCRanking == <<<<"a", "b", "c">>, <<"c", "b", "a">>, <<"a", "b", "c">>, <<"a","b","c">>>>
=============================================================================
