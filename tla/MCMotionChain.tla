--------------------------- MODULE MCMotionChain ---------------------------
(* Instances of MotionChain: one or two replies and what they perform.     *)
EXTENDS MotionChain, TLC

CONSTANTS first, second, document

TwoPresets == first :> <<"GOOD", "WHAT">> @@ second :> <<"NO">>
TwoOffsets == first :> <<0, 1>> @@ second :> <<0>>

OneMixed == first :> <<document, "GOOD", document>>
OneMixedOffset == first :> <<0, 0, 2>>
=============================================================================
