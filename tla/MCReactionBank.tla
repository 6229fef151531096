--------------------------- MODULE MCReactionBank ---------------------------
(***************************************************************************)
(* ReactionBank with a user who changes the persona and changes it back.   *)
(* The keys are alike.                                                     *)
(***************************************************************************)
EXTENDS ReactionBank, TLC
CONSTANTS plain, cheeky, lift, morning

ThereAndBack == <<cheeky, plain>>
AnyKey == Permutations({lift, morning})
=============================================================================
