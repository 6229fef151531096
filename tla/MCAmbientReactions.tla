------------------------- MODULE MCAmbientReactions -------------------------
(* An instance of AmbientReactions: a drop and a settle of one second, and *)
(* two changes of light.                                                   *)
EXTENDS AmbientReactions, TLC
CONSTANTS drop, settle, dusk, dawn

MCEvents == {drop, settle, dusk, dawn}
MCKind == [e \in {drop, settle} |-> "accel.detected"]
          @@ [e \in {dusk, dawn} |-> "illuminance.changed"]
MCReceivedAt == [e \in MCEvents |-> 1]
MCPersona == [e \in MCEvents |-> "none"]
MCShock == drop :> "dropped" @@ settle :> "normal"
NoGenerators == {}

(* The two changes of light are alike, and without messages and            *)
(* acknowledgments no claim looks at the rowids; the priority of a row     *)
(* that exists is that of its kind.                                        *)
Lights2 == Permutations(Lights)
InsertionOrderAside == <<status, attempts, waiting, loopVars, ambientVars>>
=============================================================================
