------------------------- MODULE MCMotionInvention -------------------------
(***************************************************************************)
(* Two questions in one instance, of which a behaviour asks one: either    *)
(* MotionInvention with three commands, and a model that may give a motion *)
(* the name of another, no name, or no beat; or Choreography with every    *)
(* text of up to MaxLines of the lines below, and texts with a beat too    *)
(* many.  What may be written beyond SomeTexts only matters to the latter. *)
(***************************************************************************)
EXTENDS MotionInvention, Choreography

CONSTANTS FirstAsk, SecondAsk, ThirdAsk, MaxLines

ThreeAsks == <<FirstAsk, SecondAsk, ThirdAsk>>
Beat(words) == [label |-> "beat", words |-> words]
Called(name) == [label |-> "name", words |-> <<name>>]
SomeTexts ==
    {<<Called("wave"), Beat(<<"left", "high">>)>>,
     <<Beat(<<"hold", "low">>), Beat(<<"up", "accent">>)>>,
     <<[label |-> "none", words |-> <<"sorry">>]>>}
SameWords(a, b) == {a, b} = {"wave", "big wave"}

Leap == Beat(<<"left", "high", "pink">>)
Pause == Beat(<<"hold", "downright", "low">>)
Lines ==
    {Leap, Pause, Beat(<<"middle", "middle", "off">>), Called("wave"),
     Called("bow and bow bow again"),
     [label |-> "none", words |-> <<"right", "low", "hold", "accent">>],
     [label |-> "none", words |-> <<"high", "spirits">>]}
SomeDrafts == UNION {[1..n -> Lines] : n \in 1..MaxLines}
                  \cup [1..(MaxBeats + 1) -> {Leap, Pause}]

(* Stand-ins: a curve faster than twice the straight line, no chance, and   *)
(* names that are clean but one, whose sixteenth character is a blank.      *)
Size(n) == Max({n, -n})
SteepCurve(poses, i) ==
    5 + 2 * Max({Size(poses[i + 1][1] - poses[i][1]), Size(poses[i + 1][2] - poses[i][2])})
NoChance(name, k) == IF name = "wave" THEN 60 - 40 * (k % 4) ELSE -60
CutName(name) ==
    CASE name = "bow and bow bow again" -> "bow and bow bow "
      [] name = "bow and bow bow " -> "bow and bow bow"
      [] OTHER -> name

MCInit == Init /\ SketchInit
MCNext ==
    \/ sketch = Blank /\ InventionNext /\ UNCHANGED sketch
    \/ Init /\ SketchNext /\ UNCHANGED inventionVars
MCSpec == MCInit /\ [][MCNext]_<<inventionVars, sketch>>
=============================================================================
