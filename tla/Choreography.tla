---------------------------- MODULE Choreography ----------------------------
(***************************************************************************)
(* A design as the robot comes to play it: what a model wrote is read and  *)
(* rendered once to see that it can be (motion_invention.py), its text is  *)
(* all that is kept, and each time it is asked for the text is read and    *)
(* rendered again (events.py).  When and for whom is MotionInvention; what *)
(* becomes of the design is MotionSpec.                                    *)
(***************************************************************************)
EXTENDS MotionSpec

CONSTANTS
    Drafts,     (* the texts a model may write                              *)
    Wished,     (* the themes a motion is asked for by, "" for none         *)
    Budgets     (* the milliseconds a document may be asked to take         *)

(* A text is lines with a label, or none, and words after it.               *)
ASSUME ChoreographyAssumption ==
    /\ Drafts \subseteq Seq([label : {"beat", "name", "none"}, words : Seq(STRING)])
    /\ Wished \subseteq STRING /\ Budgets \subseteq Int

VARIABLE sketch     (* what was invented, what is kept, and what was last   *)
                    (* rendered for how long                                *)

Blank == [text |-> <<>>]
Drawn(invented, text, spec, budget) ==
    [invented |-> invented, text |-> text, spec |-> spec,
     budget |-> budget, document |-> Render(spec, budget)]

SketchInit == sketch = Blank

(* _process: a text without a beat raises, and nothing is kept of it.  One  *)
(* without a name is called by its theme.                                   *)
Invent(draft, theme, budget) ==
    LET spec == Parse(draft, theme)
    IN /\ sketch = Blank /\ spec # None
       /\ sketch' = Drawn(spec, ToText(spec), spec, budget)

(* _invented_motion_document.                                               *)
Replay(budget) ==
    /\ sketch # Blank
    /\ sketch' = Drawn(sketch.invented, sketch.text,
                       Parse(sketch.text, sketch.invented.name), budget)

SketchNext ==
    \E budget \in Budgets :
        \/ \E draft \in Drafts, theme \in Wished : Invent(draft, theme, budget)
        \/ Replay(budget)
SketchSpec == SketchInit /\ [][SketchNext]_sketch
-----------------------------------------------------------------------------
Rendered == sketch # Blank /\ sketch.document # Refused

(* A move keeps the time its curve needs: whatever is generated and however *)
(* small the budget, no move is faster than the rate it aims at, and a move *)
(* of a beat that is kept never takes less than the measured floor.        *)
NeverHurried ==
    Rendered =>
        \A i \in 1..Len(sketch.document.head) :
            LET move == sketch.document.head[i]
            IN /\ AtMost(move, move.rate)
               /\ sketch.document.figure = "full" /\ move.to # <<>> =>
                      move.time >= ShortestMove

(* Every text with a beat in it becomes a motion, and one that leaves the  *)
(* robot as it found it within the budget: the checks of pace, size and    *)
(* length at the end of the renderer are never what decides, all tracks    *)
(* end together, the head ends neutral and the antenna at rest.            *)
ComesHome ==
    sketch # Blank =>
        /\ Rendered
        /\ Total(sketch.document.durations) <= Max({1, sketch.budget})
        /\ Last(sketch.document.head).to = <<0, 0>>
        /\ Last(sketch.document.antenna) \in {<<0>>, <<0, 0>>}

(* What is stored plays as what was invented did: the text a spec is kept  *)
(* as is read back with the same beats, and unless the cut of its name has *)
(* bared an end that the next reading strips, as the same spec, so that it *)
(* is rendered alike every time.                                            *)
PlaysTheSame ==
    sketch # Blank =>
        /\ sketch.spec.beats = sketch.invented.beats
        /\ Clean(sketch.invented.name) = sketch.invented.name =>
               sketch.spec = sketch.invented
=============================================================================
