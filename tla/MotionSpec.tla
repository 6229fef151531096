----------------------------- MODULE MotionSpec -----------------------------
(***************************************************************************)
(* The choreography spec a model writes, and the renderer that makes the   *)
(* seven tracks of a motion document of it (motion_spec.py), with the      *)
(* checks a document has to pass (custom_motions.py).  Pure operators.     *)
(*                                                                         *)
(* A text is a sequence of lines, a line a label and the words after it;   *)
(* aliases are taken as resolved, but for "middle", which is a direction   *)
(* and an energy.  No name carries the label of a beat, which would be     *)
(* read as a line of its own.  Angles are degrees, times milliseconds,     *)
(* rates degrees per second; shares are percents.  What the code measures  *)
(* on the curve through the poses, what it draws at random from the name,  *)
(* and what it leaves of a name are parameters: nothing below depends on   *)
(* the shape of the curve.  How far the curve swings between two poses is  *)
(* left out.                                                               *)
(***************************************************************************)
EXTENDS Integers, Sequences, FiniteSets, SequencesExt

CONSTANTS
    Clean(_),        (* Clean(name): stripped of quotes and blanks and cut  *)
                     (* after 16 characters, which may bare another blank   *)
    PathSpeed(_, _), (* PathSpeed(poses, i): the fastest point of the curve *)
                     (* from poses[i] to poses[i + 1], degrees per progress *)
    Jitter(_, _)     (* Jitter(name, k): the k-th number drawn, -60..60     *)

DefaultName == "new"
MaxBeats == 6                   \* MAX_SPEC_BEATS
RenderBudget == 8000            \* RENDER_BUDGET_MILLISECONDS
LeadIn == 250
ShortestMove == 600             \* MIN_HEAD_TRANSITION_MILLISECONDS
LongestMove == 1600
SafeRate == 120                 \* SAFE_PEAK_DEGREES_PER_SECOND
MaxMotion == 10000              \* MAX_MOTION_MILLISECONDS

(***************************************************************************)
(*   The words of a spec                                                   *)
(***************************************************************************)
(* Each direction as <<horizontal, vertical>>, in tenths.                  *)
Directions ==
    [center |-> <<0, 0>>, left |-> <<-10, 0>>, right |-> <<10, 0>>,
     up |-> <<0, 10>>, down |-> <<0, -10>>,
     upleft |-> <<-8, 8>>, upright |-> <<8, 8>>,
     downleft |-> <<-8, -8>>, downright |-> <<8, -8>>]
Reach == [low |-> 40, mid |-> 70, high |-> 100]
Colours == {"pink", "amber", "blue", "green", "violet", "white", "red", "off"}
AsDirection(word) == IF word = "middle" THEN "center" ELSE word
AsEnergy(word) == IF word = "middle" THEN "mid" ELSE word

Nothing == [direction |-> "", energy |-> "", colour |-> "", kinds |-> {}]

(* The bag of words of a line: the first of each vocabulary counts, and a  *)
(* word that is taken for one is not looked up in the next.                *)
Hear(found, word) ==
    IF AsDirection(word) \in DOMAIN Directions /\ found.direction = ""
    THEN [found EXCEPT !.direction = AsDirection(word)]
    ELSE IF AsEnergy(word) \in DOMAIN Reach /\ found.energy = ""
    THEN [found EXCEPT !.energy = AsEnergy(word)]
    ELSE IF word \in Colours /\ found.colour = ""
    THEN [found EXCEPT !.colour = word]
    ELSE IF word \in {"accent", "hold"}
    THEN [found EXCEPT !.kinds = @ \cup {word}]
    ELSE found
KnownWords(words) ==
    LET heard[n \in 0..Len(words)] ==
            IF n = 0 THEN Nothing ELSE Hear(heard[n - 1], words[n])
    IN heard[Len(words)]

Or(value, default) == IF value = "" THEN default ELSE value

(* An accent wins over a hold; a line of unknown words is a bland beat.    *)
BeatOf(found) ==
    [direction |-> Or(found.direction, "center"),
     energy |-> Or(found.energy, "mid"), colour |-> Or(found.colour, "white"),
     kind |-> IF "accent" \in found.kinds THEN "accent"
              ELSE IF "hold" \in found.kinds THEN "hold" ELSE "travel"]

(* An unlabelled line has to look like a beat to count as one.             *)
IsBeat(line) ==
    \/ line.label = "beat"
    \/ /\ line.label = "none"
       /\ LET found == KnownWords(line.words)
          IN found.direction # "" \/ found.colour # ""

(* The first line of a name counts, and every line that is a beat.         *)
Read(found, line) ==
    IF line.label = "name" THEN [found EXCEPT !.name = Or(@, Clean(line.words[1]))]
    ELSE IF IsBeat(line)
    THEN [found EXCEPT !.beats = Append(@, BeatOf(KnownWords(line.words)))]
    ELSE found

(* parse_motion_spec; None where it raises.                                *)
None == [name |-> "", beats |-> <<>>]
Parse(text, fallback) ==
    LET read[n \in 0..Len(text)] ==
            IF n = 0 THEN None ELSE Read(read[n - 1], text[n])
        found == read[Len(text)]
    IN IF found.beats = <<>> THEN None
       ELSE [name |-> Or(Or(found.name, Clean(fallback)), DefaultName),
             beats |-> SubSeq(found.beats, 1, Min({Len(found.beats), MaxBeats}))]

(* A plausible bug: the modifier of a beat is left out of what is stored.  *)
MutantToText(spec) ==
    <<[label |-> "name", words |-> <<spec.name>>]>> \o
    [i \in 1..Len(spec.beats) |->
        LET beat == spec.beats[i]
        IN [label |-> "beat",
            words |-> <<beat.direction, beat.energy, beat.colour>>]]

(* The text of a spec: the only thing that is ever stored of a motion.     *)
ToText(spec) ==
    <<[label |-> "name", words |-> <<spec.name>>]>> \o
    [i \in 1..Len(spec.beats) |->
        LET beat == spec.beats[i]
        IN [label |-> "beat",
            words |-> <<beat.direction, beat.energy, beat.colour>> \o
                      (IF beat.kind = "travel" THEN <<>> ELSE <<beat.kind>>)]]

(***************************************************************************)
(*   Poses                                                                 *)
(***************************************************************************)
(* Python's round(n / d): a half goes to the even neighbour.               *)
Round(n, d) ==
    LET below == n \div d
        rest == 2 * (n % d)
    IN IF rest > d \/ (rest = d /\ below % 2 = 1) THEN below + 1 ELSE below
CeilDiv(n, d) == (n + d - 1) \div d
Within(value, bound) == Max({-bound, Min({bound, value})})
Pose(x, y) == <<Within(x, 45), Within(y, 20)>>

(* Where the i-th beat (from 1) points, at a scale; side alternates.       *)
BeatTarget(beat, i, scale) ==
    LET h == Directions[beat.direction][1]
        side == IF i % 2 = 1 THEN 1 ELSE -1
        v == IF Directions[beat.direction][2] # 0
             THEN Directions[beat.direction][2] ELSE side * 4
        reach == Reach[beat.energy] * scale
                 * (IF beat.kind = "accent" THEN 55 ELSE 100)
    IN IF beat.direction = "center" THEN Pose(0, Round(side * reach * 6, 1000000))
       ELSE Pose(Round(h * reach * 3, 1000000), Round(v * reach * 13, 10000000))

(* The moves of a beat.  A hold drifts rather than freezes; floor is the   *)
(* least time of the move, draws says that a number is drawn for it.       *)
BeatMoves(beat, i, drifts, scale) ==
    LET target == BeatTarget(beat, i, scale)
        x == target[1]
        y == target[2]
        far == IF i % 2 = 0 THEN <<2, -3>> ELSE <<-3, 2>>
        rate == [low |-> 50, mid |-> 68, high |-> 88][beat.energy]
        wander == <<[to |-> Pose(x + far[1], y + 2), rate |-> 20, floor |-> 760, draws |-> TRUE],
                    [to |-> Pose(x + far[2], y - 3), rate |-> 20, floor |-> 900, draws |-> TRUE]>>
    IN <<[to |-> target, rate |-> rate, floor |-> ShortestMove, draws |-> FALSE]>>
       \o (IF beat.kind = "hold" THEN SubSeq(wander, 1, drifts) ELSE <<>>)
HomeMove == [to |-> <<0, 0>>, rate |-> 50, floor |-> ShortestMove, draws |-> FALSE]

(***************************************************************************)
(*   Time                                                                  *)
(***************************************************************************)
(* The time of a move follows from the rate it aims at, and not the rate   *)
(* from a time it is given.                                                *)
Duration(move, speed, jitter) ==
    Max({move.floor + jitter, CeilDiv(speed * 1000, move.rate)})

(* The moves in their order, each with the speed of its curve and its time. *)
Timed(name, moves) ==
    LET poses == <<<<0, 0>>>> \o [i \in 1..Len(moves) |-> moves[i].to]
        drawn(i) == Cardinality({j \in 1..i : moves[j].draws})
        jitter(i) == IF moves[i].draws THEN Jitter(name, drawn(i)) ELSE 0
    IN [i \in 1..Len(moves) |->
          [to |-> moves[i].to, rate |-> moves[i].rate, speed |-> PathSpeed(poses, i),
           time |-> Duration(moves[i], PathSpeed(poses, i), jitter(i))]]

(* The sums of the first n numbers of s, and of them all.                   *)
Running(s) ==
    LET sum[n \in 0..Len(s)] == IF n = 0 THEN 0 ELSE sum[n - 1] + s[n] IN sum
Total(s) == Running(s)[Len(s)]

(* The head, and how long each group takes: lead-in, one per beat, return. *)
Grouped(beats, groups, moves) ==
    LET last == Running([g \in 1..Len(groups) |-> Len(groups[g])])
        at == Running([i \in 1..Len(moves) |-> moves[i].time])
    IN [beats |-> beats,
        head |-> <<[to |-> <<>>, speed |-> 0, rate |-> 50, time |-> LeadIn]>> \o moves,
        durations |-> <<LeadIn>>
                      \o [g \in 1..Len(groups) |-> at[last[g]] - at[last[g - 1]]]
                      \o <<at[Len(moves)] - at[last[Len(groups)]]>>,
        figure |-> "full"]

(* _build_head: the moves of the first beats, and the way home.            *)
Build(spec, count, drifts, scale) ==
    LET groups == [i \in 1..count |-> BeatMoves(spec.beats[i], i, drifts, scale)]
    IN Grouped(SubSeq(spec.beats, 1, count), groups,
               Timed(spec.name, Append(FlattenSeq(groups), HomeMove)))

(* Amplitude shrinks until no move would run too long, for each number of   *)
(* beats anew; nothing is built below the last scale.                       *)
Runs(plan) == \A i \in 1..Len(plan.head) : plan.head[i].time <= LongestMove
Scales == <<100, 80, 64, 50>>
Unbuilt == [figure |-> "none"]
Largest(plans) ==
    LET runs(s) == Runs(plans[s]) /\ \A t \in 1..(s - 1) : ~Runs(plans[t])
    IN IF \E s \in 1..4 : runs(s) THEN plans[CHOOSE s \in 1..4 : runs(s)]
       ELSE Unbuilt
Scaled(spec, count, drifts) ==
    Largest([s \in 1..4 |-> Build(spec, count, drifts, Scales[s])])
InTime(plan, budget) == plan # Unbuilt /\ Total(plan.durations) <= budget
Fits(spec, count, drifts, budget) == InTime(Scaled(spec, count, drifts), budget)

(* The closed loop of the smallest figure, reach in sixtieths of a degree: *)
(* its handles are rounded to degrees, and it is fastest at its ends.      *)
LoopFits(reach, span) ==
    LET x == Round(reach, 60)
        y == Round(45 * reach, 6000)
    IN 9 * 400 * (x * x + y * y) <= span * span

(* A budget too small for one beat: one group that stands still, or a loop *)
(* whose reach shrinks by half degrees until it is slow enough, or none.   *)
MinimalHead(spec, budget) ==
    LET leadIn == Max({1, Min({LeadIn, Max({1, budget}) \div 4})})
        span == Max({1, budget}) - leadIn
        first == Min({900, span})
        slow == {k \in 0..29 : first - 30 * k >= 30 /\ LoopFits(first - 30 * k, span)}
        reach == IF slow = {} THEN 0 ELSE first - 30 * Min(slow)
        x == Round(reach, 60)
        y == Round(45 * reach, 6000)
        home(time) == [to |-> <<0, 0>>, rate |-> 50, time |-> time,
                       speed |-> Max({s \in 0..60 : s * s <= 9 * (x * x + y * y)})]
        joined == <<[to |-> <<>>, speed |-> 0, rate |-> 50, time |-> leadIn], home(span)>>
    IN [beats |-> SubSeq(spec.beats, 1, 1),
        head |-> IF span < 1 THEN <<home(Max({1, budget}))>> ELSE joined,
        durations |-> IF span < 1 THEN <<Max({1, budget})>> ELSE <<leadIn, span>>,
        figure |-> "minimal"]

(* A plausible bug: a spec that runs long is squeezed into its budget.     *)
MutantPlan(spec, budget) ==
    LET plan == Scaled(spec, Len(spec.beats), 2)
        total == Max({budget, Total(plan.durations)})
    IN [plan EXCEPT
          !.head = [i \in 1..Len(@) |->
                       [@[i] EXCEPT !.time = (@ * budget) \div total]],
          !.durations = [g \in 1..Len(@) |-> (@[g] * budget) \div total]]

(* _plan_head: time is not negotiable, so content is.  As many beats as    *)
(* fit, with both drifts of the holds or with one; else the small figure.  *)
Richest(spec, budget, fitting) ==
    LET most == Max({c[1] : c \in fitting})
    IN IF fitting = {} THEN MinimalHead(spec, budget)
       ELSE Scaled(spec, most, IF <<most, 2>> \in fitting THEN 2 ELSE 1)
Plan(spec, budget) ==
    Richest(spec, budget,
            {c \in (1..Len(spec.beats)) \X {1, 2} : Fits(spec, c[1], c[2], budget)})

(***************************************************************************)
(*   The tracks                                                            *)
(***************************************************************************)
(* The antenna of one group, <<amplitude, frequency>> of a buzz or <<place>> *)
(* of a sway, in percents.                                                 *)
Shake(beat) ==
    IF beat.kind = "accent" THEN <<90, 13>>
    ELSE [low |-> <<15, 3>>, mid |-> <<40, 6>>, high |-> <<80, 11>>][beat.energy]
Sway(beat, i) ==
    LET v == IF Directions[beat.direction][2] # 0 THEN Directions[beat.direction][2]
             ELSE IF i % 2 = 1 THEN 5 ELSE -5
    IN <<Within((v * Reach[beat.energy]) \div 10, 100)>>
Energetic(beats) == \E i \in 1..Len(beats) : beats[i].energy = "high" \/ beats[i].kind = "accent"
Rest(beats) == IF Energetic(beats) THEN <<0, 0>> ELSE <<0>>

(* A plausible bug: too few groups for the beats, and the list is cut.     *)
MutantAntenna(beats, groups) ==
    SubSeq(<<Rest(beats)>>
           \o [i \in 1..Len(beats) |->
                  IF Energetic(beats) THEN Shake(beats[i]) ELSE Sway(beats[i], i)]
           \o <<Rest(beats)>>, 1, groups)

(* One mode for the whole document, and the last group at rest however few *)
(* groups there are.                                                       *)
Antenna(beats, groups) ==
    [g \in 1..groups |->
        IF g = 1 \/ g = groups THEN Rest(beats)
        ELSE IF Energetic(beats) THEN Shake(beats[g - 1]) ELSE Sway(beats[g - 1], g - 1)]

(* The colour of a beat and how bright it is; dark is <<"off", 0>>.        *)
Glow(beat, shift) ==
    LET alpha == IF beat.kind = "accent" THEN 255
                 ELSE [low |-> 120, mid |-> 180, high |-> 240][beat.energy]
    IN IF beat.colour = "off" THEN <<"off", 0>> ELSE <<beat.colour, alpha + shift>>
Dark == <<"off", 0>>

(* The right cheek lags the left by one beat, and one light runs along the *)
(* body; a group without a beat of its own is dark.                        *)
Leds(beats, groups) ==
    LET has(b) == 1 <= b /\ b <= Len(beats)
        glow(b, shift) == IF has(b) THEN Glow(beats[b], shift) ELSE Dark
        body(rest) == [g \in 1..groups |->
                          IF (g - 1) % 3 = rest THEN glow(g - 1, -70) ELSE Dark]
    IN [led_cheek_l |-> [g \in 1..groups |-> glow(g - 1, 0)],
        led_cheek_r |-> [g \in 1..groups |->
                            IF g >= 3 /\ has(g - 1) THEN Glow(beats[g - 2], -45)
                            ELSE glow(g - 1, -45)],
        led_rec |-> body(1), led_play |-> body(2), led_func |-> body(0)]

(* Every track but the head is cut from the durations of the groups.       *)
Document(plan) ==
    LET groups == Len(plan.durations)
    IN [head |-> plan.head, durations |-> plan.durations, figure |-> plan.figure,
        antenna |-> Antenna(plan.beats, groups), leds |-> Leds(plan.beats, groups)]

(***************************************************************************)
(*   The backstop                                                          *)
(***************************************************************************)
(* validate_motion_document: counts, ranges and total times of the tracks. *)
Valid(document) ==
    LET groups == Len(document.durations)
        times == [i \in 1..Len(document.head) |-> document.head[i].time]
        modes == {Len(document.antenna[g]) : g \in 1..groups}
    IN /\ Len(document.head) <= 35 /\ groups <= 15
       /\ \A i \in 1..Len(times) : times[i] \in 0..MaxMotion
       /\ \A g \in 1..groups : document.durations[g] \in 0..MaxMotion
       /\ Total(times) <= MaxMotion /\ Total(document.durations) <= MaxMotion
       /\ \A i \in 1..Len(document.head) :
             LET to == document.head[i].to
             IN to # <<>> => to = Pose(to[1], to[2])
       /\ \A g \in 1..groups :
             LET end == document.antenna[g]
             IN IF Len(end) = 2 THEN end[1] \in 0..100 /\ end[2] \in 0..20
                ELSE end[1] \in -100..100
       /\ Cardinality(modes) <= 1
       /\ \A led \in DOMAIN document.leds : \A g \in 1..groups :
             document.leds[led][g][2] \in 0..255

(* The peak rate that is measured of a move, head_rate_report.             *)
AtMost(move, rate) == move.speed * 1000 <= rate * move.time

(* What is refused at the end rather than sent, render_motion_document.    *)
Sendable(document) ==
    LET head == document.head
    IN /\ Valid(document)
       /\ Total([i \in 1..Len(head) |-> head[i].time]) = Total(document.durations)
       /\ head[Len(head)].to = <<0, 0>>
       /\ \A i \in 1..Len(head) : AtMost(head[i], SafeRate)

(* render_motion_document; Refused where it raises.                        *)
Refused == [figure |-> "refused"]
Checked(document) == IF Sendable(document) THEN document ELSE Refused
Render(spec, budget) ==
    IF spec = None THEN Refused
    ELSE Checked(Document(Plan(spec, Min({budget, MaxMotion}))))
=============================================================================
