---------------------------- MODULE VolumeCurve ----------------------------
(***************************************************************************)
(* The volume scales of src/core/airplay/server.go: a phone shows a slider *)
(* in dB, the speaker takes 0..100, and the curve between them has a knee  *)
(* at the slider's default position.  The phone reads the volume with      *)
(* GET_PARAMETER and sends its slider with SET_PARAMETER.  A dB value is   *)
(* counted in hundredths and rounded exactly.  The two curves never meet a *)
(* tie; where a slider lies half way between two percents (-29.85 dB) the  *)
(* code's floating point may give the lower one, and here it is the higher *)
(***************************************************************************)
EXTENDS Integers

Mute == -14400

\* Variant: int() without math.Round.
RoundDown(n, d) == n \div d

\* round(n / d) for n >= 0: halves go away from zero.
Round(n, d) == (2 * n + d) \div (2 * d)

-----------------------------------------------------------------------------

\* The slider percentage GET_PARAMETER computes from the volume.
SliderPercent(v) ==
    IF v <= 0 THEN 0
    ELSE IF v <= 55 THEN Round(v * 33, 55)
    ELSE 33 + Round((v - 55) * 67, 45)

\* The dB value it answers: (percent / 100) * 30 - 30, or mute.
Reported(v) ==
    IF SliderPercent(v) <= 0 THEN Mute ELSE SliderPercent(v) * 30 - 3000

\* Variant: above the knee the curve starts at zero again.
MapLoudnessNoOffset(raw) ==
    IF raw <= 0 THEN 0
    ELSE IF raw >= 100 THEN 100
    ELSE IF raw <= 33 THEN Round(raw * 55, 33)
    ELSE Round((raw - 33) * 45, 67)

\* mapAirPlayLoudness: the speaker's volume for a slider percentage.
MapLoudness(raw) ==
    IF raw <= 0 THEN 0
    ELSE IF raw >= 100 THEN 100
    ELSE IF raw <= 33 THEN Round(raw * 55, 33)
    ELSE 55 + Round((raw - 33) * 45, 67)

\* parseAirPlayVolume, for a body with a volume line.
Parsed(db) ==
    IF db <= Mute THEN 0
    ELSE LET d == IF db < -3000 THEN -3000 ELSE IF db > 0 THEN 0 ELSE db
         IN  MapLoudness(Round((d + 3000) * 100, 3000))

\* The volume a phone sets that sends the slider back where it was shown.
Touched(v) == Parsed(Reported(v))

\* Sending it back does not move the volume by more than the one step the
\* roundings cost, which is lost once, and only zero is shown as mute.
KeepsVolume(v) ==
    /\ Touched(v) - v \in -1..1
    /\ Touched(Touched(v)) = Touched(v)
    /\ Reported(v) = Mute <=> v = 0
=============================================================================
