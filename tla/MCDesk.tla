------------------------------- MODULE MCDesk -------------------------------
(***************************************************************************)
(* What the user keeps (favourites and recording jobs, drawings, wheels,   *)
(* settings, the notepad) and the wheel over a window: they share no       *)
(* state, and a behaviour is one of them.                                  *)
(***************************************************************************)
EXTENDS Stars, ChartDocs, UserDocs, WheelOverlay, TLC

VARIABLE part
savedVars == <<starsVars, chartVars, wheelVars, prefs, padVars>>
deskVars == <<part, savedVars, overlayVars>>

DeskSymmetry == Permutations(Wins) \cup Permutations(Ids)

MCIcons == {<<"redirect", "image">>, <<"redirect", "redirect", "image">>}

Line(i) == [id |-> i, kind |-> "hline", points |-> <<[time |-> 5, price |-> 1]>>]
Leg(i)  == [id |-> i, side |-> "buy", right |-> "P", dated |-> TRUE, strike |-> 5, dteTol |-> 3,
            strikeTol |-> 1, slot |-> 0, hosts |-> {"gone"}, group |-> "condor"]
MCDrawn == (* a blank chart, legs alone, one of everything, and a refused one *)
  { EmptyDoc,
    [EmptyDoc EXCEPT !.legs = {Leg("l1")}],
    [EmptyDoc EXCEPT !.drawings = {Line("d1")}, !.pins = {[id |-> "p1", time |-> 5]},
       !.measures = {[id |-> "m1", a |-> [kind |-> "line", time |-> 5, price |-> 1],
                      b |-> [kind |-> "candle", time |-> 6, price |-> 0], place |-> [axis |-> none, at |-> 0]]},
       !.constraints = {[id |-> "c1", kind |-> "fixed", a |-> "d1", b |-> none, part |-> "line", value |-> 0]}],
    [EmptyDoc EXCEPT !.pins = {[id |-> "l1", time |-> 5]}, !.legs = {Leg("l1")}] }

DeskInit ==
  /\ part \in {"stars", "charts", "wheels", "prefs", "pad", "gestures"}
  /\ StarsInit /\ ~auto /\ ~tasty /\ known = Roots
  /\ ChartInit /\ (part # "charts" => \A k \in ChartKeys : rows[k] = NoDoc)
  /\ WheelsInit /\ (part # "wheels" => wheelRow = NoWheels)
  /\ PrefsInit /\ (part # "prefs" => prefs = [k \in DOMAIN SPEC |-> NoPref])
  /\ PadInit /\ WheelInit

DeskNext ==
  /\ part' = part
  /\ \/ part = "stars" /\ StarsNext /\ UNCHANGED <<chartVars, wheelVars, prefs, padVars, overlayVars>>
     \/ part = "charts" /\ ChartNext /\ UNCHANGED <<starsVars, wheelVars, prefs, padVars, overlayVars>>
     \/ part = "wheels" /\ WheelsNext /\ UNCHANGED <<starsVars, chartVars, prefs, padVars, overlayVars>>
     \/ part = "prefs" /\ PrefsNext /\ UNCHANGED <<starsVars, chartVars, wheelVars, padVars, overlayVars>>
     \/ part = "pad" /\ PadNext /\ UNCHANGED <<starsVars, chartVars, wheelVars, prefs, overlayVars>>
     \/ part = "gestures" /\ WheelNext /\ UNCHANGED savedVars

DeskSpec == DeskInit /\ [][DeskNext]_deskVars

(* Stars and recording jobs agree, over documents of the right shape: what   *)
(* is starred is recorded, and what the user paused rests (app.py).          *)
StarsAreKept ==
  /\ part = "stars" => StarsTypeOK /\ StarredIsRecorded /\ PausedStaysPaused
  /\ part = "charts" => ChartTypeOK
  /\ part = "wheels" => WheelsTypeOK
  /\ part = "prefs" => PrefsTypeOK
  /\ part = "pad" => PadTypeOK
=============================================================================
