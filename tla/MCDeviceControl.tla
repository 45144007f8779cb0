--------------------------- MODULE MCDeviceControl ---------------------------
(* A speaker with a volume for each channel, a microphone with one volume,   *)
(* the virtual device; and a display with a volume that cannot be set.       *)
EXTENDS DeviceControl

Plain == [in |-> 0, out |-> 0, settable |-> {}, fixed |-> {},
          mute |-> FALSE, decibels |-> FALSE, camera |-> FALSE, partial |-> FALSE]

KindOf ==
  [speaker |-> [Plain EXCEPT !.out = 2, !.settable = {1, 2}, !.mute = TRUE, !.decibels = TRUE],
   mic     |-> [Plain EXCEPT !.in = 1, !.settable = {0}],
   display |-> [Plain EXCEPT !.out = 1, !.fixed = {0, 1}, !.decibels = TRUE,
                             !.partial = TRUE],
   virtual |-> [Plain EXCEPT !.in = 2, !.out = 2, !.fixed = {0, 1, 2}]]

\* A volume of 40 is some 24 dB below full.
ScaleOf == [v \in {0, 40, 75, 100} |-> IF v = 40 THEN 75 ELSE v]

Listed    == <<"speaker", "mic", "virtual">>
WithFixed == <<"display", "speaker", "mic", "virtual">>
=============================================================================
