------------------------------ MODULE Popover ------------------------------
(***************************************************************************)
(* One popover of the page, of a blind, a dimmer, a relay or a thermostat, *)
(* with all that moves in it while it is open: the position of the blind   *)
(* (BlindPosition), the slider (DimmerSlider), the fields and the button   *)
(* of a timer (Duration).  Floorplan says which popovers are open.         *)
(***************************************************************************)
EXTENDS BlindPosition, DimmerSlider, Duration

popover_vars == <<vars, slider_vars, duration_vars>>

\* The parts that a popover does not have stay as they are.
PopoverInit ==
    /\ Init /\ SliderInit /\ DurationInit
    /\ control # "blind" => real = 0 /\ motion = "stopped"
    /\ control # "dimmer" => level = 0
    /\ control \notin {"relay", "temp"} => ~active

PopoverNext ==
    \/ control = "blind" /\ Next /\ UNCHANGED <<slider_vars, duration_vars>>
    \/ control = "dimmer" /\ SliderNext /\ UNCHANGED <<vars, duration_vars>>
    \/ control \in {"relay", "temp"} /\ DurationNext /\ UNCHANGED <<vars, slider_vars>>

PopoverSpec == PopoverInit /\ [][PopoverNext]_popover_vars

PopoverTypeOK == TypeOK /\ SliderTypeOK /\ DurationTypeOK
=============================================================================
