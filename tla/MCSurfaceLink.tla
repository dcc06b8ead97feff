--------------------------- MODULE MCSurfaceLink ---------------------------
(* Two lights and a few views of them, for TLC. *)
EXTENDS SurfaceLink

CONSTANTS pad, knob

View(picture, leds, rest) == [picture |-> picture, leds |-> leds, rest |-> rest]

Quiet   == [c \in {pad, knob} |-> "steady"]
Asking  == [c \in {pad} |-> "asking"]
Both    == [c \in {pad, knob} |-> IF c = pad THEN "asking" ELSE "steady"]

SomeViews == {View("still", Quiet, "awake"), View("moving", Asking, "awake"),
              View("still", Both, "dimmed"), View("still", Both, "asleep"),
              View("still", Quiet, "off")}
=============================================================================
