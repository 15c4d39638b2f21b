---------------------------- MODULE MCSensorNode ----------------------------
EXTENDS SensorNode

\* The door of DoorAlarm.ino, and the thermometer of Bathroom.ino.
DoorAndTemperature == <<"temperature", "door">>
OwnChild == [s \in {"temperature", "door"} |-> s]
AllZero == {[s \in Sensors |-> 0]}
FirstReported == [temperature |-> 0, door |-> Unknown]

\* Bathroom.ino: light, motion and door are sent with the message of the light.
Bathroom == <<"light", "motion", "door">>
LightsChild == [s \in {"light", "motion", "door"} |-> "light"]
LightOn == {[light |-> 1, motion |-> 0, door |-> 0]}
BathroomFirst == [light |-> 0, motion |-> Unknown, door |-> Unknown]
=============================================================================
