----------------------------- MODULE MCIotNode -----------------------------
EXTENDS IotNode

\* Two dark readings less than one lux apart, a middling one, and one below a kOhm.
MCLight == {33, 32, 15, 0}

\* Cold, and so hot that the humidity's test applies.
MCTemperatures == {150, 330}

\* Humid.
MCHumidities == {650}

\* Full, and low.
MCBatteries == {299, 3300}
=============================================================================
