--------------------------- MODULE MCMqttGateway ---------------------------
EXTENDS MqttGateway

Reading(core, tmp, hum, lux, bat, light, avac) ==
  [id |-> 1, light |-> light, avac |-> avac, value1 |-> core, value2 |-> tmp,
   value3 |-> hum, value4 |-> lux, battery |-> bat]

\* 22.016 and 20.715 degrees, a cold node, and bytes at their limits.
MCDays ==
  {<<Reading(20715, 235, 439, 250, 3098, TRUE, TRUE),
     Reading(22016, 256, 506, 65535, 3098, TRUE, FALSE),
     Reading(20480, 0, 0, 0, 0, FALSE, TRUE)>>,
   <<Reading(-1, -5, 255, 250, 3299, FALSE, FALSE),
     Reading(22016, -5, 0, 256, 255, TRUE, TRUE),
     Reading(255, 1, 65535, 1, 256, TRUE, FALSE)>>,
   <<Reading(0, 65535, 256, 255, 65535, FALSE, TRUE),
     Reading(256, 253, 182, 8, 3098, FALSE, FALSE),
     Reading(65535, 255, 1, 511, 511, TRUE, TRUE)>>,
   <<Reading(20735, 257, 506, 250, 0, TRUE, FALSE),
     Reading(20480, -1, 999, 65535, 1, FALSE, TRUE),
     Reading(-255, 32767, 32768, 512, 254, TRUE, TRUE)>>}
=============================================================================
