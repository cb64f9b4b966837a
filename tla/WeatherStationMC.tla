-------------------------- MODULE WeatherStationMC --------------------------
(* The program's two channels, both queues of length 1 (app_init.cpp).     *)
EXTENDS WeatherStation

MCChannel == {"DS18B20", "BME280"}
MCQueueLength == [ch \in MCChannel |-> 1]
=============================================================================
