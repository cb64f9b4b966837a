--------------------------- MODULE WeatherStation ---------------------------
(***************************************************************************)
(* The station end to end: the sensors task (priority 2) measures and      *)
(* publishes, the network task (priority 4) takes what is published and    *)
(* uploads it.  They share nothing but the two ITC queues; either runs     *)
(* between any two steps of the other.  The DS18B20 driver is its service  *)
(* specification (SensorService, implemented by Ds18b20), the HTTP client  *)
(* is UploadService (implemented by HttpClient), the BME280 driver is what *)
(* its getters return.                                                     *)
(***************************************************************************)
EXTENDS Integers, Itc

CONSTANT MaxSequence  \* bound: the sensors task starts no cycle beyond it

ASSUME StationAssumption ==
  /\ MaxSequence \in Nat
  /\ Channel = {"DS18B20", "BME280"}
  /\ QueueLength = [ch \in Channel |-> 1]

VARIABLES
  reading,       \* what the DS18B20 driver lets the task read
  garbled,       \* noise may have spoilt its last measurement (SensorService)
  measurement,   \* history: number of measurements started
  sensorsPc, sequence, draft,   \* SensorsTask: position, Sequence, the payload being built
  queues,        \* the ITC queues
  linkUp,        \* netif_is_link_up, set by the Ethernet link thread
  netPc, payload,               \* NetworkTask: position and received payload
  result, heard,                \* the HTTP client
  published, taken,             \* history: numbers put on / taken from each channel last
  reported       \* history: the measurement whose temperature was published last

sensorVars == <<reading, garbled, measurement>>
taskVars   == <<sensorsPc, sequence, draft>>
netVars    == <<netPc, payload>>
httpVars   == <<result, heard>>
history    == <<published, taken, reported>>
vars == <<sensorVars, taskVars, queues, linkUp, netVars, httpVars, history>>

Sensor == INSTANCE SensorService
Http == INSTANCE UploadService

Nothing == -1
NoPayload == [seq |-> Nothing, temp |-> Sensor!INVALID_TEMP, measured |-> 0]
Payload == [seq : Nat \cup {Nothing}, temp : Sensor!Result, measured : Nat]

TypeOK ==
  /\ reading \in {"off", "measuring"} \cup Sensor!Result
  /\ garbled \in BOOLEAN
  /\ measurement \in Nat
  /\ sensorsPc \in {"startup", "check", "read", "publishDs", "start", "measureBme", "publishBme", "delay"}
  /\ sequence \in Nat
  /\ draft \in Payload
  /\ queues \in [Channel -> Seq(Payload)]
  /\ linkUp \in BOOLEAN
  /\ netPc \in {"startup", "cycle", "waitLink", "outdoor", "postOutdoor", "indoor", "postIndoor", "delay"}
  /\ payload \in Payload
  /\ result \in {"NONE", "PENDING", "OK", "FAILED"}
  /\ heard \in BOOLEAN
  /\ published \in [Channel -> Nat \cup {Nothing}]
  /\ taken \in [Channel -> Nat \cup {Nothing}]
  /\ reported \in Nat

Init ==
  /\ Sensor!Init
  /\ measurement = 0
  /\ sensorsPc = "startup" /\ sequence = 0 /\ draft = NoPayload
  /\ queues = initialize
  /\ linkUp = FALSE
  /\ netPc = "startup" /\ payload = NoPayload
  /\ Http!Init
  /\ published = [ch \in Channel |-> Nothing]
  /\ taken = [ch \in Channel |-> Nothing]
  /\ reported = 0

-----------------------------------------------------------------------------
(* SensorsTask *)

(* onTaskStartUp: the DS18B20 driver is idle (or Error_Handler has stopped *)
(* the program), the BME280 driver is set up or will stay silent.          *)
onTaskStartUp ==
  /\ sensorsPc = "startup"
  /\ Sensor!Boot
  /\ sensorsPc' = "check"
  /\ UNCHANGED <<measurement, sequence, draft, queues, linkUp, netVars, httpVars, history>>

checkIgnored ==  \* mutant: isSensorReady is not asked
  /\ sensorsPc = "check"
  /\ sensorsPc' = "read"
  /\ UNCHANGED <<sensorVars, sequence, draft, queues, linkUp, netVars, httpVars, history>>

checkSensor ==
  /\ sensorsPc = "check"
  /\ sensorsPc' = IF reading \in Sensor!Result THEN "read" ELSE "measureBme"
  /\ UNCHANGED <<sensorVars, sequence, draft, queues, linkUp, netVars, httpVars, history>>

readWithoutCount ==  \* mutant: Sequence instead of Sequence++
  /\ sensorsPc = "read"
  /\ draft' = [seq |-> sequence, temp |-> reading, measured |-> measurement]
  /\ sensorsPc' = "publishDs"
  /\ UNCHANGED <<sensorVars, sequence, queues, linkUp, netVars, httpVars, history>>

readTemperature ==
  /\ sensorsPc = "read"
  /\ draft' = [seq |-> sequence, temp |-> reading, measured |-> measurement]
  /\ sequence' = sequence + 1
  /\ sensorsPc' = "publishDs"
  /\ UNCHANGED <<sensorVars, queues, linkUp, netVars, httpVars, history>>

publishDs18b20 ==
  /\ sensorsPc = "publishDs"
  /\ queues' = publishMessage(queues, "DS18B20", draft)
  /\ published' = [published EXCEPT !["DS18B20"] = draft.seq]
  /\ reported' = IF draft.temp # Sensor!INVALID_TEMP THEN draft.measured ELSE reported
  /\ sensorsPc' = "start"
  /\ UNCHANGED <<sensorVars, sequence, draft, linkUp, netVars, httpVars, taken>>

startOnlyAfterError ==  \* mutant: a sensor that has a value is not started again
  /\ sensorsPc = "start"
  /\ IF reading = Sensor!INVALID_TEMP
     THEN Sensor!Start /\ measurement' = measurement + 1
     ELSE UNCHANGED sensorVars
  /\ sensorsPc' = "measureBme"
  /\ UNCHANGED <<sequence, draft, queues, linkUp, netVars, httpVars, history>>

startMeasure ==
  /\ sensorsPc = "start"
  /\ IF reading \in Sensor!Result
     THEN Sensor!Start /\ measurement' = measurement + 1
     ELSE UNCHANGED sensorVars
  /\ sensorsPc' = "measureBme"
  /\ UNCHANGED <<sequence, draft, queues, linkUp, netVars, httpVars, history>>

(* readMeasurements returns true or false, the payload is filled anyway.   *)
measureBme280 ==
  /\ sensorsPc = "measureBme"
  /\ draft' = [seq |-> sequence, temp |-> Sensor!INVALID_TEMP, measured |-> 0]
  /\ sensorsPc' = "publishBme"
  /\ UNCHANGED <<sensorVars, sequence, queues, linkUp, netVars, httpVars, history>>

publishBme280 ==
  /\ sensorsPc = "publishBme"
  /\ queues' = publishMessage(queues, "BME280", draft)
  /\ published' = [published EXCEPT !["BME280"] = draft.seq]
  /\ sequence' = sequence + 1
  /\ sensorsPc' = "delay"
  /\ UNCHANGED <<sensorVars, draft, linkUp, netVars, httpVars, taken, reported>>

sensorsCycleBegins ==
  /\ sensorsPc = "delay"
  /\ sequence < MaxSequence
  /\ sensorsPc' = "check"
  /\ UNCHANGED <<sensorVars, sequence, draft, queues, linkUp, netVars, httpVars, history>>

SensorsTask ==
  \/ onTaskStartUp \/ checkSensor \/ readTemperature \/ publishDs18b20 \/ startMeasure
  \/ measureBme280 \/ publishBme280 \/ sensorsCycleBegins

-----------------------------------------------------------------------------
(* NetworkTask *)

(* waitForNetworkLinkUp before the loop, and inside it                     *)
waitForNetworkLinkUp ==
  /\ linkUp
  /\ \/ netPc = "startup" /\ netPc' = "cycle"
     \/ netPc = "waitLink" /\ netPc' = "outdoor"
  /\ UNCHANGED <<sensorVars, taskVars, queues, linkUp, payload, httpVars, history>>

checkLink ==
  /\ netPc = "cycle"
  /\ netPc' = IF linkUp THEN "outdoor" ELSE "waitLink"
  /\ UNCHANGED <<sensorVars, taskVars, queues, linkUp, payload, httpVars, history>>

receiveOrGiveUp(ch, here, post, next) ==  \* mutant: a timeout ends the whole cycle
  /\ netPc = here
  /\ IF queues[ch] = <<>>
     THEN netPc' = "delay" /\ UNCHANGED <<queues, payload, taken>>
     ELSE /\ payload' = Head(queues[ch])
          /\ queues' = waitForMessage(queues, ch)
          /\ taken' = [taken EXCEPT ![ch] = Head(queues[ch]).seq]
          /\ netPc' = post
  /\ UNCHANGED <<sensorVars, taskVars, linkUp, httpVars, published, reported>>

(* The first half of processOutdoorSensPayload and processIndoorSensPayload: *)
(* a message is taken, or 50 ms pass with none.                            *)
receive(ch, here, post, next) ==
  /\ netPc = here
  /\ IF queues[ch] = <<>>
     THEN netPc' = next /\ UNCHANGED <<queues, payload, taken>>
     ELSE /\ payload' = Head(queues[ch])
          /\ queues' = waitForMessage(queues, ch)
          /\ taken' = [taken EXCEPT ![ch] = Head(queues[ch]).seq]
          /\ netPc' = post
  /\ UNCHANGED <<sensorVars, taskVars, linkUp, httpVars, published, reported>>

(* The second half: postRequest, which blocks; its outcome is only logged. *)
postBegins(here) ==
  /\ netPc = here
  /\ Http!Post
  /\ UNCHANGED <<sensorVars, taskVars, queues, linkUp, netVars, history>>

postEnds(here, next) ==
  /\ netPc = here
  /\ Http!Succeed \/ Http!Fail
  /\ netPc' = next
  /\ UNCHANGED <<sensorVars, taskVars, queues, linkUp, payload, history>>

processOutdoorSensPayload ==
  \/ receive("DS18B20", "outdoor", "postOutdoor", "indoor")
  \/ postBegins("postOutdoor")
  \/ postEnds("postOutdoor", "indoor")

processIndoorSensPayload ==
  \/ receive("BME280", "indoor", "postIndoor", "delay")
  \/ postBegins("postIndoor")
  \/ postEnds("postIndoor", "delay")

networkCycleBegins ==
  /\ netPc = "delay"
  /\ netPc' = "cycle"
  /\ UNCHANGED <<sensorVars, taskVars, queues, linkUp, payload, httpVars, history>>

NetworkTask ==
  \/ waitForNetworkLinkUp \/ checkLink
  \/ processOutdoorSensPayload \/ processIndoorSensPayload
  \/ networkCycleBegins

-----------------------------------------------------------------------------
(* What the drivers, the server and the cable do *)

sensorChanges ==
  /\ Sensor!Garble \/ Sensor!Finish \/ Sensor!Withdraw
  /\ UNCHANGED <<measurement, taskVars, queues, linkUp, netVars, httpVars, history>>

serverAnswers ==
  /\ Http!Answer
  /\ UNCHANGED <<sensorVars, taskVars, queues, linkUp, netVars, history>>

linkChanges ==
  /\ linkUp' = ~linkUp
  /\ UNCHANGED <<sensorVars, taskVars, queues, netVars, httpVars, history>>

Next == SensorsTask \/ NetworkTask \/ sensorChanges \/ serverAnswers \/ linkChanges

Spec == Init /\ [][Next]_vars

(* Both tasks are scheduled: the network task blocks in every cycle, and   *)
(* the request it blocks in ends (UploadService, HttpClient!RequestEnds).  *)
FairSpec == Spec /\ WF_vars(SensorsTask) /\ WF_vars(NetworkTask)

-----------------------------------------------------------------------------
Outdoor == INSTANCE LatestValue
             WITH published <- published["DS18B20"], taken <- taken["DS18B20"]
Indoor == INSTANCE LatestValue
            WITH published <- published["BME280"], taken <- taken["BME280"]

(* Whatever the two tasks' interleaving, the link and the server do, each  *)
(* channel is a LatestValue: the numbers on it grow, and what the network  *)
(* task takes is the newest of them (publishMessage, waitForMessage, and   *)
(* one Sequence for both channels).                                        *)
LatestSpec == Outdoor!Spec /\ Indoor!Spec

(* A message waiting in a queue has never been taken, nor has a newer one: *)
(* no reading is uploaded twice, however often the requests fail.          *)
TakenOnce ==
  \A ch \in Channel : \A i \in DOMAIN queues[ch] : queues[ch][i].seq > taken[ch]

(* One Sequence numbers the messages of both channels: the server never    *)
(* sees one number on two of them (runCyclic, Sequence++).                 *)
SequenceDistinct ==
  \A ch, other \in Channel :
    (ch # other /\ published[ch] = published[other]) => published[ch] = Nothing

(* A measurement is published once: a new one has been started between any *)
(* two temperatures of the DS18B20 channel, so the driver was asked anew   *)
(* for each (runCyclic: isSensorReady, getTemperature, startMeasure).      *)
ConversionOnce ==
  (sensorsPc = "publishDs" /\ draft.temp # Sensor!INVALID_TEMP) => draft.measured > reported

(* With the cable in, what is published is uploaded or overwritten by      *)
(* something newer that is: no channel waits for the other, whatever       *)
(* requests fail and however long the DS18B20 stays busy.                  *)
Delivered ==
  <>[]linkUp =>
    \A ch \in Channel, n \in 0 .. MaxSequence : published[ch] >= n ~> taken[ch] >= n
=============================================================================
