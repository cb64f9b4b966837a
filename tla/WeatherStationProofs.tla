------------------------ MODULE WeatherStationProofs ------------------------
(***************************************************************************)
(* For any number of cycles: both channels are latest-value registers,     *)
(* their numbers never coincide, and no message and no conversion is used  *)
(* twice.                                                                  *)
(*                                                                         *)
(* Argument.  Every number put on a channel is new: Sequence has passed    *)
(* all that were published, and a payload that waits to be published holds *)
(* a number above them (NumberInv).  A queue holds at most the message     *)
(* published last, and only until it is taken (QueueInv).  Between the     *)
(* check of the sensor and the next start nothing but the task starts a    *)
(* measurement, so the driver stays ready (ReadyInv), the start succeeds,  *)
(* and a temperature belongs to a measurement after the one reported last  *)
(* (MeasureInv).                                                           *)
(***************************************************************************)
EXTENDS WeatherStation, SequenceTheorems, TLAPS

ReadyInv == sensorsPc \in {"read", "publishDs", "start"} => reading \in Sensor!Result

NumberInv ==
  /\ \A ch \in Channel : published[ch] < sequence
  /\ sensorsPc = "publishDs" =>
       /\ draft.seq \in Nat /\ draft.seq < sequence
       /\ \A ch \in Channel : published[ch] < draft.seq
  /\ sensorsPc = "publishBme" => draft.seq = sequence

QueueInv ==
  \A ch \in Channel :
    /\ taken[ch] <= published[ch]
    /\ queues[ch] # <<>> =>
         /\ Len(queues[ch]) = 1
         /\ queues[ch][1].seq = published[ch]
         /\ taken[ch] < published[ch]

MeasureInv ==
  /\ reported <= measurement
  /\ (sensorsPc # "start" /\ reading \in {"measuring", "current", "old"}) => reported < measurement
  /\ sensorsPc = "publishDs" => draft.measured = measurement
  /\ ConversionOnce

IInv == TypeOK /\ ReadyInv /\ NumberInv /\ QueueInv /\ MeasureInv /\ SequenceDistinct

-----------------------------------------------------------------------------
(* The two queue operations, for queues of length one.                     *)

(* A queue of length one holds the message published last.                 *)
LEMMA PublishOverwrites ==
  ASSUME NEW q, NEW ch \in Channel, NEW m
  PROVE  publishMessage(q, ch, m) = [q EXCEPT ![ch] = <<m>>]
BY StationAssumption DEF publishMessage, xQueueOverwrite

(* Both operations keep the type of the queues.                            *)
LEMMA QueueTypes ==
  ASSUME NEW q \in [Channel -> Seq(Payload)], NEW ch \in Channel, NEW m \in Payload
  PROVE  /\ publishMessage(q, ch, m) \in [Channel -> Seq(Payload)]
         /\ q[ch] # <<>> => /\ waitForMessage(q, ch) \in [Channel -> Seq(Payload)]
                            /\ Head(q[ch]) \in Payload
<1>1. <<m>> \in Seq(Payload)
  OBVIOUS
<1>2. [q EXCEPT ![ch] = <<m>>] \in [Channel -> Seq(Payload)]
  BY <1>1
<1>3. ASSUME q[ch] # <<>>
      PROVE  waitForMessage(q, ch) \in [Channel -> Seq(Payload)] /\ Head(q[ch]) \in Payload
  <2>1. q[ch] \in Seq(Payload)
    OBVIOUS
  <2>2. Tail(q[ch]) \in Seq(Payload) /\ Head(q[ch]) \in Payload
    BY <1>3, <2>1
  <2> QED
    BY <2>2 DEF waitForMessage
<1> QED
  BY <1>2, <1>3, PublishOverwrites

(* The head of a sequence of one element, and what is behind it.           *)
LEMMA Singleton ==
  ASSUME NEW S, NEW s \in Seq(S), Len(s) = 1
  PROVE  Head(s) = s[1] /\ s[1] \in S /\ Tail(s) = <<>>
<1>1. \A t \in Seq(S) : t # <<>> => Len(t) \in Nat \ {0}
  BY EmptySeq
<1>2. s # <<>>
  OBVIOUS
<1>3. Tail(s) \in Seq(S) /\ Len(Tail(s)) = 0
  BY <1>2, HeadTailProperties
<1>4. Tail(s) = <<>>
  BY <1>1, <1>3
<1> QED
  BY <1>4

(* receive, as the rest of the proof needs it: nothing happens to any      *)
(* channel, or the message published last is taken from one of them.       *)
LEMMA ReceiveEffect ==
  ASSUME TypeOK, QueueInv, NEW ch \in Channel, NEW here, NEW post, NEW next,
         receive(ch, here, post, next)
  PROVE  /\ UNCHANGED <<sensorVars, taskVars, linkUp, httpVars, published, reported>>
         /\ \/ netPc' = next /\ UNCHANGED <<queues, payload, taken>>
            \/ /\ netPc' = post
               /\ payload' \in Payload
               /\ queues' \in [Channel -> Seq(Payload)]
               /\ queues' = [queues EXCEPT ![ch] = <<>>]
               /\ taken[ch] < published[ch]
               /\ taken' = [taken EXCEPT ![ch] = published[ch]]
<1>1. CASE queues[ch] = <<>>
  BY <1>1 DEF receive
<1>2. CASE queues[ch] # <<>>
  <2>1. queues[ch] \in Seq(Payload)
    BY DEF TypeOK
  <2>2. Len(queues[ch]) = 1 /\ queues[ch][1].seq = published[ch] /\ taken[ch] < published[ch]
    BY <1>2, Zenon DEF QueueInv
  <2>3. Head(queues[ch]) = queues[ch][1] /\ Tail(queues[ch]) = <<>>
    BY <2>1, <2>2, Singleton
  <2>4. queues \in [Channel -> Seq(Payload)] /\ queues[ch][1] \in Payload
    BY <2>1, <2>2, Singleton DEF TypeOK
  <2>5. queues' = [queues EXCEPT ![ch] = <<>>]
    BY <1>2, <2>3 DEF receive, waitForMessage
  <2>6. queues' \in [Channel -> Seq(Payload)]
    BY <1>2, <2>4, QueueTypes DEF receive
  <2> QED
    BY <1>2, <2>2, <2>3, <2>4, <2>5, <2>6 DEF receive
<1> QED
  BY <1>1, <1>2

(* A number newer than all that was published on its channel is published. *)
LEMMA PublishEffect ==
  ASSUME TypeOK, QueueInv, NEW ch \in Channel,
         draft.seq \in Nat, published[ch] < draft.seq,
         queues' = publishMessage(queues, ch, draft),
         published' = [published EXCEPT ![ch] = draft.seq],
         UNCHANGED taken
  PROVE  /\ QueueInv'
         /\ queues' \in [Channel -> Seq(Payload)]
         /\ published' \in [Channel -> Nat \cup {Nothing}]
<1>1. queues' \in [Channel -> Seq(Payload)]
  BY QueueTypes DEF TypeOK
<1>2. queues' = [queues EXCEPT ![ch] = <<draft>>]
  BY PublishOverwrites
<1>3. queues'[ch] = <<draft>> /\ published'[ch] = draft.seq
  BY <1>2 DEF TypeOK
<1>4. Len(<<draft>>) = 1 /\ <<draft>>[1] = draft
  OBVIOUS
<1>5. taken[ch] < draft.seq
  BY DEF QueueInv, TypeOK, Nothing
<1>6. \A other \in Channel \ {ch} :
        queues'[other] = queues[other] /\ published'[other] = published[other]
  BY <1>2 DEF TypeOK
<1>7. taken'[ch] <= published'[ch] /\ taken'[ch] < published'[ch]
  BY <1>3, <1>5 DEF TypeOK, Nothing
<1>8. ASSUME NEW other \in Channel
      PROVE  /\ taken'[other] <= published'[other]
             /\ queues'[other] # <<>> =>
                  /\ Len(queues'[other]) = 1
                  /\ queues'[other][1].seq = published'[other]
                  /\ taken'[other] < published'[other]
  <2>1. CASE other = ch
    BY <2>1, <1>3, <1>4, <1>7, Zenon
  <2>2. CASE other # ch
    BY <2>2, <1>6, Zenon DEF QueueInv
  <2> QED
    BY <2>1, <2>2
<1>9. QueueInv'
  BY <1>8, Zenon DEF QueueInv
<1> QED
  BY <1>1, <1>9 DEF TypeOK

(* So a receive keeps the invariant.                                       *)
LEMMA ReceivePreserves ==
  ASSUME IInv, NEW ch \in Channel, NEW here, NEW post, NEW next,
         {post, next} \subseteq {"cycle", "postOutdoor", "indoor", "postIndoor", "delay"},
         receive(ch, here, post, next)
  PROVE  IInv'
<1>1. /\ UNCHANGED <<sensorVars, taskVars, linkUp, httpVars, published, reported>>
      /\ \/ netPc' = next /\ UNCHANGED <<queues, payload, taken>>
         \/ /\ netPc' = post
            /\ payload' \in Payload
            /\ queues' \in [Channel -> Seq(Payload)]
            /\ queues' = [queues EXCEPT ![ch] = <<>>]
            /\ taken[ch] < published[ch]
            /\ taken' = [taken EXCEPT ![ch] = published[ch]]
  BY ReceiveEffect DEF IInv
<1>2. TypeOK'
  BY <1>1 DEF IInv, TypeOK, sensorVars, taskVars, httpVars
<1>3. ReadyInv' /\ NumberInv' /\ MeasureInv' /\ SequenceDistinct'
  BY <1>1 DEF IInv, ReadyInv, NumberInv, MeasureInv, ConversionOnce, SequenceDistinct,
              sensorVars, taskVars
<1>4. QueueInv'
  <2>1. CASE UNCHANGED <<queues, taken>>
    BY <1>1, <2>1 DEF IInv, QueueInv
  <2>2. CASE /\ queues' = [queues EXCEPT ![ch] = <<>>]
             /\ taken' = [taken EXCEPT ![ch] = published[ch]]
    <3>1. queues'[ch] = <<>> /\ taken'[ch] = published'[ch]
      BY <1>1, <2>2 DEF IInv, TypeOK
    <3>2. taken'[ch] <= published'[ch]
      BY <3>1, <1>1 DEF IInv, TypeOK, Nothing
    <3>3. \A other \in Channel \ {ch} :
            /\ queues'[other] = queues[other]
            /\ taken'[other] = taken[other]
            /\ published'[other] = published[other]
      BY <1>1, <2>2 DEF IInv, TypeOK
    <3> QED
      BY <3>1, <3>2, <3>3, Zenon DEF IInv, QueueInv
  <2> QED
    BY <1>1, <2>1, <2>2
<1> QED
  BY <1>2, <1>3, <1>4 DEF IInv

(* A step that leaves the sensors task and the channels alone.             *)
LEMMA Elsewhere ==
  ASSUME IInv, UNCHANGED <<sensorVars, taskVars, queues, payload, history>>,
         netPc' \in {"startup", "cycle", "waitLink", "outdoor", "postOutdoor", "indoor",
                    "postIndoor", "delay"},
         linkUp' \in BOOLEAN, heard' \in BOOLEAN,
         result' \in {"NONE", "PENDING", "OK", "FAILED"}
  PROVE  IInv'
<1>1. TypeOK'
  BY DEF IInv, TypeOK, sensorVars, taskVars, history
<1>2. ReadyInv' /\ NumberInv' /\ MeasureInv' /\ SequenceDistinct'
  BY DEF IInv, ReadyInv, NumberInv, MeasureInv, ConversionOnce, SequenceDistinct,
         sensorVars, taskVars, history
<1>3. QueueInv'
  BY DEF IInv, QueueInv, history
<1> QED
  BY <1>1, <1>2, <1>3 DEF IInv

-----------------------------------------------------------------------------
(* The invariant holds in every state of the station, for any number of    *)
(* cycles.                                                                 *)
THEOREM Invariance == Spec => []IInv
<1> USE StationAssumption
<1>1. Init => IInv
  <2> SUFFICES ASSUME Init PROVE IInv
    OBVIOUS
  <2>1. NoPayload \in Payload
    BY DEF NoPayload, Payload, Nothing, Sensor!Result, Sensor!INVALID_TEMP
  <2>2. \A ch \in Channel : queues[ch] = <<>> /\ queues[ch] \in Seq(Payload)
    BY DEF Init, initialize
  <2>3. TypeOK
    BY <2>1, <2>2 DEF Init, TypeOK, initialize, Nothing, Sensor!Init, Http!Init
  <2>4. ReadyInv /\ NumberInv /\ MeasureInv /\ SequenceDistinct
    BY
       DEF Init, ReadyInv, NumberInv, MeasureInv, ConversionOnce,
           SequenceDistinct, Nothing, Sensor!Init
  <2>5. \A ch \in Channel : taken[ch] <= published[ch]
    BY DEF Init, Nothing
  <2>6. QueueInv
    BY <2>2, <2>5, Zenon DEF QueueInv
  <2> QED
    BY <2>3, <2>4, <2>6 DEF IInv
<1>2. IInv /\ [Next]_vars => IInv'
  <2> SUFFICES ASSUME IInv, [Next]_vars PROVE IInv'
    OBVIOUS
  <2>1. CASE onTaskStartUp
    <3>1. TypeOK'
      BY <2>1
         DEF onTaskStartUp, Sensor!Boot, Sensor!Result, Sensor!INVALID_TEMP,
             IInv, TypeOK, netVars, httpVars, history
    <3>2. NumberInv' /\ SequenceDistinct'
      BY <2>1 DEF onTaskStartUp, IInv, TypeOK, NumberInv, SequenceDistinct, history
    <3>3. QueueInv'
      BY <2>1 DEF onTaskStartUp, IInv, QueueInv, history
    <3>4. ReadyInv' /\ MeasureInv'
      BY <2>1
         DEF onTaskStartUp, Sensor!Boot, Sensor!Result, Sensor!INVALID_TEMP,
             IInv, TypeOK, ReadyInv, MeasureInv, ConversionOnce, history
    <3> QED
      BY <3>1, <3>2, <3>3, <3>4 DEF IInv
  <2>2. CASE checkSensor
    <3>1. TypeOK'
      BY <2>2 DEF checkSensor, sensorVars, IInv, TypeOK, netVars, httpVars, history
    <3>2. NumberInv' /\ SequenceDistinct'
      BY <2>2
         DEF checkSensor, sensorVars, IInv, TypeOK, NumberInv, SequenceDistinct,
             history
    <3>3. QueueInv'
      BY <2>2 DEF checkSensor, IInv, QueueInv, history
    <3>4. ReadyInv' /\ MeasureInv'
      BY <2>2
         DEF checkSensor, sensorVars, IInv, TypeOK, ReadyInv, MeasureInv,
             ConversionOnce, history
    <3> QED
      BY <3>1, <3>2, <3>3, <3>4 DEF IInv
  <2>3. CASE readTemperature
    <3>1. TypeOK'
      BY <2>3
         DEF readTemperature, sensorVars, ReadyInv, Payload, IInv, TypeOK,
             netVars, httpVars, history
    <3>2. NumberInv' /\ SequenceDistinct'
      BY <2>3
         DEF readTemperature, Payload, Nothing, IInv, TypeOK, NumberInv,
             SequenceDistinct, history
    <3>3. QueueInv'
      BY <2>3 DEF readTemperature, IInv, QueueInv, history
    <3>4. ReadyInv' /\ MeasureInv'
      BY <2>3
         DEF readTemperature, sensorVars, Payload, Sensor!Result,
             Sensor!INVALID_TEMP, IInv, TypeOK, ReadyInv, MeasureInv,
             ConversionOnce, history
    <3> QED
      BY <3>1, <3>2, <3>3, <3>4 DEF IInv
  <2>4. CASE publishDs18b20
    <3>1. /\ draft \in Payload /\ draft.seq \in Nat
          /\ published["DS18B20"] < draft.seq
          /\ queues' = publishMessage(queues, "DS18B20", draft)
          /\ published' = [published EXCEPT !["DS18B20"] = draft.seq]
          /\ UNCHANGED taken
      BY <2>4 DEF publishDs18b20, IInv, TypeOK, NumberInv
    <3>2. /\ QueueInv'
          /\ queues' \in [Channel -> Seq(Payload)]
          /\ published' \in [Channel -> Nat \cup {Nothing}]
      BY <3>1, PublishEffect DEF IInv
    <3>3. TypeOK'
      BY <2>4, <3>1, <3>2
         DEF publishDs18b20, IInv, TypeOK, Payload, sensorVars, netVars,
             httpVars
    <3>4. NumberInv' /\ SequenceDistinct'
      BY <2>4, <3>1
         DEF publishDs18b20, IInv, TypeOK, NumberInv, SequenceDistinct, Nothing
    <3>5. ReadyInv' /\ MeasureInv'
      BY <2>4
         DEF publishDs18b20, IInv, TypeOK, ReadyInv, MeasureInv, ConversionOnce,
             Payload, sensorVars, Sensor!Result, Sensor!INVALID_TEMP
    <3> QED
      BY <3>2, <3>3, <3>4, <3>5 DEF IInv
  <2>5. CASE startMeasure
    <3>0. reading' \in {"off", "measuring"} \cup Sensor!Result /\ garbled' \in BOOLEAN
      BY <2>5 DEF startMeasure, Sensor!Start, sensorVars, IInv, TypeOK
    <3>1. TypeOK'
      BY <2>5, <3>0
         DEF startMeasure, Sensor!Start, sensorVars, IInv, TypeOK, netVars,
             httpVars, history
    <3>2. NumberInv' /\ SequenceDistinct'
      BY <2>5 DEF startMeasure, IInv, TypeOK, NumberInv, SequenceDistinct, history
    <3>3. QueueInv'
      BY <2>5 DEF startMeasure, IInv, QueueInv, history
    <3>4. ReadyInv' /\ MeasureInv'
      BY <2>5
         DEF startMeasure, Sensor!Start, sensorVars, Sensor!Result,
             Sensor!INVALID_TEMP, IInv, TypeOK, ReadyInv, MeasureInv,
             ConversionOnce, history
    <3> QED
      BY <3>1, <3>2, <3>3, <3>4 DEF IInv
  <2>6. CASE measureBme280
    <3>1. TypeOK'
      BY <2>6
         DEF measureBme280, Payload, sensorVars, Sensor!Result,
             Sensor!INVALID_TEMP, IInv, TypeOK, netVars, httpVars, history
    <3>2. NumberInv' /\ SequenceDistinct'
      BY <2>6
         DEF measureBme280, Payload, IInv, TypeOK, NumberInv, SequenceDistinct,
             history
    <3>3. QueueInv'
      BY <2>6 DEF measureBme280, IInv, QueueInv, history
    <3>4. ReadyInv' /\ MeasureInv'
      BY <2>6
         DEF measureBme280, sensorVars, IInv, TypeOK, ReadyInv, MeasureInv,
             ConversionOnce, history
    <3> QED
      BY <3>1, <3>2, <3>3, <3>4 DEF IInv
  <2>7. CASE publishBme280
    <3>1. /\ draft \in Payload /\ draft.seq \in Nat
          /\ published["BME280"] < draft.seq
          /\ queues' = publishMessage(queues, "BME280", draft)
          /\ published' = [published EXCEPT !["BME280"] = draft.seq]
          /\ UNCHANGED taken
      BY <2>7 DEF publishBme280, IInv, TypeOK, NumberInv
    <3>2. /\ QueueInv'
          /\ queues' \in [Channel -> Seq(Payload)]
          /\ published' \in [Channel -> Nat \cup {Nothing}]
      BY <3>1, PublishEffect DEF IInv
    <3>3. TypeOK'
      BY <2>7, <3>1, <3>2
         DEF publishBme280, IInv, TypeOK, Payload, sensorVars, netVars, httpVars
    <3>4. NumberInv' /\ SequenceDistinct'
      BY <2>7, <3>1
         DEF publishBme280, IInv, TypeOK, NumberInv, SequenceDistinct, Nothing
    <3>5. ReadyInv' /\ MeasureInv'
      BY <2>7
         DEF publishBme280, IInv, TypeOK, ReadyInv, MeasureInv, ConversionOnce,
             Payload, sensorVars, Sensor!Result, Sensor!INVALID_TEMP
    <3> QED
      BY <3>2, <3>3, <3>4, <3>5 DEF IInv
  <2>8. CASE sensorsCycleBegins
    <3>1. TypeOK'
      BY <2>8
         DEF sensorsCycleBegins, sensorVars, IInv, TypeOK, netVars, httpVars,
             history
    <3>2. NumberInv' /\ SequenceDistinct'
      BY <2>8
         DEF sensorsCycleBegins, sensorVars, IInv, TypeOK, NumberInv,
             SequenceDistinct, history
    <3>3. QueueInv'
      BY <2>8 DEF sensorsCycleBegins, IInv, QueueInv, history
    <3>4. ReadyInv' /\ MeasureInv'
      BY <2>8
         DEF sensorsCycleBegins, sensorVars, IInv, TypeOK, ReadyInv, MeasureInv,
             ConversionOnce, history
    <3> QED
      BY <3>1, <3>2, <3>3, <3>4 DEF IInv
  <2>9. CASE waitForNetworkLinkUp
    BY <2>9, Elsewhere DEF waitForNetworkLinkUp, httpVars, IInv, TypeOK
  <2>10. CASE checkLink
    BY <2>10, Elsewhere DEF checkLink, httpVars, IInv, TypeOK
  <2>11. CASE processOutdoorSensPayload
    <3>1. CASE receive("DS18B20", "outdoor", "postOutdoor", "indoor")
      BY <3>1, ReceivePreserves
    <3>2. CASE postBegins("postOutdoor") \/ postEnds("postOutdoor", "indoor")
      BY <3>2, Elsewhere
         DEF postBegins, postEnds, Http!Post, Http!Succeed, Http!Fail, netVars, IInv, TypeOK
    <3> QED
      BY <2>11, <3>1, <3>2 DEF processOutdoorSensPayload
  <2>12. CASE processIndoorSensPayload
    <3>1. CASE receive("BME280", "indoor", "postIndoor", "delay")
      BY <3>1, ReceivePreserves
    <3>2. CASE postBegins("postIndoor") \/ postEnds("postIndoor", "delay")
      BY <3>2, Elsewhere
         DEF postBegins, postEnds, Http!Post, Http!Succeed, Http!Fail, netVars, IInv, TypeOK
    <3> QED
      BY <2>12, <3>1, <3>2 DEF processIndoorSensPayload
  <2>13. CASE networkCycleBegins
    BY <2>13, Elsewhere DEF networkCycleBegins, httpVars, IInv, TypeOK
  <2>14. CASE sensorChanges
    <3>0. reading' \in {"off", "measuring"} \cup Sensor!Result /\ garbled' \in BOOLEAN
      <4>1. CASE Sensor!Garble
        BY <4>1, Zenon DEF Sensor!Garble, IInv, TypeOK
      <4>2. CASE Sensor!Finish
        <5>1. reading' \in Sensor!Result
          BY <4>2 DEF Sensor!Finish
        <5>2. garbled' = garbled \/ garbled' = TRUE
          BY <4>2 DEF Sensor!Finish
        <5> QED
          BY <5>1, <5>2, Zenon DEF IInv, TypeOK
      <4>3. CASE Sensor!Withdraw
        <5>1. reading' \in Sensor!Result
          BY <4>3 DEF Sensor!Withdraw, Sensor!Result
        <5> QED
          BY <4>3, <5>1, Zenon DEF Sensor!Withdraw, IInv, TypeOK
      <4> QED
        BY <2>14, <4>1, <4>2, <4>3, Zenon DEF sensorChanges
    <3>1. TypeOK'
      BY <2>14, <3>0
         DEF sensorChanges, Sensor!Garble, Sensor!Finish, Sensor!Withdraw, taskVars,
             Sensor!Result, Sensor!INVALID_TEMP, IInv, TypeOK, netVars, httpVars,
             history
    <3>2. NumberInv' /\ SequenceDistinct'
      BY <2>14
         DEF sensorChanges, taskVars, IInv, TypeOK, NumberInv, SequenceDistinct,
             history
    <3>3. QueueInv'
      BY <2>14 DEF sensorChanges, IInv, QueueInv, history
    <3>4. ReadyInv' /\ MeasureInv'
      BY <2>14
         DEF sensorChanges, Sensor!Garble, Sensor!Finish, Sensor!Withdraw, taskVars,
             Sensor!Result, Sensor!INVALID_TEMP, IInv, TypeOK, ReadyInv, MeasureInv,
             ConversionOnce, history
    <3> QED
      BY <3>1, <3>2, <3>3, <3>4 DEF IInv
  <2>15. CASE serverAnswers
    BY <2>15, Elsewhere DEF serverAnswers, Http!Answer, netVars, IInv, TypeOK
  <2>16. CASE linkChanges
    BY <2>16, Elsewhere DEF linkChanges, netVars, httpVars, IInv, TypeOK
  <2>17. CASE UNCHANGED vars
    BY <2>17, Elsewhere DEF vars, netVars, httpVars, IInv, TypeOK
  <2> QED
    BY <2>1, <2>2, <2>3, <2>4, <2>5, <2>6, <2>7, <2>8, <2>9, <2>10, <2>11, <2>12, <2>13, <2>14, <2>15, <2>16, <2>17
       DEF Next, SensorsTask, NetworkTask
<1> QED
  BY <1>1, <1>2, PTL DEF Spec

(* The type invariant of the station holds for any number of cycles.       *)
THEOREM TypeCorrect == Spec => []TypeOK
<1>1. IInv => TypeOK
  BY DEF IInv
<1> QED
  BY <1>1, Invariance, PTL

(* One Sequence numbers the messages of both channels, and no number is on *)
(* two of them (runCyclic, Sequence++).                                    *)
THEOREM NumbersDistinct == Spec => []SequenceDistinct
<1>1. IInv => SequenceDistinct
  BY DEF IInv
<1> QED
  BY <1>1, Invariance, PTL

(* No measurement is published twice (runCyclic: startMeasure cannot fail  *)
(* between isSensorReady and the next cycle).                              *)
THEOREM ConversionReportedOnce == Spec => []ConversionOnce
<1>1. IInv => ConversionOnce
  BY DEF IInv, MeasureInv
<1> QED
  BY <1>1, Invariance, PTL

(* What waits in a queue is newer than all that was taken from it          *)
(* (publishMessage, waitForMessage).                                       *)
THEOREM NothingTakenTwice == Spec => []TakenOnce
<1>1. ASSUME IInv, NEW ch \in Channel, NEW i \in DOMAIN queues[ch]
      PROVE  queues[ch][i].seq > taken[ch]
  <2>1. queues[ch] \in Seq(Payload)
    BY <1>1 DEF IInv, TypeOK
  <2>2. queues[ch] # <<>>
    BY <1>1, <2>1
  <2>3. /\ Len(queues[ch]) = 1
        /\ queues[ch][1].seq = published[ch]
        /\ taken[ch] < published[ch]
    BY <1>1, <2>2, Zenon DEF IInv, QueueInv
  <2>4. i = 1
    BY <1>1, <2>1, <2>3
  <2>5. published[ch] \in Int /\ taken[ch] \in Int
    BY <1>1 DEF IInv, TypeOK, Nothing
  <2> QED
    BY <2>3, <2>4, <2>5
<1>2. IInv => TakenOnce
  BY <1>1, Zenon DEF TakenOnce
<1> QED
  BY <1>2, Invariance, PTL

-----------------------------------------------------------------------------
(* Each step publishes a newer number on one channel, or takes the one     *)
(* published last from one channel, or is a stutter for both.              *)

(* A publication is a Publish on its channel and nothing on the other,     *)
LEMMA PublishRefines ==
  ASSUME IInv, NEW ch \in Channel, draft.seq \in Nat, published[ch] < draft.seq,
         published' = [published EXCEPT ![ch] = draft.seq], UNCHANGED taken
  PROVE  /\ published'[ch] \in Nat /\ published'[ch] > published[ch]
         /\ \A other \in Channel \ {ch} : published'[other] = published[other]
         /\ \A other \in Channel : taken'[other] = taken[other]
BY DEF IInv, TypeOK, Nothing

(* a reception a Take of the number published last, or nothing.            *)
LEMMA ReceiveRefines ==
  ASSUME IInv, NEW ch \in Channel, NEW here, NEW post, NEW next,
         receive(ch, here, post, next)
  PROVE  /\ UNCHANGED published
         /\ \A other \in Channel \ {ch} : taken'[other] = taken[other]
         /\ \/ taken'[ch] = taken[ch]
            \/ taken[ch] < published[ch] /\ taken'[ch] = published[ch]
<1>1. /\ UNCHANGED published
      /\ \/ UNCHANGED taken
         \/ /\ taken[ch] < published[ch]
            /\ taken' = [taken EXCEPT ![ch] = published[ch]]
  BY ReceiveEffect DEF IInv
<1> QED
  BY <1>1 DEF IInv, TypeOK

(* The station implements a latest-value register on each channel, for any *)
(* number of cycles (publishMessage, waitForMessage, Sequence).            *)
THEOREM ImplementsLatest == Spec => LatestSpec
<1> USE StationAssumption
<1>1. Init => Outdoor!Init /\ Indoor!Init
  BY DEF Init, Outdoor!Init, Indoor!Init, Nothing, Outdoor!Nothing, Indoor!Nothing
<1>2. IInv /\ [Next]_vars => /\ [Outdoor!Next]_<<published["DS18B20"], taken["DS18B20"]>>
                            /\ [Indoor!Next]_<<published["BME280"], taken["BME280"]>>
  <2> SUFFICES ASSUME IInv, [Next]_vars
               PROVE  /\ [Outdoor!Next]_<<published["DS18B20"], taken["DS18B20"]>>
                      /\ [Indoor!Next]_<<published["BME280"], taken["BME280"]>>
    OBVIOUS
  <2> USE DEF Outdoor!Next, Outdoor!Publish, Outdoor!Take, Indoor!Next, Indoor!Publish, Indoor!Take
  <2>1. CASE publishDs18b20
    <3>1. /\ draft.seq \in Nat /\ published["DS18B20"] < draft.seq
          /\ published' = [published EXCEPT !["DS18B20"] = draft.seq]
          /\ UNCHANGED taken
      BY <2>1 DEF publishDs18b20, IInv, NumberInv
    <3> QED
      BY <3>1, PublishRefines
  <2>2. CASE publishBme280
    <3>1. /\ draft.seq \in Nat /\ published["BME280"] < draft.seq
          /\ published' = [published EXCEPT !["BME280"] = draft.seq]
          /\ UNCHANGED taken
      BY <2>2 DEF publishBme280, IInv, TypeOK, NumberInv
    <3> QED
      BY <3>1, PublishRefines
  <2>3. CASE receive("DS18B20", "outdoor", "postOutdoor", "indoor")
    BY <2>3, ReceiveRefines
  <2>4. CASE receive("BME280", "indoor", "postIndoor", "delay")
    BY <2>4, ReceiveRefines
  <2>5. CASE UNCHANGED <<published, taken>>
    BY <2>5
  <2>6. \/ publishDs18b20 \/ publishBme280
        \/ receive("DS18B20", "outdoor", "postOutdoor", "indoor")
        \/ receive("BME280", "indoor", "postIndoor", "delay")
        \/ UNCHANGED <<published, taken>>
    BY DEF Next, SensorsTask, onTaskStartUp, checkSensor, readTemperature, startMeasure,
           measureBme280, sensorsCycleBegins, NetworkTask, waitForNetworkLinkUp, checkLink,
           processOutdoorSensPayload, processIndoorSensPayload, postBegins, postEnds,
           networkCycleBegins, sensorChanges, serverAnswers, linkChanges, history, vars
  <2> QED
    BY <2>1, <2>2, <2>3, <2>4, <2>5, <2>6
<1> QED
  BY <1>1, <1>2, Invariance, PTL DEF Spec, LatestSpec, Outdoor!Spec, Indoor!Spec
=============================================================================
