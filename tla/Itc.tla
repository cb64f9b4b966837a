--------------------------------- MODULE Itc ---------------------------------
(***************************************************************************)
(* ItcManager: one FreeRTOS queue per channel.  The queues are created     *)
(* before the scheduler starts (a channel that cannot be configured stops  *)
(* the program in configASSERT), so the tasks find every channel           *)
(* configured, and a payload always has its channel's size.                *)
(***************************************************************************)
EXTENDS Naturals, Sequences

CONSTANTS
  Channel,      \* ItcChannel
  QueueLength   \* ChannelConfig::QueueLength; 1 for both channels of the program

ASSUME ItcAssumption == QueueLength \in [Channel -> Nat \ {0}]

(* FreeRTOS, as ItcManager uses it *)
xQueueOverwrite(queue, message) == <<message>>
xQueueSend(queue, message, length) ==
  IF Len(queue) < length THEN Append(queue, message) ELSE queue

(* initialize: every channel configured, every queue empty                 *)
initialize == [ch \in Channel |-> <<>>]

publishIfEmpty(queues, ch, message) ==  \* mutant: xQueueSend for every length
  [queues EXCEPT ![ch] = xQueueSend(@, message, QueueLength[ch])]

(* publishMessage: a queue of one is overwritten, a longer one drops what  *)
(* it has no room for.                                                     *)
publishMessage(queues, ch, message) ==
  [queues EXCEPT ![ch] =
     IF QueueLength[ch] = 1
     THEN xQueueOverwrite(@, message)
     ELSE xQueueSend(@, message, QueueLength[ch])]

waitPeeks(queues, ch) == queues  \* mutant: xQueuePeek for xQueueReceive

(* waitForMessage when it does not time out: the message is Head(queues[ch]), *)
(* and these queues remain.                                                *)
waitForMessage(queues, ch) == [queues EXCEPT ![ch] = Tail(@)]
=============================================================================
