------------------------------ MODULE MCEventBus -----------------------------
(***************************************************************************)
(* EventBus with two subscriptions, an auditor of every topic ("*") with   *)
(* one worker and a watcher of one topic, with as many workers as there    *)
(* are threads for them all.                                               *)
(***************************************************************************)
EXTENDS EventBus, TLC

CONSTANTS auditor, watcher,       \* the subscriptions
          a1, b1, b2,             \* their workers
          created, changed        \* topics

TwoSubscriptions == <<watcher, auditor>>
ThreeWorkers == {a1, b1, b2}
SubOfThree == a1 :> auditor @@ b1 :> watcher @@ b2 :> watcher
TwoTopics == {created, changed}
AudienceOfTwo == created :> {auditor, watcher} @@ changed :> {auditor}
SmallQueues == auditor :> 2 @@ watcher :> 1
=============================================================================
