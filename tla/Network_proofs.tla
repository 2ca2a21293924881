--------------------------- MODULE Network_proofs ---------------------------
(***************************************************************************)
(* Theorems about Network, for all credentials, waits and tests of any     *)
(* length.                                                                 *)
(***************************************************************************)
EXTENDS Network, TLAPS

\* The access point leaves nothing to wait for; a test still has a tick to
\* go.
CountsInv ==
    /\ ap => ~wait.on
    /\ ~ap => lost < Fallback
    /\ test.state = "testing" => test.countdown >= 1

TypeInv == TypeOK /\ CountsInv

\* A test that has begun has left the old credentials.
TestInv ==
    test.state = "testing" /\ test.countdown # TestTicks =>
        station.creds = test.new

\* What keeps the MQTT client watched: it is connected only while the station
\* is, and the station gets far only with the reconnect task on.
MqttInv ==
    /\ ~ready => station.link \notin {"associated", "up"}
    /\ ~ap /\ station.link # "up" => mqtt # "connected"
    /\ ~ap /\ station.link = "associated" => retry = "on"
    /\ MqttWatched

-----------------------------------------------------------------------------
(* What the shared steps change *)

LEMMA StartReconnectType == TypeOK => StartReconnect \in {"off", "on", "stopping"}
  BY DEF TypeOK, StartReconnect

\* A lost connection leaves the iterations of the wait, and the MQTT client
\* disconnected unless the access point is open, when it changes nothing.
LEMMA DisconnectedFacts ==
    ASSUME TypeOK, Disconnected
    PROVE  /\ wait' \in [on : BOOLEAN, left : 0..WaitTicks]
           /\ wait'.left = wait.left
           /\ ap => wait' = wait
           /\ mqtt' \in {"off", "connecting", "connected", "closing"}
           /\ ~ap => mqtt' # "connected"
           /\ retry' \in {"off", "on", "stopping"}
  <1>1. CASE ap
    BY <1>1 DEF TypeOK, Disconnected
  <1>2. CASE ~ap
    <2>1. wait' = [wait EXCEPT !.on = TRUE]
      BY <1>2 DEF Disconnected
    <2>2. wait' \in [on : BOOLEAN, left : 0..WaitTicks] /\ wait'.left = wait.left
      BY <2>1 DEF TypeOK
    <2>3. QED
      BY <1>2, <2>2 DEF TypeOK, Disconnected
  <1>3. QED
    BY <1>1, <1>2

LEMMA LeaveFacts ==
    ASSUME TypeOK, Leave
    PROVE  /\ wait' \in [on : BOOLEAN, left : 0..WaitTicks]
           /\ wait'.left = wait.left
           /\ ap => wait' = wait
           /\ mqtt' \in {"off", "connecting", "connected", "closing"}
           /\ ~ap /\ (station.link # "up" => mqtt # "connected") =>
                  mqtt' # "connected"
           /\ retry' \in {"off", "on", "stopping"}
  <1>1. CASE station.link \in {"off", "idle"}
    BY <1>1 DEF TypeOK, Leave
  <1>2. CASE station.link \notin {"off", "idle"}
    BY <1>2, DisconnectedFacts DEF Leave
  <1>3. QED
    BY <1>1, <1>2

\* A boot starts from the credentials on the card.
LEMMA BootedFacts ==
    ASSUME TypeOK, Restart
    PROVE  /\ station' = [link |-> "trying", creds |-> file]
           /\ config' = file /\ file' = file /\ good' = good
           /\ wait' = [on |-> FALSE, left |-> WaitTicks]
           /\ lost' = 0 /\ ~ap' /\ mqtt' = "off" /\ retry' = "off" /\ ~ready'
           /\ test' = [state |-> "none", task |-> "off", countdown |-> 0,
                       old |-> file, new |-> file]
           /\ ~reboot'
  BY DEF Restart, Booted, Begin, NoTest

-----------------------------------------------------------------------------
(* Types and counts *)

\* The end of a test replaces three fields of its record.
LEMMA EndedTest ==
    ASSUME test \in Tests,
           NEW state \in {"none", "testing", "success", "failed"},
           NEW task \in {"off", "on", "stopping"},
           NEW countdown \in 0..TestTicks,
           test' = [test EXCEPT !.countdown = countdown, !.state = state,
                                !.task = task]
    PROVE  /\ test' \in Tests
           /\ test'.state = state
           /\ test'.old = test.old /\ test'.new = test.new
  BY DEF Tests

LEMMA InitTypeInv == Init => TypeInv
  <1> SUFFICES ASSUME Init PROVE TypeInv
    OBVIOUS
  <1> USE NetworkAssumption
  <1>1. station \in [link : Links, creds : Creds]
    BY DEF Init, Begin, Links
  <1>2. test \in Tests /\ test.state = "none"
    BY DEF Init, NoTest, Tests
  <1>3. wait \in [on : BOOLEAN, left : 0..WaitTicks]
    BY DEF Init
  <1>4. lost \in 0..Fallback /\ lost < Fallback
    BY DEF Init
  <1>5. QED
    BY <1>1, <1>2, <1>3, <1>4 DEF Init, TypeInv, TypeOK, CountsInv

LEMMA ConnectionTypeInv ==
    ASSUME TypeInv,
           Associate \/ GotIp \/ LinkLost \/ WaitTick \/ WaitExpires \/ IdleStatus
    PROVE  TypeInv'
  <1> USE NetworkAssumption
  <1>0. TypeOK /\ CountsInv
    BY DEF TypeInv
  <1>1. CASE Associate
    <2>1. station' \in [link : Links, creds : Creds]
      BY <1>0, <1>1 DEF Associate, TypeOK, Links
    <2>2. QED
      BY <1>0, <1>1, <2>1, StartReconnectType
         DEF Associate, TypeInv, TypeOK, CountsInv, webVars
  <1>2. CASE GotIp
    <2>1. station' \in [link : Links, creds : Creds]
      BY <1>0, <1>2 DEF GotIp, TypeOK, Links
    <2>2. wait' \in [on : BOOLEAN, left : 0..WaitTicks] /\ ~wait'.on
      BY <1>0, <1>2 DEF GotIp, TypeOK
    <2>3. retry' \in {"off", "on", "stopping"}
      BY <1>0, <1>2, StartReconnectType DEF GotIp, TypeOK
    <2>4. QED
      BY <1>0, <1>2, <2>1, <2>2, <2>3
         DEF GotIp, TypeInv, TypeOK, CountsInv, webVars
  <1>3. CASE LinkLost
    <2>1. station' \in [link : Links, creds : Creds]
      BY <1>0, <1>3 DEF LinkLost, TypeOK, Links
    <2>2. Disconnected
      BY <1>3 DEF LinkLost
    <2>3. QED
      BY <1>0, <1>3, <2>1, <2>2, DisconnectedFacts
         DEF LinkLost, TypeInv, TypeOK, CountsInv, webVars
  <1>4. CASE WaitTick
    <2>0. wait.left - 1 \in 0..WaitTicks
      BY <1>0, <1>4 DEF WaitTick, TypeOK
    <2>1. wait' \in [on : BOOLEAN, left : 0..WaitTicks] /\ wait'.on = wait.on
      BY <1>0, <1>4, <2>0 DEF WaitTick, TypeOK
    <2>2. QED
      BY <1>0, <1>4, <2>1
         DEF WaitTick, TypeInv, TypeOK, CountsInv, mqttVars, webVars
  <1>5. CASE WaitExpires
    <2>1. wait' \in [on : BOOLEAN, left : 0..WaitTicks] /\ ~wait'.on
      BY <1>0, <1>5 DEF WaitExpires, TypeOK
    <2>2. ~ap /\ lost < Fallback
      BY <1>0, <1>5 DEF WaitExpires, CountsInv
    <2>3. lost' \in 0..Fallback /\ (~ap' => lost' < Fallback)
      BY <1>0, <1>5, <2>2 DEF WaitExpires, ApOpens, TypeOK
    <2>4. station' \in [link : Links, creds : Creds]
      BY <1>0, <1>5 DEF WaitExpires, TypeOK, Links
    <2>5. retry' \in {"off", "on", "stopping"} /\ ap' \in BOOLEAN
      BY <1>0, <1>5, StartReconnectType DEF WaitExpires, TypeOK
    <2>6. QED
      BY <1>0, <1>5, <2>1, <2>3, <2>4, <2>5
         DEF WaitExpires, TypeInv, TypeOK, CountsInv, webVars
  <1>6. CASE IdleStatus
    <2>1. station' \in [link : Links, creds : Creds]
      BY <1>0, <1>6 DEF IdleStatus, TypeOK, Links
    <2>2. Leave
      BY <1>6 DEF IdleStatus
    <2>3. QED
      BY <1>0, <1>6, <2>1, <2>2, LeaveFacts
         DEF IdleStatus, TypeInv, TypeOK, CountsInv, webVars
  <1>7. QED
    BY <1>1, <1>2, <1>3, <1>4, <1>5, <1>6

LEMMA MqttTypeInv ==
    ASSUME TypeInv,
           MqttBegin \/ MqttTick \/ MqttTickEnds \/ MqttConnected \/ MqttClosed
    PROVE  TypeInv'
  <1>0. TypeOK /\ CountsInv /\ StartReconnect \in {"off", "on", "stopping"}
    BY StartReconnectType DEF TypeInv
  <1>1. /\ UNCHANGED <<good, wifiVars, webVars>>
        /\ mqtt' \in {"off", "connecting", "connected", "closing"}
        /\ retry' \in {"off", "on", "stopping"}
        /\ ready' \in BOOLEAN
    <2>1. CASE MqttBegin
      BY <1>0, <2>1 DEF MqttBegin, TypeOK
    <2>2. CASE MqttTick
      BY <1>0, <2>2 DEF MqttTick, TypeOK
    <2>3. CASE MqttTickEnds
      BY <1>0, <2>3 DEF MqttTickEnds, TypeOK
    <2>4. CASE MqttConnected
      BY <1>0, <2>4 DEF MqttConnected, TypeOK
    <2>5. CASE MqttClosed
      BY <1>0, <2>5 DEF MqttClosed, TypeOK
    <2>6. QED
      BY <2>1, <2>2, <2>3, <2>4, <2>5
  <1>2. QED
    BY <1>0, <1>1 DEF TypeInv, TypeOK, CountsInv, wifiVars, webVars

\* A test that accepts the credentials it tries.
LEMMA AcceptFacts ==
    ASSUME TypeOK, CountsInv, Testing, Accept
    PROVE  /\ test' \in Tests /\ test'.state = "success" /\ test'.new = test.new
           /\ test'.countdown = test.countdown - 1
           /\ config' = test.new /\ config' \in Creds
           /\ file' \in Creds /\ reboot' \in BOOLEAN
  <1> USE NetworkAssumption
  <1>1. test \in Tests /\ test.countdown - 1 \in 0..TestTicks
    BY DEF TypeOK, Testing, CountsInv, Tests
  <1>2. test' \in Tests /\ test'.state = "success"
    BY <1>1, EndedTest DEF Accept
  <1>3. QED
    BY <1>1, <1>2 DEF Accept, TypeOK, Tests

\* The record of a test after each step of it.
LEMMA TestTypeInv ==
    ASSUME TypeInv,
           TestTick \/ TestTaskStops \/ \E new \in Creds : TestRequest(new)
    PROVE  TypeInv'
  <1> USE NetworkAssumption
  <1>0. TypeOK /\ CountsInv /\ test \in Tests
    BY DEF TypeInv, TypeOK
  <1>1. CASE TestBegins
    <2>1. /\ test' \in Tests /\ (test'.state = "testing" => test'.countdown >= 1)
          /\ config' \in Creds /\ file' \in Creds /\ reboot' \in BOOLEAN
      <3>1. CASE Accept
        BY <1>0, <1>1, <3>1, AcceptFacts DEF TestBegins
      <3>2. CASE test' = [test EXCEPT !.countdown = @ - 1]
                 /\ UNCHANGED <<config, file, reboot>>
        BY <1>0, <1>1, <3>2 DEF TestBegins, TestStarts, Tests, TypeOK
      <3>3. QED
        BY <1>1, <3>1, <3>2 DEF TestBegins
    <2>2. station' \in [link : Links, creds : Creds]
      BY <1>0, <1>1 DEF TestBegins, Begin, Tests, Links
    <2>3. (ap /\ UNCHANGED <<wait, mqtt, retry>>) \/ Leave
      BY <1>1 DEF TestBegins
    <2>4. QED
      BY <1>0, <1>1, <2>1, <2>2, <2>3, LeaveFacts
         DEF TestBegins, TypeInv, TypeOK, CountsInv
  <1>2. CASE TestSucceeds
    <2>1. /\ test' \in Tests /\ test'.state = "success"
          /\ config' \in Creds /\ file' \in Creds /\ reboot' \in BOOLEAN
      BY <1>0, <1>2, AcceptFacts DEF TestSucceeds
    <2>2. QED
      BY <1>0, <1>2, <2>1
         DEF TestSucceeds, TypeInv, TypeOK, CountsInv, Tests, wifiVars, mqttVars
  <1>3. CASE TestWaits
    <2>1. test' \in Tests /\ test'.countdown >= 1
      BY <1>0, <1>3 DEF TestWaits, Tests
    <2>2. QED
      BY <1>0, <1>3, <2>1
         DEF TestWaits, TypeInv, TypeOK, CountsInv, wifiVars, mqttVars
  <1>4. CASE TestFails
    <2>1. test' \in Tests /\ test'.state = "failed"
      <3>1. 0 \in 0..TestTicks
        OBVIOUS
      <3>2. QED
        BY <1>0, <1>4, <3>1, EndedTest DEF TestFails, TestResult
    <2>2. station' \in [link : Links, creds : Creds]
      BY <1>0, <1>4 DEF TestFails, Revert, Begin, TypeOK, Tests, Links
    <2>3. Leave
      BY <1>4 DEF TestFails
    <2>4. QED
      BY <1>0, <1>4, <2>1, <2>2, <2>3, LeaveFacts
         DEF TestFails, TypeInv, TypeOK, CountsInv
  <1>5. CASE TestTaskStops
    <2>1. test' \in Tests /\ test'.state = test.state
                          /\ test'.countdown = test.countdown
      BY <1>0, <1>5 DEF TestTaskStops, Tests
    <2>2. QED
      BY <1>0, <1>5, <2>1
         DEF TestTaskStops, TypeInv, TypeOK, CountsInv, wifiVars, mqttVars
  <1>6. CASE \E new \in Creds : TestRequest(new)
    <2>1. PICK new \in Creds : TestRequest(new)
      BY <1>6
    <2>2. test' \in Tests /\ test'.countdown = TestTicks
      BY <1>0, <2>1 DEF TestRequest, TypeOK, Tests
    <2>3. QED
      BY <1>0, <2>1, <2>2
         DEF TestRequest, TypeInv, TypeOK, CountsInv, wifiVars, mqttVars
  <1>7. QED
    BY <1>1, <1>2, <1>3, <1>4, <1>5, <1>6 DEF TestTick

LEMMA RequestTypeInv ==
    ASSUME TypeInv,
           \/ RebootPost \/ Restart \/ Surroundings
           \/ \E new \in Creds, accepted, saved \in BOOLEAN :
                 ConfigPost(new, accepted, saved)
    PROVE  TypeInv'
  <1>1. CASE Restart
    <2>1. file \in Creds /\ TypeOK
      BY DEF TypeInv, TypeOK
    <2>2. station' \in [link : Links, creds : Creds]
      BY <1>1, <2>1, BootedFacts DEF Links
    <2>3. test' \in Tests /\ test'.state = "none"
      BY <1>1, <2>1, BootedFacts, NetworkAssumption DEF Tests
    <2>4. wait' \in [on : BOOLEAN, left : 0..WaitTicks]
      <3>1. wait' = [on |-> FALSE, left |-> WaitTicks]
        BY <1>1, <2>1, BootedFacts
      <3>2. WaitTicks \in 0..WaitTicks
        BY NetworkAssumption
      <3>3. QED
        BY <3>1, <3>2
    <2>5. lost' \in 0..Fallback /\ lost' < Fallback
      BY <1>1, <2>1, BootedFacts, NetworkAssumption
    <2>6. /\ UNCHANGED <<file, good>> /\ config' = file
          /\ ~ap' /\ ~ready' /\ ~reboot' /\ mqtt' = "off" /\ retry' = "off"
      BY <1>1, <2>1, BootedFacts
    <2>7. ap' \in BOOLEAN /\ ready' \in BOOLEAN /\ reboot' \in BOOLEAN
      BY <1>1 DEF Restart, Booted
    <2>8. TypeOK'
      BY <2>1, <2>2, <2>3, <2>4, <2>5, <2>6, <2>7 DEF TypeOK
    <2>9. CountsInv'
      BY <2>3, <2>5, <2>6 DEF CountsInv
    <2>10. QED
      BY <2>8, <2>9 DEF TypeInv
  <1>2. CASE RebootPost
    BY <1>2 DEF RebootPost, TypeInv, TypeOK, CountsInv, wifiVars, mqttVars
  <1>5. CASE Surroundings
    BY <1>5 DEF Surroundings, TypeInv, TypeOK, CountsInv, wifiVars, mqttVars,
                webVars
  <1>3. CASE \E new \in Creds, accepted, saved \in BOOLEAN :
                ConfigPost(new, accepted, saved)
    BY <1>3 DEF ConfigPost, TypeInv, TypeOK, CountsInv, wifiVars, mqttVars
  <1>4. QED
    BY <1>1, <1>2, <1>3, <1>5

LEMMA StepTypeInv == TypeInv /\ [Next]_vars => TypeInv'
  <1>1. TypeInv /\ Next => TypeInv'
    BY ConnectionTypeInv, MqttTypeInv, TestTypeInv, RequestTypeInv
       DEF Next, LoopStep
  <1>2. TypeInv /\ UNCHANGED vars => TypeInv'
    BY DEF TypeInv, TypeOK, CountsInv, vars, wifiVars, mqttVars, webVars
  <1>3. QED
    BY <1>1, <1>2

LEMMA TypeInvAlways == Spec => []TypeInv
  BY InitTypeInv, StepTypeInv, PTL DEF Spec

\* The variables keep their types: the waits that are counted never outgrow
\* those that open the access point.
THEOREM NetworkTypes == Spec => []TypeOK
  <1>1. TypeInv => TypeOK
    BY DEF TypeInv
  <1>2. QED
    BY <1>1, TypeInvAlways, PTL

-----------------------------------------------------------------------------
(* The test of credentials *)

\* The actions that touch neither the test nor the station, nor open or close
\* the access point.
LEMMA TestUntouched ==
    ASSUME [Next]_vars
    PROVE  \/ UNCHANGED <<station, test, ap>>
           \/ Associate \/ GotIp \/ LinkLost \/ WaitExpires \/ IdleStatus
           \/ TestTick \/ TestTaskStops \/ Restart
           \/ \E new \in Creds : TestRequest(new)
  BY DEF Next, LoopStep, WaitTick, MqttTick, MqttTickEnds, MqttBegin,
         MqttConnected, MqttClosed, ConfigPost, RebootPost, Surroundings, vars,
         wifiVars, webVars

\* The events of the station and the loop leave its credentials, and a station
\* that is off stays off.
LEMMA StationKeepsCreds ==
    ASSUME TypeOK,
           Associate \/ GotIp \/ LinkLost \/ WaitExpires \/ IdleStatus
    PROVE  /\ station'.creds = station.creds
           /\ test' = test
           /\ station.link = "off" => station'.link = "off"
           /\ ap' # ap => ap' /\ station'.link = "off"
  <1>0. station \in [link : Links, creds : Creds]
    BY DEF TypeOK
  <1>1. CASE Associate
    BY <1>0, <1>1 DEF Associate, webVars
  <1>2. CASE GotIp
    BY <1>0, <1>2 DEF GotIp, webVars
  <1>3. CASE LinkLost
    BY <1>0, <1>3 DEF LinkLost, webVars
  <1>4. CASE WaitExpires
    BY <1>0, <1>4 DEF WaitExpires, webVars, TypeOK
  <1>5. CASE IdleStatus
    BY <1>0, <1>5 DEF IdleStatus, NeedsReconnect, webVars
  <1>6. QED
    BY <1>1, <1>2, <1>3, <1>4, <1>5

LEMMA StepTestInv == TypeInv /\ TestInv /\ [Next]_vars => TestInv'
  <1> SUFFICES ASSUME TypeInv, TestInv, [Next]_vars PROVE TestInv'
    OBVIOUS
  <1>0. TypeOK /\ test \in Tests
    BY DEF TypeInv, TypeOK
  <1>1. CASE UNCHANGED <<station, test, ap>>
    BY <1>1 DEF TestInv
  <1>2. CASE Associate \/ GotIp \/ LinkLost \/ WaitExpires \/ IdleStatus
    BY <1>0, <1>2, StationKeepsCreds DEF TestInv
  <1>3. CASE TestBegins
    <2>1. test'.new = test.new /\ station'.creds = test.new
      BY <1>0, <1>3 DEF TestBegins, Accept, Begin, Tests
    <2>2. QED
      BY <2>1 DEF TestInv
  <1>4. CASE TestSucceeds
    BY <1>0, <1>4 DEF TestSucceeds, Accept, TestInv, Tests
  <1>5. CASE TestWaits
    <2>1. /\ test'.new = test.new /\ station' = station
          /\ test.state = "testing" /\ test.countdown # TestTicks
      BY <1>0, <1>5 DEF TestWaits, Testing, TestStarts, Tests, wifiVars
    <2>2. QED
      BY <2>1 DEF TestInv
  <1>6. CASE TestFails
    <2>1. test'.state = "failed"
      BY <1>0, <1>6 DEF TestFails, TestResult, Tests
    <2>2. QED
      BY <2>1 DEF TestInv
  <1>7. CASE TestTaskStops
    BY <1>0, <1>7 DEF TestTaskStops, TestInv, Tests, wifiVars
  <1>8. CASE Restart
    BY <1>0, <1>8, BootedFacts DEF TestInv
  <1>9. CASE \E new \in Creds : TestRequest(new)
    BY <1>9 DEF TestRequest, TestInv
  <1>10. QED
    BY <1>1, <1>2, <1>3, <1>4, <1>5, <1>6, <1>7, <1>8, <1>9, TestUntouched
       DEF TestTick

LEMMA TestInvAlways == Spec => []TestInv
  <1>1. Init => TestInv
    BY DEF Init, NoTest, TestInv
  <1>2. QED
    BY <1>1, StepTestInv, TypeInvAlways, PTL DEF Spec

\* After its first tick a test changes the configuration only to credentials the
\* station is connected with, though requests and events come between any of
\* its ticks.
THEOREM OnlyTriedIsSaved == Spec => SavedWasTried
  <1>1. TypeInv /\ TestInv /\ [Next]_vars =>
            [test.state = "testing" /\ test'.state = "success"
                /\ test.countdown < TestTicks => Up /\ config' = station.creds]_vars
    <2> SUFFICES ASSUME TypeInv, TestInv, [Next]_vars, test.state = "testing",
                        test'.state = "success", test.countdown < TestTicks
                 PROVE  Up /\ config' = station.creds
      OBVIOUS
    <2>0. TypeOK /\ test \in Tests
      BY DEF TypeInv, TypeOK
    <2>1. CASE TestSucceeds
      BY <2>1 DEF TestSucceeds, Accept, TestStarts, TestInv
    <2>2. CASE test' = test
      BY <2>2
    <2>3. CASE TestWaits \/ TestTaskStops
      BY <2>0, <2>3 DEF TestWaits, TestTaskStops, Tests
    <2>8. CASE TestBegins
      BY <2>0, <2>8, NetworkAssumption DEF TestBegins, TestStarts, Tests
    <2>4. CASE TestFails
      BY <2>0, <2>4 DEF TestFails, TestResult, Tests
    <2>5. CASE Restart
      BY <2>0, <2>5, BootedFacts
    <2>6. CASE \E new \in Creds : TestRequest(new)
      BY <2>6 DEF TestRequest
    <2>7. QED
      BY <2>0, <2>1, <2>2, <2>3, <2>4, <2>5, <2>6, <2>8, TestUntouched,
         StationKeepsCreds DEF TestTick
  <1>2. QED
    BY <1>1, TypeInvAlways, TestInvAlways, PTL DEF Spec, SavedWasTried

LEMMA StepFailed ==
    TypeInv /\ FailedGoesBack /\ [Next]_vars => FailedGoesBack'
  <1> SUFFICES ASSUME TypeInv, FailedGoesBack, [Next]_vars
               PROVE  FailedGoesBack'
    OBVIOUS
  <1>0. TypeOK /\ test \in Tests /\ station \in [link : Links, creds : Creds]
    BY DEF TypeInv, TypeOK
  <1>1. CASE UNCHANGED <<station, test, ap>>
    BY <1>1 DEF FailedGoesBack
  <1>2. CASE Associate \/ GotIp \/ LinkLost \/ WaitExpires \/ IdleStatus
    BY <1>0, <1>2, StationKeepsCreds DEF FailedGoesBack
  <1>3. CASE TestBegins \/ TestWaits
    <2>1. test'.state \in {"testing", "success"}
      BY <1>0, <1>3 DEF TestBegins, Accept, TestWaits, Testing, Tests
    <2>2. QED
      BY <2>1 DEF FailedGoesBack
  <1>4. CASE TestSucceeds
    <2>1. test'.state = "success"
      BY <1>0, <1>4 DEF TestSucceeds, Accept, Tests
    <2>2. QED
      BY <2>1 DEF FailedGoesBack
  <1>5. CASE TestFails
    <2>1. test'.old = test.old
      BY <1>0, <1>5 DEF TestFails, TestResult, Tests
    <2>2. ap' = ap /\ station' = Revert
      BY <1>5 DEF TestFails
    <2>3. CASE ap
      BY <1>0, <2>2, <2>3 DEF Revert, FailedGoesBack
    <2>4. CASE ~ap
      BY <1>0, <2>1, <2>2, <2>4 DEF Revert, Begin, FailedGoesBack
    <2>5. QED
      BY <2>3, <2>4
  <1>6. CASE TestTaskStops
    <2>1. test'.state = test.state /\ test'.old = test.old
      BY <1>0, <1>6 DEF TestTaskStops, Tests
    <2>2. QED
      BY <1>6, <2>1 DEF TestTaskStops, FailedGoesBack, wifiVars
  <1>7. CASE Restart
    BY <1>0, <1>7, BootedFacts DEF FailedGoesBack
  <1>8. CASE \E new \in Creds : TestRequest(new)
    BY <1>8 DEF TestRequest, FailedGoesBack
  <1>9. QED
    BY <1>1, <1>2, <1>3, <1>4, <1>5, <1>6, <1>7, <1>8, TestUntouched
       DEF TestTick

\* Whatever the connection did during a test that failed, the station is back
\* on the credentials from before it, or off beside the access point.
THEOREM FailedTestGoesBack == Spec => []FailedGoesBack
  <1>1. Init => FailedGoesBack
    BY DEF Init, NoTest, FailedGoesBack
  <1>2. QED
    BY <1>1, StepFailed, TypeInvAlways, PTL DEF Spec

-----------------------------------------------------------------------------
(* MQTT is watched *)

\* The actions that change nothing MqttInv speaks of.
LEMMA MqttUntouched ==
    ASSUME [Next]_vars
    PROVE  \/ UNCHANGED <<ready, station, ap, mqtt, retry>>
           \/ Associate \/ GotIp \/ LinkLost \/ WaitExpires \/ IdleStatus
           \/ MqttBegin \/ MqttTick \/ MqttTickEnds \/ MqttConnected
           \/ MqttClosed \/ TestBegins \/ TestFails \/ Restart
  BY DEF Next, LoopStep, WaitTick, TestTick, TestWaits, TestSucceeds,
         TestRequest, TestTaskStops, ConfigPost, RebootPost, Surroundings, vars,
         wifiVars, mqttVars

LEMMA StepMqttInv ==
    ASSUME ~Races
    PROVE  TypeInv /\ MqttInv /\ [Next]_vars => MqttInv'
  <1> SUFFICES ASSUME TypeInv, MqttInv, [Next]_vars PROVE MqttInv'
    OBVIOUS
  <1>0. TypeOK /\ station \in [link : Links, creds : Creds]
    BY DEF TypeInv, TypeOK
  <1>01. Undisturbed => retry # "stopping"
    BY DEF Undisturbed
  <1>02. ready /\ retry # "stopping" => StartReconnect = "on"
    BY DEF StartReconnect
  <1>03. retry = "on" => StartReconnect = "on"
    BY DEF StartReconnect
  <1>1. CASE UNCHANGED <<ready, station, ap, mqtt, retry>>
    BY <1>1 DEF MqttInv, MqttWatched
  <1>2. CASE Associate
    <2>1. retry' = "on" /\ ready /\ UNCHANGED <<ready, ap, mqtt>>
      BY <1>01, <1>02, <1>2 DEF Associate
    <2>2. station.link # "up" /\ station'.link = "associated"
      BY <1>0, <1>2 DEF Associate
    <2>3. QED
      BY <2>1, <2>2 DEF MqttInv, MqttWatched
  <1>3. CASE GotIp
    <2>1. station.link = "associated" /\ station'.link = "up"
      BY <1>0, <1>3 DEF GotIp
    <2>2. retry = "on" => retry' = "on"
      BY <1>03, <1>3 DEF GotIp
    <2>3. QED
      BY <1>3, <2>1, <2>2 DEF GotIp, MqttInv, MqttWatched
  <1>4. CASE LinkLost
    <2>1. station'.link \in {"idle", "trying"}
      BY <1>0, <1>4 DEF LinkLost
    <2>2. ~ap => mqtt' # "connected"
      BY <1>0, <1>4, DisconnectedFacts DEF LinkLost
    <2>3. QED
      BY <1>4, <2>1, <2>2 DEF LinkLost, MqttInv, MqttWatched
  <1>5. CASE WaitExpires
    <2>1. UNCHANGED <<ready, mqtt>>
      BY <1>5 DEF WaitExpires
    <2>2. CASE ApOpens
      <3>1. ap' /\ station'.link = "off"
        BY <1>0, <1>5, <2>2 DEF WaitExpires
      <3>2. QED
        BY <2>1, <3>1 DEF MqttInv, MqttWatched
    <2>3. CASE ~ApOpens
      <3>1. UNCHANGED <<ap, station>> /\ (retry = "on" => retry' = "on")
        BY <1>03, <1>5, <2>3 DEF WaitExpires
      <3>2. QED
        BY <2>1, <3>1 DEF MqttInv, MqttWatched
    <2>4. QED
      BY <2>2, <2>3
  <1>6. CASE IdleStatus
    <2>1. station'.link = "trying" /\ UNCHANGED <<ready, ap>>
      BY <1>0, <1>6 DEF IdleStatus
    <2>2. ~ap => mqtt' # "connected"
      BY <1>0, <1>6, LeaveFacts DEF IdleStatus, MqttInv, NeedsReconnect
    <2>3. QED
      BY <2>1, <2>2 DEF MqttInv, MqttWatched
  <1>7. CASE MqttBegin
    BY <1>7 DEF MqttBegin, wifiVars, MqttInv, MqttWatched
  <1>8. CASE MqttTick
    <2>1. UNCHANGED <<station, ap, ready>>
      BY <1>8 DEF MqttTick, wifiVars
    <2>2. CASE mqtt = "connected"
      BY <1>8, <2>1, <2>2 DEF MqttTick, MqttInv, MqttWatched
    <2>3. CASE mqtt # "connected"
      BY <1>8, <2>1, <2>3 DEF MqttTick, MqttInv, MqttWatched
    <2>4. QED
      BY <2>2, <2>3
  <1>9. CASE MqttTickEnds
    BY <1>9 DEF MqttTickEnds, wifiVars, MqttInv, MqttWatched
  <1>10. CASE MqttConnected
    BY <1>10 DEF MqttConnected, Up, wifiVars, MqttInv, MqttWatched
  <1>11. CASE MqttClosed
    <2>1. UNCHANGED <<station, ap, ready>> /\ mqtt' = "off"
      BY <1>11 DEF MqttClosed, wifiVars
    <2>2. CASE Up
      <3>1. ready /\ retry' = "on"
        BY <1>01, <1>02, <1>11, <2>2 DEF MqttClosed, MqttInv, Up
      <3>2. QED
        BY <2>1, <2>2, <3>1 DEF MqttInv, MqttWatched, Up
    <2>3. CASE ~Up
      <3>1. retry' = retry
        BY <1>11, <2>3 DEF MqttClosed
      <3>2. QED
        BY <2>1, <2>3, <3>1 DEF MqttInv, MqttWatched, Up
    <2>4. QED
      BY <2>2, <2>3
  <1>12. CASE TestBegins
    <2>1. station'.link = "trying" /\ UNCHANGED <<ready, ap>>
      BY <1>0, <1>12 DEF TestBegins, Begin
    <2>2. ~ap => mqtt' # "connected"
      BY <1>0, <1>12, LeaveFacts, DisconnectedFacts
         DEF TestBegins, MqttInv, Leave
    <2>3. QED
      BY <2>1, <2>2 DEF MqttInv, MqttWatched
  <1>13. CASE TestFails
    <2>1. station'.link \in {"off", "trying"} /\ UNCHANGED <<ready, ap>>
      BY <1>0, <1>13 DEF TestFails, Revert, Begin
    <2>2. ~ap => mqtt' # "connected"
      BY <1>0, <1>13, LeaveFacts DEF TestFails, MqttInv, Up
    <2>3. QED
      BY <2>1, <2>2 DEF MqttInv, MqttWatched
  <1>14. CASE Restart
    BY <1>0, <1>14, BootedFacts DEF MqttInv, MqttWatched
  <1>15. QED
    BY <1>1, <1>2, <1>3, <1>4, <1>5, <1>6, <1>7, <1>8, <1>9, <1>10, <1>11,
       <1>12, <1>13, <1>14, MqttUntouched

\* If no event comes in the windows that lose it, no order of WiFi events,
\* MQTT events, tests, waits and reboots leaves MQTT without either a
\* connection or its reconnect task while the station is connected.
THEOREM MqttAlwaysWatched ==
    ASSUME ~Races
    PROVE  Spec => []MqttWatched
  <1>1. Init => MqttInv
    BY DEF Init, Begin, MqttInv, MqttWatched
  <1>2. TypeInv /\ MqttInv /\ [Next]_vars => MqttInv'
    BY StepMqttInv
  <1>3. MqttInv => MqttWatched
    BY DEF MqttInv
  <1>4. QED
    BY <1>1, <1>2, <1>3, TypeInvAlways, PTL DEF Spec

=============================================================================
