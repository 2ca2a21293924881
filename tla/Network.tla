------------------------------ MODULE Network ------------------------------
(***************************************************************************)
(* The WiFi connection, the access point it falls back to, the MQTT        *)
(* client that lives on it and the test of new WiFi credentials.  WiFi     *)
(* and MQTT events come from tasks of their own, requests from the web     *)
(* task; the waits, the test and the MQTT retries are tasks of the loop.   *)
(***************************************************************************)
EXTENDS Naturals

CONSTANTS
    Creds,      \* credentials of WiFi networks
    Factory,    \* those of the first configuration
    WaitTicks,  \* seconds of tWaitOnWiFi (60)
    Fallback,   \* waits before the access point opens (apFallbackSeconds / 60)
    TestTicks,  \* seconds a test of credentials lasts (15)
    Races       \* whether events may come in the windows that lose them

ASSUME NetworkAssumption ==
    /\ Factory \in Creds
    /\ WaitTicks \in Nat /\ Fallback \in Nat \ {0}
    /\ TestTicks \in Nat \ {0, 1}
    /\ Races \in BOOLEAN

VARIABLES
    station,    \* the state of the WiFi station and the credentials it uses
    good,       \* the credentials that would work now
    config,     \* the credentials in memory ...
    file,       \* ... and on the card
    wait,       \* tWaitOnWiFi: whether it is enabled, its iterations left
    lost,       \* _wifiDisconnectCount, in waits
    ap,         \* _apModeActive
    mqtt,       \* the MQTT client
    retry,      \* _tReconnect; "stopping" between connected() and disable()
    ready,      \* whether mqttHandler.begin() has run
    test,       \* the test of credentials and its task
    reboot      \* whether a delayed reboot is pending

wifiVars == <<station, wait, lost, ap>>
mqttVars == <<mqtt, retry, ready>>
webVars == <<config, file, test, reboot>>
vars == <<wifiVars, good, mqttVars, webVars>>

Links == {"off", "idle", "trying", "associated", "up"}
Tests == [state : {"none", "testing", "success", "failed"},
          task : {"off", "on", "stopping"},
          countdown : 0..TestTicks, old : Creds, new : Creds]

TypeOK ==
    /\ station \in [link : Links, creds : Creds]
    /\ good \subseteq Creds
    /\ config \in Creds /\ file \in Creds
    /\ wait \in [on : BOOLEAN, left : 0..WaitTicks]
    /\ lost \in 0..Fallback
    /\ ap \in BOOLEAN
    /\ mqtt \in {"off", "connecting", "connected", "closing"}
    /\ retry \in {"off", "on", "stopping"}
    /\ ready \in BOOLEAN
    /\ test \in Tests
    /\ reboot \in BOOLEAN

Up == station.link = "up"
Begin(creds) == [link |-> "trying", creds |-> creds]

\* The two windows: a task of the loop is about to disable itself.
Undisturbed == Races \/ (retry # "stopping" /\ test.task # "stopping")

-----------------------------------------------------------------------------
(* The connection *)

\* startReconnect() does nothing before begin(); the disable() of a stopping
\* task undoes it.
WrongStartReconnect == retry

StartReconnect ==
    IF ready /\ retry # "stopping" THEN "on" ELSE retry

\* STA_DISCONNECTED: the wait is enabled, whose iterations left stay as they
\* are; onWifiWaitEnable() closes the MQTT client, connected or not yet.
WrongDisconnected ==
    /\ wait' = [on |-> ~ap, left |-> WaitTicks]
    /\ mqtt' = IF mqtt # "off" /\ ~ap THEN "closing" ELSE mqtt
    /\ retry' = IF ap THEN retry ELSE "off"

Disconnected ==
    IF ap
    THEN UNCHANGED <<wait, mqtt, retry>>
    ELSE /\ wait' = [wait EXCEPT !.on = TRUE]
         /\ mqtt' = IF mqtt = "off" THEN "off" ELSE "closing"
         /\ retry' = "off"

\* Leaving what the station was doing, if anything, raises the event.
Leave ==
    IF station.link \in {"off", "idle"} THEN UNCHANGED <<wait, mqtt, retry>>
                                         ELSE Disconnected

\* STA_CONNECTED.
Associate ==
    /\ Undisturbed /\ (ready \/ Races)
    /\ station.link = "trying" /\ station.creds \in good
    /\ station' = [station EXCEPT !.link = "associated"]
    /\ retry' = StartReconnect
    /\ UNCHANGED <<good, wait, lost, ap, mqtt, ready, webVars>>

\* GOT_IP: the wait is disabled and with it, if it was on, MQTT restarted.
GotIp ==
    /\ Undisturbed
    /\ station.link = "associated"
    /\ station' = [station EXCEPT !.link = "up"]
    /\ wait' = [wait EXCEPT !.on = FALSE]
    /\ lost' = 0
    /\ retry' = IF wait.on THEN StartReconnect ELSE retry
    /\ UNCHANGED <<good, ap, mqtt, ready, webVars>>

\* A connection or an attempt ends; the platform may try again by itself.
LinkLost ==
    /\ Undisturbed
    /\ station.link \notin {"off", "idle"}
    /\ \E link \in {"idle", "trying"} :
          station' = [station EXCEPT !.link = link]
    /\ Disconnected
    /\ UNCHANGED <<good, lost, ap, ready, webVars>>

NetworkGone == station.creds \notin good /\ LinkLost

WaitTick ==
    /\ wait.on /\ wait.left > 0
    /\ wait' = [wait EXCEPT !.left = @ - 1]
    /\ UNCHANGED <<good, station, lost, ap, mqttVars, webVars>>

WrongApOpens == lost + 1 > Fallback

ApOpens == lost + 1 >= Fallback

\* A task without iterations left is disabled, which runs onWifiWaitDisable();
\* startAPMode() takes the station down.
WaitExpires ==
    /\ wait.on /\ wait.left = 0
    /\ wait' = [wait EXCEPT !.on = FALSE]
    /\ lost' = lost + 1
    /\ IF ApOpens
       THEN /\ ap' = TRUE
            /\ station' = [station EXCEPT !.link = "off"]
            /\ UNCHANGED retry
       ELSE retry' = StartReconnect /\ UNCHANGED <<ap, station>>
    /\ UNCHANGED <<good, mqtt, ready, webVars>>

WrongNeedsReconnect == station.link = "trying"

NeedsReconnect == station.link \notin {"off", "up"}

\* printIdleStatus() reconnects a station that is enabled and not connected.
IdleStatus ==
    /\ NeedsReconnect
    /\ station' = [station EXCEPT !.link = "trying"]
    /\ Leave
    /\ UNCHANGED <<good, lost, ap, ready, webVars>>

-----------------------------------------------------------------------------
(* The MQTT client *)

\* mqttHandler.begin(), which setup() calls after it has started WiFi.
MqttBegin ==
    /\ ~ready
    /\ ready' = TRUE
    /\ UNCHANGED <<good, wifiVars, mqtt, retry, webVars>>

MqttTick ==
    /\ retry = "on" /\ mqtt # "closing"
    /\ IF mqtt = "connected"
       THEN retry' = "stopping" /\ UNCHANGED mqtt
       ELSE mqtt' = "connecting" /\ UNCHANGED retry
    /\ UNCHANGED <<good, wifiVars, ready, webVars>>

MqttTickEnds ==
    /\ retry = "stopping"
    /\ retry' = "off"
    /\ UNCHANGED <<good, wifiVars, mqtt, ready, webVars>>

MqttConnected ==
    /\ Undisturbed
    /\ mqtt = "connecting" /\ Up
    /\ mqtt' = "connected"
    /\ retry' = "off"
    /\ UNCHANGED <<good, wifiVars, ready, webVars>>

\* onDisconnect(), after a failure, a loss or a disconnect().
MqttClosed ==
    /\ Undisturbed
    /\ mqtt # "off"
    /\ mqtt' = "off"
    /\ retry' = IF Up THEN StartReconnect ELSE retry
    /\ UNCHANGED <<good, wifiVars, ready, webVars>>

-----------------------------------------------------------------------------
(* The web requests *)

\* POST /wifi/test with the right password.
TestRequest(new) ==
    /\ Undisturbed
    /\ test.state # "testing"
    /\ test' = [state |-> "testing", countdown |-> TestTicks,
                task |-> IF test.task = "stopping" THEN "stopping" ELSE "on",
                old |-> config, new |-> new]
    /\ UNCHANGED <<good, wifiVars, mqttVars, config, file, reboot>>

Testing == test.task = "on" /\ test.state = "testing"

WrongTestStarts == test.countdown = TestTicks + 1

TestStarts == test.countdown = TestTicks

\* The result of saving the tested credentials is ignored.
Accept ==
    /\ test' = [test EXCEPT !.countdown = @ - 1, !.state = "success",
                            !.task = "stopping"]
    /\ config' = test.new
    /\ file' \in {file, test.new}
    /\ reboot' = TRUE

\* The first second: the connection is taken down and the new one begun; the
\* access point stays beside it.  The status read at its end may still be that
\* of the old connection, which is then taken for the new one.
TestBegins ==
    /\ Testing /\ TestStarts
    /\ station' = Begin(test.new)
    /\ IF ap THEN UNCHANGED <<wait, mqtt, retry>> ELSE Leave
    /\ \/ /\ test' = [test EXCEPT !.countdown = @ - 1]
          /\ UNCHANGED <<config, file, reboot>>
       \/ Up /\ Accept
    /\ UNCHANGED <<good, lost, ap, ready>>

TestSucceeds ==
    /\ Testing /\ ~TestStarts /\ Up
    /\ Accept
    /\ UNCHANGED <<good, wifiVars, mqttVars>>

TestWaits ==
    /\ Testing /\ ~TestStarts /\ ~Up /\ test.countdown > 1
    /\ test' = [test EXCEPT !.countdown = @ - 1]
    /\ UNCHANGED <<good, wifiVars, mqttVars, config, file, reboot>>

WrongRevert == Begin(test.new)

Revert ==
    IF ap THEN [station EXCEPT !.link = "off"] ELSE Begin(test.old)

WrongTestResult == [test EXCEPT !.countdown = 0, !.task = "stopping"]

TestResult ==
    [test EXCEPT !.countdown = 0, !.state = "failed", !.task = "stopping"]

TestFails ==
    /\ Testing /\ ~TestStarts /\ ~Up /\ test.countdown = 1
    /\ test' = TestResult
    /\ station' = Revert
    /\ Leave
    /\ UNCHANGED <<good, lost, ap, ready, config, file, reboot>>

\* The disable() that ends the tick.
TestTaskStops ==
    /\ test.task = "stopping"
    /\ test' = [test EXCEPT !.task = "off"]
    /\ UNCHANGED <<good, wifiVars, mqttVars, config, file, reboot>>

\* POST /config: what it accepts is kept although another field is refused or
\* the save fails; only a complete success reboots.
ConfigPost(new, accepted, saved) ==
    /\ Undisturbed
    /\ config' = new
    /\ file' = IF saved THEN new ELSE file
    /\ reboot' = (reboot \/ (new # config /\ accepted /\ saved))
    /\ UNCHANGED <<good, wifiVars, mqttVars, test>>

RebootPost ==
    /\ ~reboot
    /\ reboot' = TRUE
    /\ UNCHANGED <<good, wifiVars, mqttVars, config, file, test>>

-----------------------------------------------------------------------------
NoTest(creds) == [state |-> "none", task |-> "off", countdown |-> 0,
                  old |-> creds, new |-> creds]

\* setup() up to connectToWifi().
Booted(creds) ==
    /\ station' = Begin(creds) /\ config' = creds
    /\ wait' = [on |-> FALSE, left |-> WaitTicks]
    /\ lost' = 0 /\ ap' = FALSE
    /\ mqtt' = "off" /\ retry' = "off" /\ ready' = FALSE
    /\ test' = NoTest(creds) /\ reboot' = FALSE

\* The delayed reboot, or a power loss at any moment.
Restart == Booted(file) /\ UNCHANGED <<file, good>>

Reboot == reboot /\ Restart

\* Networks come and go, and passwords of routers change.
Surroundings ==
    /\ good' \in (SUBSET Creds) \ {good}
    /\ UNCHANGED <<wifiVars, mqttVars, webVars>>

Init ==
    /\ station = Begin(Factory) /\ config = Factory /\ file = Factory
    /\ good \in SUBSET Creds
    /\ wait = [on |-> FALSE, left |-> WaitTicks]
    /\ lost = 0 /\ ap = FALSE
    /\ mqtt = "off" /\ retry = "off" /\ ready = FALSE
    /\ test = NoTest(Factory) /\ reboot = FALSE

TestTick == TestBegins \/ TestSucceeds \/ TestWaits \/ TestFails

LoopStep == WaitTick \/ WaitExpires \/ MqttTick \/ MqttTickEnds \/ TestTaskStops

Next ==
    \/ Associate \/ GotIp \/ LinkLost \/ LoopStep \/ IdleStatus
    \/ MqttBegin \/ MqttConnected \/ MqttClosed
    \/ TestTick \/ \E new \in Creds : TestRequest(new)
    \/ \E new \in Creds, accepted, saved \in BOOLEAN :
          ConfigPost(new, accepted, saved)
    \/ RebootPost \/ Restart \/ Surroundings

Spec == Init /\ [][Next]_vars

\* The loop runs its tasks (an attempt takes longer than the second of a wait
\* that each failure begins again); the station leaves a network that is gone
\* and connects, again and again, where it can.  The broker answers, and a client
\* told to close does.
FairSpec ==
    /\ Spec
    /\ WF_vars(WaitTick) /\ WF_vars(WaitExpires) /\ WF_vars(MqttTickEnds)
    /\ SF_vars(MqttTick) /\ WF_vars(TestTick) /\ WF_vars(TestTaskStops)
    /\ WF_vars(IdleStatus) /\ WF_vars(MqttBegin) /\ WF_vars(Reboot)
    /\ WF_vars(NetworkGone) /\ SF_vars(Associate) /\ SF_vars(GotIp)
    /\ SF_vars(MqttConnected) /\ WF_vars(mqtt = "closing" /\ MqttClosed)

-----------------------------------------------------------------------------
(* Properties *)

\* After boot, while the station is connected the MQTT client is, or its
\* reconnect task is on: no order of events leaves MQTT without either.
MqttWatched ==
    ready /\ station.link \in {"associated", "up"} /\ ~ap =>
        retry = "on" \/ mqtt \in {"connected", "closing"}

\* A failed test leaves the station with the credentials configured before
\* it, or off beside the access point.
FailedGoesBack ==
    test.state = "failed" =>
        IF ap THEN station.link = "off" ELSE station.creds = test.old

\* After its first second, in which the status may be that of the connection
\* before it, a test changes the configuration only to credentials the station
\* is connected with, whatever was posted meanwhile.
SavedWasTried ==
    [][test.state = "testing" /\ test'.state = "success"
          /\ test.countdown < TestTicks => Up /\ config' = station.creds]_vars

NoMoreRestarts == <>[][~Restart]_vars

\* "AP fallback": without any network the access point opens, however often
\* the attempts fail and restart the wait.
FallbackReached == NoMoreRestarts /\ <>[](good = {}) => <>ap

\* "Auto-reconnect": where the network stays the station connects, and where
\* the connection stays the MQTT client does.
ConnectionReturns ==
    NoMoreRestarts /\ <>[](station.creds \in good /\ ~ap) => []<>Up

MqttReturns ==
    NoMoreRestarts /\ <>[](Up /\ ~ap) => []<>(mqtt = "connected")

\* A test of credentials always ends.
TestEnds == test.state = "testing" ~> test.state # "testing"

=============================================================================
