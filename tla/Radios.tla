-------------------------------- MODULE Radios --------------------------------
(***************************************************************************)
(* The two radios of the device and who may use them.  BLE takes the       *)
(* credentials of a Wi-Fi network from a phone (ble/provisioning_state.cpp,*)
(* drivers/net/ble_provisioning.cpp), keeps them in flash                  *)
(* (drivers/net/net_credentials.cpp), and hands over to Wi-Fi, which       *)
(* carries the HTTP sessions (main.cpp: ToggleTransferMode,                *)
(* PollTransferMode).  Idle sleep must spare both.                         *)
(*                                                                         *)
(* The writes of the phone run on the Bluetooth task, between any two      *)
(* steps of loop(); loop() itself is split where such a write can change   *)
(* what it does.  A timer is a fact that becomes true some time after it   *)
(* was started; what restarts it is what the code assigns to its           *)
(* millisecond counter.                                                    *)
(*                                                                         *)
(* Credentials are an SSID and a passphrase; they are right when they name *)
(* the same network, and None stands for an empty field.  The device name  *)
(* and the pairing token are set, saved and loaded in the same way and     *)
(* left out, as are rejected writes, which change only last_error().       *)
(* The compiled-in credentials of a development build are left out too.    *)
(***************************************************************************)
EXTENDS Naturals, Sequences

CONSTANTS
  Networks,    (* networks in range                                        *)
  Builds,      (* values of app::kTableClockMode to look at                *)
  MaxDrops,    (* how often a connection may be lost                       *)
  FlashFaults, (* may a write to flash fail?                               *)
  None

ASSUME RadiosAssumption ==
  /\ Builds \subseteq BOOLEAN
  /\ FlashFaults \in BOOLEAN
  /\ MaxDrops \in Nat
  /\ None \notin Networks

VARIABLES
  tableClock,            (* app::kTableClockMode                           *)
  nvs, wifiJson,         (* flash, and /DEVICE/wifi.json on the card       *)
  live, status,          (* g_provisioning: its fields, its status         *)
  ble, commit, joining,  (* g_ble: active_, commit_requested_, connecting_ *)
  link, air, drops,      (* the Wi-Fi driver, what it joins, drops so far  *)
  transfer, http,        (* g_transfer_state, g_http.active()              *)
  wanted, lost,          (* g_wifi_wanted, g_wifi_lost_ms # 0              *)
  due,                   (* the timers that have run out                   *)
  idle, busy,            (* g_idle: timed out, busy()                      *)
  pc, job                (* the step of setup() or loop(), a save under way *)

flash    == <<tableClock, nvs, wifiJson>>
pairing  == <<live, status, commit, joining>>
wifi     == <<link, air, drops>>
session  == <<transfer, http, wanted, lost>>
awake    == <<idle, busy>>
vars     == <<flash, pairing, ble, wifi, session, due, awake, pc, job>>

Timers  == {"commit", "join", "retry", "lost", "session"}
Field   == Networks \cup {None}
Creds   == [ssid : Field, pass : Field]
Empty   == [ssid |-> None, pass |-> None]
Right(c) == c.ssid \in Networks /\ c.pass = c.ssid
Ready(c) == c.ssid # None
NoJob   == [left |-> <<>>, ok |-> TRUE, then |-> "", had |-> FALSE]

TypeOK ==
  /\ tableClock \in Builds
  /\ nvs \in Creds /\ live \in Creds /\ air \in Creds
  /\ wifiJson \in Creds \cup {None}
  /\ status \in {"idle", "receiving", "ready", "connecting", "provisioned", "failed"}
  /\ {ble, commit, joining, http, wanted, lost, idle, busy} \subseteq BOOLEAN
  /\ link \in {"off", "joining", "up"} /\ drops \in 0..MaxDrops
  /\ transfer \in {"off", "connecting", "on"}
  /\ due \subseteq Timers
  /\ pc \in {"off", "save", "setup", "events", "ble", "check", "poll", "http", "sleep"}
  /\ job.left \in {<<>>, <<"pass">>, <<"ssid", "pass">>} /\ job.then \in {"", "setup", "check"}
  /\ pc # "save" <=> job = NoJob

Init ==
  /\ tableClock \in Builds
  /\ nvs = Empty /\ wifiJson = None
  /\ live = Empty /\ status = "idle"
  /\ ble = FALSE /\ commit = FALSE /\ joining = FALSE
  /\ link = "off" /\ air = Empty /\ drops = 0
  /\ transfer = "off" /\ http = FALSE /\ wanted = tableClock /\ lost = FALSE
  /\ due = {} /\ idle = FALSE /\ busy = FALSE
  /\ pc = "off" /\ job = NoJob

-----------------------------------------------------------------------------
(* The Wi-Fi driver                                                        *)

WifiBegin(c) == link' = "joining" /\ air' = c /\ UNCHANGED drops
WifiOff      == link' = "off" /\ UNCHANGED <<air, drops>>

Associate ==
  /\ link = "joining" /\ Right(air)
  /\ link' = "up"
  /\ UNCHANGED <<flash, pairing, ble, air, drops, session, due, awake, pc, job>>

(* The core of the driver joins again on its own.                          *)
Drop ==
  /\ link = "up" /\ drops < MaxDrops /\ pc \notin {"off", "save"}
  /\ link' = "joining" /\ drops' = drops + 1
  /\ UNCHANGED <<flash, pairing, ble, air, session, due, awake, pc, job>>

Running(t) ==
  CASE t = "commit"  -> joining
    [] t = "join"    -> transfer = "connecting"
    [] t = "retry"   -> transfer = "off"
    [] t = "lost"    -> lost
    [] t = "session" -> transfer = "on"

Tick(t) ==
  /\ pc \notin {"off", "save"}
  /\ Running(t) /\ t \notin due
  /\ due' = due \cup {t}
  /\ UNCHANGED <<flash, pairing, ble, wifi, session, awake, pc, job>>

(* Nothing has happened for kIdleSleepMs.                                  *)
IdleTimesOut ==
  /\ pc \notin {"off", "save"} /\ ~idle
  /\ idle' = TRUE
  /\ UNCHANGED <<flash, pairing, ble, wifi, session, due, busy, pc, job>>

-----------------------------------------------------------------------------
(* The phone, on the Bluetooth task                                        *)

Receive(c) == live' = c /\ status' = IF Ready(c) THEN "ready" ELSE "receiving"

BleWrite ==
  /\ ble /\ pc # "off"
  /\ \E n \in Networks :
       \/ Receive([live EXCEPT !.ssid = n])
       \/ Receive([live EXCEPT !.pass = n])
  /\ UNCHANGED <<commit, joining, flash, ble, wifi, session, due, awake, pc, job>>

BleCommit ==
  /\ ble /\ pc # "off" /\ ~commit
  /\ commit' = TRUE
  /\ UNCHANGED <<live, status, joining, flash, ble, wifi, session, due, awake, pc, job>>

(* g_ble.begin() on g_provisioning as it is.                               *)
BleBegin == ble' = TRUE /\ commit' = FALSE /\ joining' = FALSE

-----------------------------------------------------------------------------
(* Keeping the credentials: one write to flash per field                   *)

Save(then, had) ==
  /\ pc' = "save"
  /\ job' = [left |-> <<"ssid", "pass">>, ok |-> TRUE, then |-> then, had |-> had]

(* The field is read when it is written; a write that fails is passed over. *)
PutField ==
  /\ pc = "save" /\ job.left # <<>>
  /\ \E ok \in BOOLEAN :
       /\ ok \/ FlashFaults
       /\ nvs' = IF ok THEN [nvs EXCEPT ![Head(job.left)] = live[Head(job.left)]] ELSE nvs
       /\ job' = [job EXCEPT !.left = Tail(@), !.ok = @ /\ ok]
  /\ UNCHANGED <<tableClock, wifiJson, pairing, ble, wifi, session, due, awake, pc>>

(* Mutation: the save that is over is taken for one still running.         *)
SaveReturnsHeld ==
  /\ pc = "save" /\ job.left = <<>> /\ job.then = "check"
  /\ status' = IF job.ok THEN status ELSE "failed"
  /\ pc' = "check"
  /\ UNCHANGED <<live, commit, joining, flash, ble, wifi, session, due, awake, job>>

(* finishConnecting(): persistFailed() when a write failed.                *)
SaveReturns ==
  /\ pc = "save" /\ job.left = <<>> /\ job.then = "check"
  /\ status' = IF job.ok THEN status ELSE "failed"
  /\ pc' = "check" /\ job' = NoJob
  /\ UNCHANGED <<live, commit, joining, flash, ble, wifi, session, due, awake>>

-----------------------------------------------------------------------------
(* setup()                                                                 *)

(* The last lines of BringUpNetState().                                    *)
Pair(has) ==
  /\ pc' = "setup" /\ job' = NoJob
  /\ IF has THEN UNCHANGED <<ble, commit, joining, awake>>
            ELSE BleBegin /\ busy' = TRUE /\ UNCHANGED idle

(* No wifi.json, or one that cannot be read.                               *)
BootLoad ==
  /\ wifiJson' = None
  /\ live' = IF Ready(nvs) THEN nvs ELSE Empty
  /\ status' = IF Ready(nvs) THEN "ready" ELSE "idle"
  /\ Pair(Ready(nvs))
  /\ UNCHANGED wifi

(* TryWifiBypassFromSdCard(): the file is gone whatever comes of it.        *)
BootBypass ==
  /\ wifiJson # None /\ wifiJson' = None
  /\ \/ /\ Right(wifiJson)
        /\ link' = "up" /\ air' = wifiJson
        /\ live' = wifiJson /\ status' = "provisioned"
        /\ Save("setup", Ready(nvs))
        /\ UNCHANGED <<drops, ble, commit, joining, awake>>
     \/ /\ WifiOff
        /\ live' = IF Ready(nvs) THEN nvs ELSE wifiJson
        /\ status' = IF Ready(nvs) THEN "ready" ELSE "failed"
        /\ Pair(Ready(nvs))

(* Without a card nothing is loaded, and nobody is asked.                  *)
BootNoCard ==
  /\ pc' = "setup"
  /\ UNCHANGED <<wifiJson, live, status, commit, joining, ble, wifi, awake, job>>

Boot ==
  /\ pc = "off"
  /\ BootLoad \/ BootBypass \/ BootNoCard
  /\ UNCHANGED <<tableClock, nvs, session, due>>

BootSaved ==
  /\ pc = "save" /\ job.left = <<>> /\ job.then = "setup"
  /\ Pair(job.ok \/ job.had)
  /\ UNCHANGED <<flash, live, status, wifi, session, due>>

EndTransferMode ==
  /\ transfer' = "off" /\ http' = FALSE /\ lost' = FALSE
  /\ WifiOff
  /\ due' = due \ {"retry", "lost"}
  /\ idle' = FALSE /\ busy' = FALSE

(* Mutation: a session is not marked busy.                                 *)
GoOnlineIdle ==
  /\ WifiBegin(live)
  /\ transfer' = "connecting" /\ wanted' = TRUE
  /\ due' = due \ {"join", "retry"}
  /\ UNCHANGED <<http, lost, awake>>

GoOnline ==
  /\ WifiBegin(live)
  /\ transfer' = "connecting" /\ wanted' = TRUE
  /\ due' = due \ {"join", "retry"} /\ busy' = TRUE
  /\ UNCHANGED <<http, lost, idle>>

(* Mutation: mid-pairing is not looked at.                                 *)
ToggleAnyTime ==
  \/ /\ transfer = "off" /\ Ready(live)
     /\ GoOnline
  \/ /\ transfer = "off" /\ ~Ready(live)
     /\ UNCHANGED <<wifi, session, due, awake>>
  \/ transfer # "off" /\ wanted' = FALSE /\ EndTransferMode

ToggleTransferMode ==
  \/ /\ ~ble /\ transfer = "off" /\ Ready(live)
     /\ GoOnline
  \/ /\ ble \/ (transfer = "off" /\ ~Ready(live))
     /\ UNCHANGED <<wifi, session, due, awake>>
  \/ ~ble /\ transfer # "off" /\ wanted' = FALSE /\ EndTransferMode

(* g_idle.begin(), and a table clock goes online.                          *)
SetupEnds ==
  /\ pc = "setup" /\ pc' = "events"
  /\ idle' = FALSE
  /\ IF tableClock /\ Ready(live) /\ ~ble
       THEN /\ WifiBegin(live)
            /\ transfer' = "connecting" /\ due' = due \ {"join"} /\ busy' = TRUE
            /\ UNCHANGED <<http, wanted, lost>>
       ELSE busy' = FALSE /\ UNCHANGED <<wifi, session, due>>
  /\ UNCHANGED <<flash, pairing, ble, job>>

-----------------------------------------------------------------------------
(* loop()                                                                  *)

At(step, next) == pc = step /\ pc' = next /\ UNCHANGED <<tableClock, wifiJson, job>>

NoEvent ==
  /\ At("events", "ble")
  /\ UNCHANGED <<nvs, pairing, ble, wifi, session, due, awake>>

PressHeld ==
  /\ At("events", "ble")
  /\ ToggleTransferMode
  /\ UNCHANGED <<nvs, pairing, ble>>

(* EXIT held.  The answer of clear() is not looked at.                     *)
FactoryReset ==
  /\ At("events", "ble")
  /\ ~ble /\ (transfer = "off" \/ tableClock)
  /\ IF transfer = "off" THEN UNCHANGED <<wifi, due>>
                         ELSE WifiOff /\ due' = due \ {"retry", "lost"}
  /\ transfer' = "off" /\ http' = FALSE /\ lost' = FALSE /\ wanted' = FALSE
  /\ nvs' = Empty \/ (FlashFaults /\ nvs' = nvs)
  /\ live' = Empty /\ status' = "idle"
  /\ BleBegin /\ idle' = FALSE /\ busy' = TRUE

TurnedOff ==
  /\ pc' = "off" /\ job' = NoJob
  /\ live' = Empty /\ status' = "idle"
  /\ ble' = FALSE /\ commit' = FALSE /\ joining' = FALSE
  /\ link' = "off" /\ air' = Empty
  /\ transfer' = "off" /\ http' = FALSE /\ wanted' = tableClock /\ lost' = FALSE
  /\ due' = {} /\ idle' = FALSE /\ busy' = FALSE
  /\ UNCHANGED <<tableClock, drops>>

(* EXIT, where there is nothing left to leave: a session, or the day.      *)
ExitPressed ==
  /\ pc = "events" /\ ~tableClock
  /\ \/ /\ transfer # "off" /\ EndTransferMode /\ pc' = "ble"
        /\ UNCHANGED <<flash, pairing, ble, wanted, job>>
     \/ transfer = "off" /\ ~ble /\ TurnedOff /\ UNCHANGED <<nvs, wifiJson>>

(* Mutation: a commit is taken while one is being tried.                   *)
CommitBeginsAgain ==
  /\ At("ble", "ble") /\ ble /\ commit
  /\ commit' = FALSE
  /\ IF Ready(live)
       THEN /\ status' = "connecting" /\ joining' = TRUE
            /\ WifiBegin(live) /\ due' = due \ {"commit"}
       ELSE UNCHANGED <<status, joining, wifi, due>>
  /\ UNCHANGED <<live, nvs, ble, session, awake>>

(* handleCommitRequested(), inside poll().                                 *)
CommitBegins ==
  /\ At("ble", "ble") /\ ble /\ commit /\ ~joining
  /\ commit' = FALSE
  /\ IF Ready(live)
       THEN /\ status' = "connecting" /\ joining' = TRUE
            /\ WifiBegin(live) /\ due' = due \ {"commit"}
       ELSE UNCHANGED <<status, joining, wifi, due>>
  /\ UNCHANGED <<live, nvs, ble, session, awake>>

(* poll(), once nothing is left to begin; a success goes on in PutField.   *)
BlePoll ==
  /\ pc = "ble" /\ (~ble \/ ~commit \/ joining)
  /\ \/ /\ ~joining \/ (link # "up" /\ "commit" \notin due)
        /\ pc' = "check" /\ UNCHANGED <<pairing, wifi, job>>
     \/ /\ joining /\ link = "up"
        /\ joining' = FALSE /\ status' = "provisioned"
        /\ Save("check", FALSE)
        /\ UNCHANGED <<live, commit, wifi>>
     \/ /\ joining /\ link # "up" /\ "commit" \in due
        /\ joining' = FALSE /\ status' = "failed" /\ WifiOff
        /\ pc' = "check" /\ UNCHANGED <<live, commit, job>>
  /\ UNCHANGED <<flash, ble, session, due, awake>>

(* A table clock goes straight on: the retry counter is zeroed, which is   *)
(* an interval ago unless the device has only just started.                *)
CheckProvisioningOutcome ==
  /\ At("check", "poll")
  /\ IF ble /\ status = "provisioned"
       THEN /\ ble' = FALSE /\ WifiOff
            /\ idle' = FALSE /\ busy' = FALSE
            /\ IF tableClock
                 THEN wanted' = TRUE /\ due' \in {due \ {"retry"}, due \cup {"retry"}}
                 ELSE UNCHANGED <<wanted, due>>
       ELSE UNCHANGED <<ble, wifi, awake, wanted, due>>
  /\ UNCHANGED <<nvs, pairing, transfer, http, lost>>

(* Mutation: the retry counter restarts before it is looked at.            *)
PollOffRestarts ==
  /\ transfer = "off"
  /\ due' = due \ {"retry"}
  /\ UNCHANGED <<wifi, session, awake>>

PollOff ==
  /\ transfer = "off"
  /\ IF tableClock /\ wanted /\ Ready(live) /\ ~ble /\ "retry" \in due
       THEN GoOnline
       ELSE UNCHANGED <<wifi, session, due, awake>>

PollConnecting ==
  /\ transfer = "connecting"
  /\ \/ /\ link = "up"
        /\ transfer' = "on" /\ http' = TRUE /\ lost' = FALSE
        /\ due' = due \ {"session", "lost"}
        /\ UNCHANGED <<wanted, wifi, awake>>
     \/ link # "up" /\ "join" \in due /\ EndTransferMode /\ UNCHANGED wanted
     \/ link # "up" /\ "join" \notin due /\ UNCHANGED <<wifi, session, due, awake>>

PollOn ==
  /\ transfer = "on"
  /\ \/ link # "up" /\ "lost" \in due /\ EndTransferMode /\ UNCHANGED wanted
     \/ /\ link # "up" \/ tableClock \/ "session" \notin due
        /\ link # "up" => "lost" \notin due
        /\ lost' = (link # "up")
        /\ due' = IF link = "up" THEN due \ {"lost"} ELSE due
        /\ UNCHANGED <<wifi, transfer, http, wanted, awake>>
     \/ /\ link = "up" /\ ~tableClock /\ "session" \in due
        /\ EndTransferMode /\ UNCHANGED wanted

PollTransferMode ==
  /\ At("poll", "http")
  /\ PollOff \/ PollConnecting \/ PollOn
  /\ UNCHANGED <<nvs, pairing, ble>>

(* The HTTP server may have installed a new firmware: restart.             *)
HttpPoll ==
  /\ pc = "http"
  /\ \/ /\ pc' = "sleep"
        /\ UNCHANGED <<tableClock, pairing, ble, wifi, session, due, awake, job>>
     \/ http /\ TurnedOff
  /\ UNCHANGED <<nvs, wifiJson>>

GoToSleep == ~tableClock /\ ~busy /\ idle

SleepCheck ==
  /\ pc = "sleep"
  /\ \/ GoToSleep /\ TurnedOff
     \/ /\ ~GoToSleep /\ pc' = "events"
        /\ UNCHANGED <<tableClock, pairing, ble, wifi, session, due, awake, job>>
  /\ UNCHANGED <<nvs, wifiJson>>

PowerLoss == pc # "off" /\ TurnedOff /\ UNCHANGED <<nvs, wifiJson>>

(* The owner puts a wifi.json on the card.                                 *)
PutWifiJson ==
  /\ pc = "off" /\ wifiJson = None
  /\ wifiJson' \in [ssid : Networks, pass : Field]
  /\ UNCHANGED <<tableClock, nvs, pairing, ble, wifi, session, due, awake, pc, job>>

Loop ==
  \/ NoEvent \/ CommitBegins \/ BlePoll \/ CheckProvisioningOutcome
  \/ PollTransferMode \/ HttpPoll \/ SleepCheck
  \/ PutField \/ SaveReturns \/ Boot \/ BootSaved \/ SetupEnds

User == PressHeld \/ FactoryReset \/ ExitPressed \/ PowerLoss \/ PutWifiJson

Next ==
  \/ Loop \/ User \/ BleWrite \/ BleCommit \/ Associate \/ Drop
  \/ IdleTimesOut \/ \E t \in Timers : Tick(t)

Spec == Init /\ [][Next]_vars

(* loop() runs for ever and time passes.  A network in range answers: one  *)
(* of the attempts to join it succeeds before its timer runs out.          *)
FairSpec ==
  /\ Spec
  /\ WF_vars(Loop) /\ SF_vars(Associate)
  /\ \A t \in Timers : WF_vars(Tick(t))

-----------------------------------------------------------------------------
(* Properties                                                              *)

(* Pairing and a transfer session exclude each other, the HTTP server runs *)
(* just while a session is on, and a table clock without either has its    *)
(* Wi-Fi off, whatever was pressed, lost or reset before.                  *)
RadiosShared ==
  /\ ble => transfer = "off"
  /\ http <=> transfer = "on"
  /\ tableClock /\ pc = "sleep" /\ transfer = "off" /\ ~ble => link = "off"

(* The battery build never falls asleep by itself under a session: none of *)
(* the ways one radio hands over to the other clears the busy mark of the  *)
(* session that has begun.                                                 *)
SleepSparesSession == [][SleepCheck /\ pc' = "off" => transfer = "off"]_vars

(* A table clock that is to be online, and knows the network, comes online *)
(* again after every loss: of the three timers of a session, the one that  *)
(* ends it and the one that retries never leave it off for good.           *)
OnlineAgain ==
  (tableClock /\ wanted /\ Right(live) /\ ~ble /\ pc = "events")
    ~> (transfer = "on" \/ ~wanted \/ pc = "off")

(* An attempt to verify credentials has an end, whatever the phone writes  *)
(* while it lasts.                                                         *)
PairingAnswered == joining ~> ~joining
=============================================================================
