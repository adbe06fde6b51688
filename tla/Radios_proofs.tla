---------------------------- MODULE Radios_proofs ----------------------------
(***************************************************************************)
(* Proofs about Radios, for any networks and both builds: the variables    *)
(* keep their types, the radios exclude each other, and idle sleep spares  *)
(* a session.                                                              *)
(***************************************************************************)
EXTENDS Radios, TLAPS

-----------------------------------------------------------------------------
(* The types of the variables, in the groups the code changes together     *)

Statuses == {"idle", "receiving", "ready", "connecting", "provisioned", "failed"}
JobSet   == [left : {<<>>, <<"pass">>, <<"ssid", "pass">>}, ok : BOOLEAN,
             then : {"", "setup", "check"}, had : BOOLEAN]

FlashTyped   == tableClock \in Builds /\ nvs \in Creds /\ wifiJson \in Creds \cup {None}
PairingTyped == /\ live \in Creds /\ status \in Statuses
                /\ ble \in BOOLEAN /\ commit \in BOOLEAN /\ joining \in BOOLEAN
WifiTyped    == link \in {"off", "joining", "up"} /\ air \in Creds /\ drops \in 0..MaxDrops
SessionTyped == /\ transfer \in {"off", "connecting", "on"} /\ due \subseteq Timers
                /\ http \in BOOLEAN /\ wanted \in BOOLEAN /\ lost \in BOOLEAN
AwakeTyped   == idle \in BOOLEAN /\ busy \in BOOLEAN
StepTyped    == /\ pc \in {"off", "save", "setup", "events", "ble", "check", "poll", "http", "sleep"}
                /\ pc # "save" => job = NoJob
                /\ pc = "save" => job \in JobSet /\ job.then # ""

Typed == FlashTyped /\ PairingTyped /\ WifiTyped /\ SessionTyped /\ AwakeTyped /\ StepTyped

(* The groups together are the type invariant.                             *)
LEMMA TypedIsTypeOK == Typed => TypeOK
<1>. SUFFICES ASSUME Typed PROVE TypeOK
  OBVIOUS
<1>1. job.left \in {<<>>, <<"pass">>, <<"ssid", "pass">>} /\ job.then \in {"", "setup", "check"}
  <2>1. CASE pc = "save"
    BY <2>1 DEF Typed, StepTyped, JobSet
  <2>2. CASE pc # "save"
    <3>1. job = NoJob
      BY <2>2 DEF Typed, StepTyped
    <3>. QED
      BY <3>1 DEF NoJob
  <2>. QED
    BY <2>1, <2>2
<1>2. pc # "save" <=> job = NoJob
  <2>1. NoJob.then = ""
    BY DEF NoJob
  <2>2. pc = "save" => job.then # ""
    BY DEF Typed, StepTyped
  <2>3. pc # "save" => job = NoJob
    BY DEF Typed, StepTyped
  <2>. QED
    BY <2>1, <2>2, <2>3
<1>3. {ble, commit, joining, http, wanted, lost, idle, busy} \subseteq BOOLEAN
  BY DEF Typed, PairingTyped, SessionTyped, AwakeTyped
<1>. QED
  BY <1>1, <1>2, <1>3 DEF Typed, FlashTyped, PairingTyped, WifiTyped, SessionTyped,
     AwakeTyped, StepTyped, TypeOK, Statuses

-----------------------------------------------------------------------------
(* The inductive invariant.  Until setup() ends there is no session, so    *)
(* that pairing may begin, and a network the bypass file has joined is the *)
(* one setup() goes online with; from then on the Wi-Fi of a table clock   *)
(* is on for pairing or for a session only, and a session is busy.         *)

Starting == pc \in {"off", "setup"} \/ (pc = "save" /\ job.then = "setup")

Exclusive == (ble => transfer = "off") /\ (http <=> transfer = "on")
Quiet     == Starting => transfer = "off"
LinkOwned ==
  /\ pc = "off" => link = "off"
  /\ Starting /\ link # "off" => Ready(live)
  /\ ~ Starting /\ tableClock /\ transfer = "off" /\ ~ ble => link = "off"
BusyInSession == transfer # "off" => busy

RInv == Typed /\ Exclusive /\ Quiet /\ LinkOwned /\ BusyInSession

(* A step that leaves the place in the code alone.                         *)
LEMMA StepTypedKept == ASSUME StepTyped, UNCHANGED <<pc, job>> PROVE StepTyped'
  BY DEF StepTyped

(* The place in the code outside a save.                                   *)
LEMMA StepTypedBetween ==
  ASSUME pc' \in {"off", "setup", "events", "ble", "check", "poll", "http", "sleep"}, job' = NoJob
  PROVE  StepTyped'
<1>1. pc' # "save"
  OBVIOUS
<1>2. pc' \in {"off", "save", "setup", "events", "ble", "check", "poll", "http", "sleep"}
  OBVIOUS
<1>. QED
  BY <1>1, <1>2, Zenon DEF StepTyped

(* A device that was never started.                                        *)
LEMMA InitRInv == Init => RInv
<1>. SUFFICES ASSUME Init PROVE RInv
  OBVIOUS
<1>1. Empty \in Creds
  BY DEF Empty, Creds, Field
<1>2. FlashTyped /\ PairingTyped
  BY <1>1, RadiosAssumption DEF Init, FlashTyped, PairingTyped, Statuses
<1>3. WifiTyped /\ SessionTyped /\ AwakeTyped
  <2>1. 0 \in 0..MaxDrops
    BY RadiosAssumption
  <2>2. wanted \in BOOLEAN
    BY RadiosAssumption, Zenon DEF Init
  <2>. QED
    BY <1>1, <2>1, <2>2 DEF Init, WifiTyped, SessionTyped, AwakeTyped
<1>4. StepTyped
  BY DEF Init, StepTyped
<1>5. Exclusive /\ Quiet /\ LinkOwned /\ BusyInSession
  BY DEF Init, Exclusive, Quiet, LinkOwned, Starting, BusyInSession
<1>. QED
  BY <1>2, <1>3, <1>4, <1>5 DEF RInv, Typed

(* A device that is turned off.                                            *)
LEMMA TurnedOffStep ==
  ASSUME RInv, TurnedOff, UNCHANGED <<nvs, wifiJson>>
  PROVE  RInv'
<1>1. Empty \in Creds
  BY DEF Empty, Creds, Field
<1>2. Typed'
  BY <1>1, RadiosAssumption DEF RInv, TurnedOff, Typed, FlashTyped, PairingTyped, WifiTyped,
     SessionTyped, AwakeTyped, StepTyped, Statuses
<1>3. Exclusive' /\ Quiet' /\ LinkOwned' /\ BusyInSession'
  BY DEF TurnedOff, Exclusive, Quiet, LinkOwned, Starting, BusyInSession
<1>. QED
  BY <1>2, <1>3 DEF RInv

-----------------------------------------------------------------------------
(* The driver, the timers and the phone                                    *)

(* Joining, losing a connection and time.                                  *)
LEMMA DriverStep ==
  ASSUME RInv, Associate \/ Drop \/ IdleTimesOut \/ \E t \in Timers : Tick(t)
  PROVE  RInv'
<1>1. CASE Associate \/ Drop
  <2>1. WifiTyped'
    BY <1>1, RadiosAssumption DEF Associate, Drop, wifi, RInv, Typed, WifiTyped
  <2>2. Typed'
    <3>1. StepTyped'
      BY <1>1, StepTypedKept DEF Associate, Drop, RInv, Typed
    <3>. QED
      BY <1>1, <2>1, <3>1 DEF Associate, Drop, flash, pairing, session, awake, RInv, Typed,
         FlashTyped, PairingTyped, SessionTyped, AwakeTyped
  <2>3. link # "off" /\ pc # "off"
    BY <1>1 DEF Associate, Drop, RInv, LinkOwned
  <2>. QED
    BY <1>1, <2>2, <2>3 DEF Associate, Drop, flash, pairing, session, awake, RInv, Exclusive,
       Quiet, LinkOwned, Starting, BusyInSession
<1>2. CASE IdleTimesOut \/ \E t \in Timers : Tick(t)
  <2>1. /\ UNCHANGED <<flash, pairing, ble, wifi, session, busy, pc, job>>
        /\ idle' \in BOOLEAN /\ due' \subseteq Timers
    BY <1>2 DEF IdleTimesOut, Tick, awake, RInv, Typed, SessionTyped, AwakeTyped
  <2>2. Typed'
    <3>1. StepTyped'
      BY <2>1, StepTypedKept DEF RInv, Typed
    <3>. QED
      BY <2>1, <3>1 DEF flash, pairing, session, wifi, RInv, Typed, FlashTyped, PairingTyped,
         WifiTyped, SessionTyped, AwakeTyped
  <2>. QED
    BY <2>1, <2>2 DEF flash, pairing, session, wifi, RInv, Exclusive, Quiet, LinkOwned,
       Starting, BusyInSession
<1>. QED
  BY <1>1, <1>2

(* A phone's write names a network, so credentials that were ready stay so. *)
LEMMA PhoneStep ==
  ASSUME RInv, BleWrite \/ BleCommit
  PROVE  RInv'
<1>1. CASE BleWrite
  <2>1. PICK n \in Networks : Receive([live EXCEPT !.ssid = n]) \/ Receive([live EXCEPT !.pass = n])
    BY <1>1 DEF BleWrite
  <2>2. live \in Creds
    BY DEF RInv, Typed, PairingTyped
  <2>3. live' \in Creds /\ status' \in Statuses /\ (Ready(live) => Ready(live'))
    BY <2>1, <2>2, RadiosAssumption DEF Receive, Creds, Field, Statuses, Ready
  <2>4. UNCHANGED <<commit, joining, flash, ble, wifi, session, due, awake, pc, job>>
    BY <1>1 DEF BleWrite
  <2>5. Typed'
    <3>1. StepTyped'
      BY <2>4, StepTypedKept DEF RInv, Typed
    <3>. QED
      BY <2>3, <2>4, <3>1 DEF flash, session, wifi, awake, RInv, Typed, FlashTyped, PairingTyped,
         WifiTyped, SessionTyped, AwakeTyped
  <2>. QED
    BY <2>3, <2>4, <2>5 DEF flash, session, wifi, awake, RInv, Exclusive, Quiet, LinkOwned,
       Starting, BusyInSession
<1>2. CASE BleCommit
  <2>1. Typed'
    <3>1. StepTyped'
      BY <1>2, StepTypedKept DEF BleCommit, RInv, Typed
    <3>. QED
      BY <1>2, <3>1 DEF BleCommit, flash, session, wifi, awake, RInv, Typed, FlashTyped,
         PairingTyped, WifiTyped, SessionTyped, AwakeTyped
  <2>. QED
    BY <1>2, <2>1 DEF BleCommit, flash, session, wifi, awake, RInv, Exclusive, Quiet, LinkOwned,
       Starting, BusyInSession
<1>. QED
  BY <1>1, <1>2

-----------------------------------------------------------------------------
(* Saving and starting                                                     *)

(* The fields to save are two, then one, then none.                        *)
LEMMA PutFieldStep == ASSUME RInv, PutField PROVE RInv'
<1>1. /\ pc = "save" /\ job \in JobSet /\ job.then # "" /\ job.left # <<>>
      /\ nvs \in Creds /\ live \in Creds
  BY DEF PutField, RInv, Typed, StepTyped, FlashTyped, PairingTyped
<1>2. PICK ok \in BOOLEAN :
        /\ nvs' = IF ok THEN [nvs EXCEPT ![Head(job.left)] = live[Head(job.left)]] ELSE nvs
        /\ job' = [job EXCEPT !.left = Tail(@), !.ok = @ /\ ok]
  BY DEF PutField
<1>3. /\ Head(job.left) \in {"ssid", "pass"}
      /\ Tail(job.left) \in {<<>>, <<"pass">>, <<"ssid", "pass">>}
  <2>1. CASE job.left = <<"pass">>
    BY <2>1
  <2>2. CASE job.left = <<"ssid", "pass">>
    BY <2>2
  <2>. QED
    BY <1>1, <2>1, <2>2 DEF JobSet
<1>4. nvs' \in Creds
  BY <1>1, <1>2, <1>3 DEF Creds
<1>5. job' \in JobSet /\ job'.then = job.then
  BY <1>1, <1>2, <1>3 DEF JobSet
<1>6. UNCHANGED <<tableClock, wifiJson, pairing, ble, wifi, session, due, awake, pc>>
  BY DEF PutField
<1>7. Typed'
  <2>1. StepTyped'
    BY <1>1, <1>5, <1>6, Zenon DEF StepTyped
  <2>. QED
    BY <1>4, <1>6, <2>1 DEF pairing, session, wifi, awake, RInv, Typed, FlashTyped,
       PairingTyped, WifiTyped, SessionTyped, AwakeTyped
<1>. QED
  BY <1>1, <1>5, <1>6, <1>7 DEF pairing, session, wifi, awake, RInv, Exclusive, Quiet,
     LinkOwned, Starting, BusyInSession

(* poll() goes on after the save.                                          *)
LEMMA SaveReturnsStep == ASSUME RInv, SaveReturns PROVE RInv'
<1>1. Typed'
  BY DEF SaveReturns, flash, session, wifi, awake, RInv, Typed, FlashTyped, PairingTyped,
     WifiTyped, SessionTyped, AwakeTyped, StepTyped, Statuses
<1>. QED
  BY <1>1 DEF SaveReturns, flash, session, wifi, awake, RInv, Exclusive, Quiet, LinkOwned,
     Starting, BusyInSession

(* setup() has loaded the credentials, or asks for them.                   *)
LEMMA PairStep ==
  ASSUME RInv, Starting, NEW has \in BOOLEAN, Pair(has),
         FlashTyped', live' \in Creds, status' \in Statuses,
         UNCHANGED <<session, due>>,
         WifiTyped', link' # "off" => Ready(live')
  PROVE  RInv'
<1>1. /\ pc' = "setup" /\ job' = NoJob
      /\ ble' \in {ble, TRUE} /\ commit' \in {commit, FALSE} /\ joining' \in {joining, FALSE}
      /\ busy' \in {busy, TRUE} /\ idle' = idle
  BY DEF Pair, BleBegin, awake
<1>2. Typed'
  BY <1>1 DEF session, RInv, Typed, PairingTyped, SessionTyped, AwakeTyped, StepTyped
<1>3. transfer' = "off" /\ UNCHANGED <<transfer, http>>
  BY DEF RInv, Quiet, session
<1>. QED
  BY <1>1, <1>2, <1>3 DEF RInv, Exclusive, Quiet, LinkOwned, Starting, BusyInSession

(* setup() up to the credentials.                                          *)
LEMMA BootStep == ASSUME RInv, Boot PROVE RInv'
<1>1. /\ pc = "off" /\ Starting /\ link = "off" /\ Typed /\ Empty \in Creds
      /\ UNCHANGED <<tableClock, nvs, session, due>> /\ job = NoJob
      /\ transfer = "off" /\ http = FALSE
  BY DEF Boot, RInv, Starting, LinkOwned, Quiet, Exclusive, Empty, Creds, Field, Typed,
     StepTyped, SessionTyped
<1>2. CASE BootLoad
  <2>1. Pair(Ready(nvs)) /\ UNCHANGED wifi /\ live' \in Creds /\ status' \in Statuses /\ FlashTyped'
    BY <1>1, <1>2 DEF BootLoad, Typed, FlashTyped, Statuses
  <2>2. WifiTyped' /\ link' = "off"
    BY <1>1, <2>1 DEF wifi, Typed, WifiTyped
  <2>3. Ready(nvs) \in BOOLEAN
    BY DEF Ready
  <2>. QED
    BY <1>1, <2>1, <2>2, <2>3, PairStep
<1>3. CASE BootBypass
  <2>1. wifiJson \in Creds /\ wifiJson # None /\ FlashTyped'
    BY <1>1, <1>3 DEF BootBypass, Typed, FlashTyped
  <2>2. CASE Right(wifiJson)
             /\ link' = "up" /\ air' = wifiJson
             /\ live' = wifiJson /\ status' = "provisioned"
             /\ Save("setup", Ready(nvs))
             /\ UNCHANGED <<drops, ble, commit, joining, awake>>
    <3>1. pc' = "save" /\ job' \in JobSet /\ job'.then = "setup"
      BY <2>2 DEF Save, JobSet, Ready
    <3>2. Ready(live')
      BY <2>2, RadiosAssumption DEF Right, Ready
    <3>3. Typed'
      BY <1>1, <2>1, <2>2, <3>1 DEF session, awake, Typed, PairingTyped, WifiTyped, SessionTyped,
         AwakeTyped, StepTyped, Statuses
    <3>. QED
      BY <1>1, <2>2, <3>1, <3>2, <3>3 DEF session, awake, RInv, Exclusive, Quiet, LinkOwned,
         Starting, BusyInSession
  <2>3. CASE WifiOff
             /\ live' = (IF Ready(nvs) THEN nvs ELSE wifiJson)
             /\ status' = (IF Ready(nvs) THEN "ready" ELSE "failed")
             /\ Pair(Ready(nvs))
    <3>1. WifiTyped' /\ link' = "off" /\ live' \in Creds /\ status' \in Statuses
      BY <1>1, <2>1, <2>3 DEF WifiOff, Typed, WifiTyped, FlashTyped, Statuses
    <3>2. Ready(nvs) \in BOOLEAN
      BY DEF Ready
    <3>. QED
      BY <1>1, <2>1, <2>3, <3>1, <3>2, PairStep
  <2>. QED
    BY <1>3, <2>2, <2>3 DEF BootBypass
<1>4. CASE BootNoCard
  <2>1. Typed'
    BY <1>1, <1>4 DEF BootNoCard, session, wifi, awake, Typed, FlashTyped, PairingTyped,
       WifiTyped, SessionTyped, AwakeTyped, StepTyped
  <2>. QED
    BY <1>1, <1>4, <2>1 DEF BootNoCard, session, wifi, awake, RInv, Exclusive, Quiet, LinkOwned,
       Starting, BusyInSession
<1>. QED
  BY <1>2, <1>3, <1>4 DEF Boot

(* setup() goes on after the save.                                         *)
LEMMA BootSavedStep == ASSUME RInv, BootSaved PROVE RInv'
<1>1. Starting /\ Pair(job.ok \/ job.had) /\ UNCHANGED <<flash, live, status, wifi, session, due>>
  BY DEF BootSaved, Starting
<1>2. FlashTyped' /\ live' \in Creds /\ status' \in Statuses /\ WifiTyped'
  BY <1>1 DEF flash, wifi, RInv, Typed, FlashTyped, PairingTyped, WifiTyped
<1>3. link' # "off" => Ready(live')
  BY <1>1 DEF wifi, RInv, LinkOwned, Ready
<1>4. (job.ok \/ job.had) \in BOOLEAN
  OBVIOUS
<1>. QED
  BY <1>1, <1>2, <1>3, <1>4, PairStep

(* setup() ends: the first session of a table clock is busy.               *)
LEMMA SetupEndsStep == ASSUME RInv, SetupEnds PROVE RInv'
<1>1. /\ pc = "setup" /\ pc' = "events" /\ idle' = FALSE /\ job = NoJob
      /\ transfer = "off" /\ http = FALSE /\ Typed
      /\ UNCHANGED <<flash, pairing, ble, job>>
  BY DEF SetupEnds, RInv, Typed, StepTyped, Quiet, Starting, Exclusive, SessionTyped
<1>2. CASE tableClock /\ Ready(live) /\ ~ ble
  <2>1. /\ link' = "joining" /\ air' = live /\ drops' = drops
        /\ transfer' = "connecting" /\ due' = due \ {"join"} /\ busy' = TRUE
        /\ UNCHANGED <<http, wanted, lost>>
    BY <1>2 DEF SetupEnds, WifiBegin
  <2>2. Typed'
    BY <1>1, <2>1 DEF flash, pairing, Typed, FlashTyped, PairingTyped, WifiTyped, SessionTyped,
       AwakeTyped, StepTyped
  <2>. QED
    BY <1>1, <1>2, <2>1, <2>2 DEF RInv, Exclusive, Quiet, LinkOwned, Starting, BusyInSession
<1>3. CASE ~ (tableClock /\ Ready(live) /\ ~ ble)
  <2>1. busy' = FALSE /\ UNCHANGED <<wifi, session, due>>
    BY <1>3 DEF SetupEnds
  <2>2. Typed'
    BY <1>1, <2>1 DEF flash, pairing, wifi, session, Typed, FlashTyped, PairingTyped, WifiTyped,
       SessionTyped, AwakeTyped, StepTyped
  <2>. QED
    BY <1>1, <1>3, <2>1, <2>2 DEF flash, pairing, wifi, session, RInv, Exclusive, Quiet,
       LinkOwned, Starting, BusyInSession
<1>. QED
  BY <1>2, <1>3


-----------------------------------------------------------------------------
(* loop(), where no session begins or ends                                 *)

(* No event, the end of the HTTP poll, and no sleep.                       *)
LEMMA QuietStep ==
  ASSUME RInv, pc \in {"events", "http", "sleep"}, pc' \in {"ble", "sleep", "events"},
         UNCHANGED <<flash, pairing, ble, wifi, session, due, awake, job>>
  PROVE  RInv'
<1>1. job' = NoJob
  BY DEF RInv, Typed, StepTyped
<1>2. StepTyped'
  BY <1>1, StepTypedBetween
<1>3. Typed'
  BY <1>2 DEF flash, pairing, wifi, session, awake, RInv, Typed, FlashTyped, PairingTyped,
     WifiTyped, SessionTyped, AwakeTyped
<1>4. ~ Starting /\ ~ Starting' /\ pc' # "off"
  BY DEF Starting
<1>. QED
  BY <1>3, <1>4 DEF flash, pairing, wifi, session, awake, RInv, Exclusive, Quiet, LinkOwned,
     BusyInSession

(* poll() takes a commit: the Wi-Fi it turns on is the pairing's.          *)
LEMMA CommitBeginsStep == ASSUME RInv, CommitBegins PROVE RInv'
<1>1. /\ pc = "ble" /\ pc' = "ble" /\ job' = NoJob /\ ble /\ transfer = "off"
      /\ UNCHANGED <<tableClock, wifiJson, nvs, live, ble, session, awake>>
      /\ live \in Creds
  BY DEF CommitBegins, At, RInv, Typed, StepTyped, Exclusive, PairingTyped
<1>2. StepTyped'
  BY <1>1, StepTypedBetween
<1>3. PairingTyped' /\ WifiTyped' /\ due' \subseteq Timers
  BY <1>1 DEF CommitBegins, WifiBegin, wifi, RInv, Typed, PairingTyped, WifiTyped, SessionTyped,
     Statuses
<1>4. Typed'
  BY <1>1, <1>2, <1>3 DEF session, awake, RInv, Typed, FlashTyped, SessionTyped, AwakeTyped
<1>5. ~ Starting /\ ~ Starting' /\ pc' # "off"
  BY <1>1 DEF Starting
<1>. QED
  BY <1>1, <1>4, <1>5 DEF session, awake, RInv, Exclusive, Quiet, LinkOwned, BusyInSession

(* poll() waits, saves what has worked, or gives up.                       *)
LEMMA BlePollStep == ASSUME RInv, BlePoll PROVE RInv'
<1>1. /\ pc = "ble" /\ job = NoJob /\ Typed
      /\ UNCHANGED <<flash, ble, session, due, awake>>
      /\ live' = live /\ commit' = commit /\ drops' = drops /\ air' = air
      /\ link' \in {link, "off"}
  BY DEF BlePoll, RInv, Typed, StepTyped, pairing, wifi, WifiOff
<1>2. joining' \in {joining, FALSE} /\ status' \in {status, "provisioned", "failed"}
  BY DEF BlePoll, pairing
<1>3. \/ pc' = "check" /\ job' = NoJob
      \/ pc' = "save" /\ job' \in JobSet /\ job'.then = "check"
  <2>1. CASE pc' = "check" /\ job' = job
    BY <1>1, <2>1
  <2>2. CASE Save("check", FALSE)
    BY <2>2 DEF Save, JobSet
  <2>. QED
    BY <2>1, <2>2 DEF BlePoll
<1>4. StepTyped'
  <2>1. CASE pc' = "check" /\ job' = NoJob
    BY <2>1, StepTypedBetween
  <2>2. CASE pc' = "save" /\ job' \in JobSet /\ job'.then = "check"
    <3>1. job'.then # ""
      BY <2>2
    <3>. QED
      BY <2>2, <3>1 DEF StepTyped
  <2>. QED
    BY <1>3, <2>1, <2>2
<1>5. Typed'
  <2>1. joining' \in BOOLEAN /\ status' \in Statuses
    BY <1>1, <1>2 DEF Typed, PairingTyped, Statuses
  <2>2. PairingTyped' /\ WifiTyped'
    BY <1>1, <2>1 DEF Typed, PairingTyped, WifiTyped
  <2>. QED
    BY <1>1, <1>4, <2>2 DEF flash, session, awake, Typed, FlashTyped, SessionTyped, AwakeTyped
<1>6. ~ Starting /\ ~ Starting' /\ pc' # "off"
  BY <1>1, <1>3 DEF Starting
<1>. QED
  BY <1>1, <1>5, <1>6 DEF flash, session, awake, RInv, Exclusive, Quiet, LinkOwned, BusyInSession

(* Pairing has worked: BLE and its Wi-Fi go off together.                  *)
LEMMA CheckOutcomeStep == ASSUME RInv, CheckProvisioningOutcome PROVE RInv'
<1>1. /\ pc = "check" /\ pc' = "poll" /\ job' = NoJob /\ Typed
      /\ UNCHANGED <<tableClock, wifiJson, nvs, pairing, transfer, http, lost>>
  BY DEF CheckProvisioningOutcome, At, RInv, Typed, StepTyped
<1>2. StepTyped'
  BY <1>1, StepTypedBetween
<1>3. /\ due' \subseteq Timers /\ wanted' \in {wanted, TRUE}
      /\ \/ UNCHANGED <<ble, wifi, awake>>
         \/ /\ ble /\ ble' = FALSE /\ WifiOff /\ idle' = FALSE /\ busy' = FALSE
  BY <1>1 DEF CheckProvisioningOutcome, Typed, SessionTyped, Timers
<1>4. Typed'
  <2>1. wanted' \in BOOLEAN
    BY <1>1, <1>3 DEF Typed, SessionTyped
  <2>2. FlashTyped' /\ PairingTyped' /\ SessionTyped'
    BY <1>1, <1>3, <2>1 DEF pairing, Typed, FlashTyped, PairingTyped, SessionTyped
  <2>3. ble' \in BOOLEAN /\ WifiTyped' /\ AwakeTyped'
    BY <1>1, <1>3 DEF wifi, awake, WifiOff, Typed, PairingTyped, WifiTyped, AwakeTyped
  <2>. QED
    BY <1>2, <2>2, <2>3 DEF Typed
<1>5. ~ Starting /\ ~ Starting' /\ pc' # "off"
  BY <1>1 DEF Starting
<1>. QED
  BY <1>1, <1>3, <1>4, <1>5 DEF wifi, awake, WifiOff, RInv, Exclusive, Quiet, LinkOwned,
     BusyInSession

-----------------------------------------------------------------------------
(* loop(), where a session begins or ends                                  *)

(* What a session may do outside pairing keeps the invariant.              *)
LEMMA SessionStep ==
  ASSUME RInv, pc \in {"events", "poll"}, pc' \in {"ble", "http"}, job' = job,
         UNCHANGED <<tableClock, wifiJson, nvs, pairing, ble>>,
         \/ UNCHANGED <<wifi, session, due, awake>>
         \/ ~ ble /\ transfer = "off" /\ GoOnline
         \/ transfer # "off" /\ wanted' \in BOOLEAN /\ EndTransferMode
         \/ /\ transfer # "off" /\ transfer' = "on" /\ http' = TRUE /\ wanted' = wanted
            /\ lost' \in BOOLEAN /\ due' \subseteq due /\ UNCHANGED <<wifi, awake>>
  PROVE  RInv'
<1>1. job' = NoJob /\ Typed /\ live \in Creds
  BY DEF RInv, Typed, StepTyped, PairingTyped
<1>2. StepTyped'
  BY <1>1, StepTypedBetween
<1>3. FlashTyped' /\ PairingTyped'
  BY <1>1 DEF pairing, Typed, FlashTyped, PairingTyped
<1>4. ~ Starting /\ ~ Starting' /\ pc' # "off"
  BY DEF Starting
<1>5. CASE UNCHANGED <<wifi, session, due, awake>>
  <2>1. Typed'
    BY <1>1, <1>2, <1>3, <1>5 DEF wifi, session, awake, Typed, WifiTyped, SessionTyped, AwakeTyped
  <2>. QED
    BY <1>4, <1>5, <2>1 DEF wifi, session, awake, RInv, Exclusive, Quiet, LinkOwned, BusyInSession
<1>6. CASE ~ ble /\ transfer = "off" /\ GoOnline
  <2>1. Typed'
    BY <1>1, <1>2, <1>3, <1>6 DEF GoOnline, WifiBegin, awake, Typed, WifiTyped, SessionTyped,
       AwakeTyped
  <2>. QED
    BY <1>4, <1>6, <2>1 DEF GoOnline, WifiBegin, awake, RInv, Exclusive, Quiet, LinkOwned,
       BusyInSession
<1>7. CASE transfer # "off" /\ wanted' \in BOOLEAN /\ EndTransferMode
  <2>1. Typed'
    BY <1>1, <1>2, <1>3, <1>7 DEF EndTransferMode, WifiOff, Typed, WifiTyped, SessionTyped,
       AwakeTyped
  <2>. QED
    BY <1>4, <1>7, <2>1 DEF EndTransferMode, WifiOff, RInv, Exclusive, Quiet, LinkOwned,
       BusyInSession
<1>8. CASE /\ transfer # "off" /\ transfer' = "on" /\ http' = TRUE /\ wanted' = wanted
           /\ lost' \in BOOLEAN /\ due' \subseteq due /\ UNCHANGED <<wifi, awake>>
  <2>1. Typed'
    BY <1>1, <1>2, <1>3, <1>8 DEF wifi, awake, Typed, WifiTyped, SessionTyped, AwakeTyped
  <2>. QED
    BY <1>4, <1>8, <2>1 DEF wifi, awake, RInv, Exclusive, Quiet, LinkOwned, BusyInSession
<1>. QED
  BY <1>5, <1>6, <1>7, <1>8

(* The owner starts or ends a session.                                     *)
LEMMA PressHeldStep == ASSUME RInv, PressHeld PROVE RInv'
<1>1. /\ pc = "events" /\ pc' = "ble" /\ job' = job
      /\ UNCHANGED <<tableClock, wifiJson, nvs, pairing, ble>>
      /\ ToggleTransferMode
  BY DEF PressHeld, At
<1>2. \/ UNCHANGED <<wifi, session, due, awake>>
      \/ ~ ble /\ transfer = "off" /\ GoOnline
      \/ transfer # "off" /\ wanted' \in BOOLEAN /\ EndTransferMode
  BY <1>1 DEF ToggleTransferMode
<1>. QED
  BY <1>1, <1>2, SessionStep

(* The session goes on, ends, or begins by itself on a table clock.        *)
LEMMA PollTransferModeStep == ASSUME RInv, PollTransferMode PROVE RInv'
<1>1. /\ pc = "poll" /\ pc' = "http" /\ job' = job
      /\ UNCHANGED <<tableClock, wifiJson, nvs, pairing, ble>>
      /\ PollOff \/ PollConnecting \/ PollOn
      /\ wanted \in BOOLEAN /\ (transfer = "on" => http = TRUE)
  BY DEF PollTransferMode, At, RInv, Typed, SessionTyped, Exclusive
<1>2. CASE PollOff
  <2>1. \/ UNCHANGED <<wifi, session, due, awake>>
        \/ ~ ble /\ transfer = "off" /\ GoOnline
    BY <1>2 DEF PollOff
  <2>. QED
    BY <1>1, <2>1, SessionStep
<1>3. CASE PollConnecting
  <2>1. \/ UNCHANGED <<wifi, session, due, awake>>
        \/ transfer # "off" /\ wanted' \in BOOLEAN /\ EndTransferMode
        \/ /\ transfer # "off" /\ transfer' = "on" /\ http' = TRUE /\ wanted' = wanted
           /\ lost' \in BOOLEAN /\ due' \subseteq due /\ UNCHANGED <<wifi, awake>>
    BY <1>1, <1>3 DEF PollConnecting
  <2>. QED
    BY <1>1, <2>1, SessionStep
<1>4. CASE PollOn
  <2>1. \/ transfer # "off" /\ wanted' \in BOOLEAN /\ EndTransferMode
        \/ /\ transfer # "off" /\ transfer' = "on" /\ http' = TRUE /\ wanted' = wanted
           /\ lost' \in BOOLEAN /\ due' \subseteq due /\ UNCHANGED <<wifi, awake>>
    BY <1>1, <1>4 DEF PollOn
  <2>. QED
    BY <1>1, <2>1, SessionStep
<1>. QED
  BY <1>1, <1>2, <1>3, <1>4

(* The credentials are forgotten and asked for again.                      *)
LEMMA FactoryResetStep == ASSUME RInv, FactoryReset PROVE RInv'
<1>1. /\ pc = "events" /\ pc' = "ble" /\ job' = NoJob /\ Typed /\ Empty \in Creds
      /\ UNCHANGED <<tableClock, wifiJson>>
      /\ transfer' = "off" /\ http' = FALSE /\ lost' = FALSE /\ wanted' = FALSE
      /\ live' = Empty /\ status' = "idle" /\ ble' = TRUE /\ commit' = FALSE
      /\ joining' = FALSE /\ idle' = FALSE /\ busy' = TRUE
  BY DEF FactoryReset, At, BleBegin, RInv, Typed, StepTyped, Empty, Creds, Field
<1>2. StepTyped'
  BY <1>1, StepTypedBetween
<1>3. nvs' \in {nvs, Empty} /\ due' \subseteq due /\ link' \in {link, "off"} /\ UNCHANGED <<air, drops>>
  BY DEF FactoryReset, WifiOff, wifi
<1>4. Typed'
  BY <1>1, <1>2, <1>3 DEF Typed, FlashTyped, PairingTyped, WifiTyped, SessionTyped, AwakeTyped,
     Statuses
<1>5. ~ Starting /\ ~ Starting' /\ pc' # "off"
  BY <1>1 DEF Starting
<1>. QED
  BY <1>1, <1>4, <1>5 DEF RInv, Exclusive, Quiet, LinkOwned, BusyInSession

(* EXIT ends a session, or the day.                                        *)
LEMMA ExitPressedStep == ASSUME RInv, ExitPressed PROVE RInv'
<1>1. CASE /\ pc = "events" /\ pc' = "ble" /\ transfer # "off" /\ EndTransferMode
           /\ UNCHANGED <<flash, pairing, ble, wanted, job>>
  <2>1. wanted' \in BOOLEAN /\ UNCHANGED <<tableClock, wifiJson, nvs>>
    BY <1>1 DEF flash, RInv, Typed, SessionTyped
  <2>. QED
    BY <1>1, <2>1, SessionStep
<1>2. CASE TurnedOff /\ UNCHANGED <<nvs, wifiJson>>
  BY <1>2, TurnedOffStep
<1>. QED
  BY <1>1, <1>2 DEF ExitPressed

(* The owner puts the bypass file on the card.                             *)
LEMMA PutWifiJsonStep == ASSUME RInv, PutWifiJson PROVE RInv'
<1>1. wifiJson' \in Creds /\ UNCHANGED <<tableClock, nvs, pairing, ble, wifi, session, due, awake, pc, job>>
  BY DEF PutWifiJson, Creds, Field
<1>2. StepTyped'
  BY <1>1, StepTypedKept DEF RInv, Typed
<1>3. Typed'
  BY <1>1, <1>2 DEF pairing, wifi, session, awake, RInv, Typed, FlashTyped, PairingTyped,
     WifiTyped, SessionTyped, AwakeTyped
<1>. QED
  BY <1>1, <1>3 DEF pairing, wifi, session, awake, RInv, Exclusive, Quiet, LinkOwned, Starting,
     BusyInSession

-----------------------------------------------------------------------------
(* The theorems                                                            *)

(* Every step keeps the invariant.                                         *)
LEMMA NextRInv == ASSUME RInv, [Next]_vars PROVE RInv'
<1>1. CASE BleWrite \/ BleCommit
  BY <1>1, PhoneStep
<1>2. CASE Associate \/ Drop \/ IdleTimesOut \/ \E t \in Timers : Tick(t)
  BY <1>2, DriverStep
<1>3. CASE NoEvent
  <2>1. /\ pc = "events" /\ pc' = "ble"
        /\ UNCHANGED <<flash, pairing, ble, wifi, session, due, awake, job>>
    BY <1>3 DEF NoEvent, At, flash
  <2>. QED
    BY <2>1, QuietStep
<1>4. CASE HttpPoll
  <2>1. CASE TurnedOff /\ UNCHANGED <<nvs, wifiJson>>
    BY <2>1, TurnedOffStep
  <2>2. CASE /\ pc = "http" /\ pc' = "sleep"
             /\ UNCHANGED <<flash, pairing, ble, wifi, session, due, awake, job>>
    BY <2>2, QuietStep
  <2>. QED
    BY <1>4, <2>1, <2>2 DEF HttpPoll, flash
<1>5. CASE SleepCheck
  <2>1. CASE TurnedOff /\ UNCHANGED <<nvs, wifiJson>>
    BY <2>1, TurnedOffStep
  <2>2. CASE /\ pc = "sleep" /\ pc' = "events"
             /\ UNCHANGED <<flash, pairing, ble, wifi, session, due, awake, job>>
    BY <2>2, QuietStep
  <2>. QED
    BY <1>5, <2>1, <2>2 DEF SleepCheck, flash
<1>6. CASE CommitBegins \/ BlePoll \/ CheckProvisioningOutcome \/ PollTransferMode
  BY <1>6, CommitBeginsStep, BlePollStep, CheckOutcomeStep, PollTransferModeStep
<1>7. CASE PutField \/ SaveReturns \/ Boot \/ BootSaved \/ SetupEnds
  BY <1>7, PutFieldStep, SaveReturnsStep, BootStep, BootSavedStep, SetupEndsStep
<1>8. CASE PressHeld \/ FactoryReset \/ ExitPressed \/ PutWifiJson
  BY <1>8, PressHeldStep, FactoryResetStep, ExitPressedStep, PutWifiJsonStep
<1>9. CASE PowerLoss
  BY <1>9, TurnedOffStep DEF PowerLoss
<1>10. CASE UNCHANGED vars
  <2>1. StepTyped'
    BY <1>10, StepTypedKept DEF vars, RInv, Typed
  <2>2. Typed'
    BY <1>10, <2>1 DEF vars, flash, pairing, wifi, session, awake, RInv, Typed, FlashTyped,
       PairingTyped, WifiTyped, SessionTyped, AwakeTyped
  <2>. QED
    BY <1>10, <2>2 DEF vars, flash, pairing, wifi, session, awake, RInv, Exclusive, Quiet,
       LinkOwned, Starting, BusyInSession
<1>. QED
  BY <1>1, <1>2, <1>3, <1>4, <1>5, <1>6, <1>7, <1>8, <1>9, <1>10 DEF Next, Loop, User

(* The inductive invariant, for all networks, builds, drops and faults.    *)
THEOREM RadiosInvariance == Spec => []RInv
  BY InitRInv, NextRInv, PTL DEF Spec

(* The variables keep their types.                                         *)
THEOREM RadiosTyped == Spec => []TypeOK
<1>1. RInv => TypeOK
  BY TypedIsTypeOK DEF RInv
<1>. QED
  BY <1>1, RadiosInvariance, PTL

(* Pairing and sessions exclude each other, the server runs just in a      *)
(* session, and the Wi-Fi of a table clock is on for one of the two only.  *)
THEOREM RadiosAlwaysShared == Spec => []RadiosShared
<1>1. RInv => RadiosShared
  BY DEF RInv, Exclusive, LinkOwned, Starting, RadiosShared
<1>. QED
  BY <1>1, RadiosInvariance, PTL

(* Idle sleep never ends a session.                                        *)
THEOREM SleepAlwaysSpares == Spec => SleepSparesSession
<1>1. ASSUME RInv, [Next]_vars
      PROVE  [SleepCheck /\ pc' = "off" => transfer = "off"]_vars
  <2>1. SUFFICES ASSUME SleepCheck, pc' = "off" PROVE transfer = "off"
    OBVIOUS
  <2>2. ~ busy
    BY <2>1 DEF SleepCheck, GoToSleep
  <2>. QED
    BY <1>1, <2>2 DEF RInv, BusyInSession
<1>. QED
  BY <1>1, RadiosInvariance, PTL DEF Spec, SleepSparesSession
=============================================================================
