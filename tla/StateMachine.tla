----------------------------- MODULE StateMachine -----------------------------
(***************************************************************************)
(* The main task: main of main.rs with its loop, StateMachine::execute, and *)
(* the Boot, WifiConnect and Playback states.  The machine is behind a mutex   *)
(* of the futures crate, which run_state_machine holds for a whole         *)
(* execute; an execute takes the one ConcreteState out of the machine and  *)
(* puts its successor back.                                                *)
(*                                                                         *)
(* What main takes, the start of the Wi-Fi and the bring-up of Playback    *)
(* (sd_card::init, pre_init, the init of ESP32Bluetooth and of ESP32A2DP)  *)
(* are lists of driver calls, any of which may fail; a failure is a panic  *)
(* here, and a panic aborts the firmware.  The search, the connection and the playback have modules of  *)
(* their own (Discovery, A2dpConnect, A2dpPlay): here they end one way     *)
(* or the other.                                                           *)
(***************************************************************************)
EXTENDS Esp32, Sequences

VARIABLES machine_lock,  \* who holds the mutex of the machine
          state,         \* machine.state
          current,       \* the ConcreteState that is executing
          main,          \* where the main task is
          modem,         \* is machine.modem (and machine.eventloop) Some
          made,          \* how many of a list of calls were made
          panic          \* what aborted the firmware

vars == <<nvs, machine_lock, state, current, main, modem, made, panic>>

machine == <<machine_lock, state, current>>

States == {"boot", "wifi_connect", "playback"}

\* What main takes, and what WifiConnect calls.
MainTakes == <<"peripherals", "sys_loop", "nvs">>
WifiStart == <<"new", "set_configuration", "start", "connect">>

\* The calls of sd_card::init, of the init of ESP32Bluetooth (with both modes
\* in use no memory is released) and of the init of ESP32A2DP.
SdCardInit == <<"spi_bus_initialize", "sdspi_mount">>
BluetoothInit ==
    <<"controller_init", "controller_enable", "bluedroid_init", "bluedroid_enable",
      "set_device_name", "gap_register_callback", "set_scan_mode">>
A2dpInit == <<"source_init", "register_callback", "register_data_callback">>

\* What Playback brings up, in order, with pre_init's nvs_init.
BringUp == SdCardInit \o <<"nvs_init">> \o BluetoothInit \o A2dpInit

MainStates == {"booting", "starting", "locking", "taking", "boot", "wifi_new", "wifi_start",
               "wifi_poll", "bring_up", "search", "connect", "play", "deinit",
               "relocking", "waiting"}
Panics == {"none", "boot", "state", "modem", "wifi", "bring_up", "search",
           "connect", "play", "deinit"}

Running == panic = "none"

\* May the main task take the mutex a second time, and a mutant: a mutex that
\* lets its holder in.
Reentrant == TRUE
MachineFree == machine_lock = "free"

\* machine.state when its value was taken, and a mutant: the value is copied.
CopiedState == state
TakenState == "none"

-----------------------------------------------------------------------------
Init == /\ InitNvs
        /\ machine_lock = "free"
        /\ state = "none"
        /\ current = "none"
        /\ main = "booting"
        /\ modem = TRUE
        /\ made = 0
        /\ panic = "none"

Goto(here, there) == /\ Running
                     /\ main = here
                     /\ main' = there

Abort(here, why) == /\ Running
                    /\ main = here
                    /\ panic' = why
                    /\ UNCHANGED <<nvs, machine, main, modem, made>>

\* The execution of a state ends with its successor, which execute puts into
\* the machine; run_state_machine returns and its guard is dropped.  A mutant
\* keeps the guard.
ReturnLocked(here, next) == /\ Goto(here, "locking")
                            /\ state' = next
                            /\ current' = "none"
                            /\ UNCHANGED machine_lock
Return(here, next) == /\ Goto(here, "locking")
                      /\ state' = next
                      /\ current' = "none"
                      /\ machine_lock' = "free"

\* One more of a list of calls succeeds; the last leads on.
NextCall(here, calls, there) ==
    /\ Goto(here, IF made + 1 = Len(calls) THEN there ELSE here)
    /\ made' = made + 1

-----------------------------------------------------------------------------
(* main, run_state_machine and StateMachine::execute.                      *)

\* main takes the peripherals, the event loop and the default NVS partition, for
\* StateMachine::new.  The partition opens the flash, and would close it if it
\* was dropped, which the machine never does; each failure is unwrapped.
TakePeripherals ==
    /\ Running
    /\ main = "booting"
    /\ \/ /\ NextCall("booting", MainTakes, "starting")
          /\ IF MainTakes[made + 1] = "nvs" THEN FlashInitOk ELSE UNCHANGED <<flash, opened>>
          /\ UNCHANGED panic
       \/ /\ \/ MainTakes[made + 1] = "nvs" /\ FlashInitErr
             \/ UNCHANGED <<flash, opened>>
          /\ panic' = "boot"
          /\ UNCHANGED <<main, made>>
    /\ UNCHANGED <<nvs_initialized_count, machine, modem>>

\* ConcreteState::<Boot>::new, under a lock of its own.
NewBoot == /\ Goto("starting", "locking")
           /\ MachineFree
           /\ state' = "boot"
           /\ UNCHANGED <<nvs, machine_lock, current, modem, made, panic>>

\* run_state_machine: machine.lock().await
LockMachine == /\ Goto("locking", "taking")
               /\ MachineFree
               /\ machine_lock' = "main"
               /\ UNCHANGED <<nvs, state, current, modem, made, panic>>

\* execute: the state is taken out of the machine, unwrapped and executed.
TakeState ==
    /\ Running
    /\ main = "taking"
    /\ IF state = "none"
       THEN panic' = "state" /\ UNCHANGED <<state, current, main, made>>
       ELSE /\ current' = state
            /\ state' = TakenState
            /\ main' = CASE state = "boot" -> "boot"
                         [] state = "wifi_connect" -> "wifi_new"
                         [] state = "playback" -> "bring_up"
            /\ made' = 0
            /\ UNCHANGED panic
    /\ UNCHANGED <<nvs, machine_lock, modem>>

-----------------------------------------------------------------------------
(* The states.                                                             *)

ExecuteBoot == /\ Return("boot", "wifi_connect")
               /\ UNCHANGED <<nvs, modem, made, panic>>

\* WifiConnect takes the modem and the event loop out of the machine.
TakeModem == /\ Running
             /\ main = "wifi_new"
             /\ IF modem
                THEN modem' = FALSE /\ main' = "wifi_start" /\ UNCHANGED panic
                ELSE panic' = "modem" /\ UNCHANGED <<modem, main>>
             /\ UNCHANGED <<nvs, machine, made>>

\* WifiDriver::new, set_configuration, start and connect.
StartWifi == \/ /\ NextCall("wifi_start", WifiStart, "wifi_poll")
                /\ UNCHANGED <<nvs, machine, modem, panic>>
             \/ Abort("wifi_start", "wifi")

\* is_connected: not yet, an error, or at last.
PollWifi == \/ /\ Goto("wifi_poll", "wifi_poll")
               /\ UNCHANGED <<nvs, machine, modem, made, panic>>
            \/ Abort("wifi_poll", "wifi")

WifiConnected == /\ Return("wifi_poll", "playback")
                 /\ UNCHANGED <<nvs, modem, made, panic>>

\* The next call of the bring-up succeeds; after the last the search starts.
BringUpOk ==
    /\ NextCall("bring_up", BringUp, "search")
    /\ IF BringUp[made + 1] = "nvs_init" THEN NvsInitOk ELSE UNCHANGED nvs
    /\ UNCHANGED <<machine, modem, panic>>

\* It fails, and its result is unwrapped.
BringUpErr ==
    /\ Running
    /\ main = "bring_up"
    /\ panic' = "bring_up"
    /\ IF BringUp[made + 1] = "nvs_init" THEN NvsInitErr ELSE UNCHANGED nvs
    /\ UNCHANGED <<machine, main, modem, made>>

\* The search of Discovery: a device, none, or a panic.
Search == \/ /\ Running
             /\ main = "search"
             /\ main' \in {"connect", "deinit"}
             /\ UNCHANGED <<nvs, machine, modem, made, panic>>
          \/ Abort("search", "search")

\* a2dp_connect, whose error is a panic.
Connect == \/ /\ Goto("connect", "play")
              /\ UNCHANGED <<nvs, machine, modem, made, panic>>
           \/ Abort("connect", "connect")

\* playback_task returns as soon as the media was started; its error is a panic.
Play == \/ /\ Goto("play", "deinit")
           /\ UNCHANGED <<nvs, machine, modem, made, panic>>
        \/ Abort("play", "play")

\* bluetooth.deinit does nothing.
Deinit == /\ Goto("deinit", "relocking")
          /\ UNCHANGED <<nvs, machine, modem, made, panic>>

\* self.machine.lock().await: a holder that asks again waits for itself, and
\* nothing it has yet to do lets it go on.  Otherwise post_deinit, whose error
\* is a panic, and Boot.
RelockMachine ==
    IF MachineFree
    THEN \/ /\ Return("relocking", "boot")
            /\ NvsDeinitOk
            /\ UNCHANGED <<modem, made, panic>>
         \/ /\ Running /\ main = "relocking" /\ panic' = "deinit"
            /\ NvsDeinitErr
            /\ UNCHANGED <<machine, main, modem, made>>
    ELSE /\ Goto("relocking", "waiting")
         /\ UNCHANGED <<nvs, machine, modem, made, panic>>

-----------------------------------------------------------------------------
Next == \/ TakePeripherals
        \/ NewBoot
        \/ LockMachine
        \/ TakeState
        \/ ExecuteBoot
        \/ TakeModem
        \/ StartWifi
        \/ PollWifi
        \/ WifiConnected
        \/ BringUpOk
        \/ BringUpErr
        \/ Search
        \/ Connect
        \/ Play
        \/ Deinit
        \/ RelockMachine

Spec == Init /\ [][Next]_vars

\* The main task runs; the network need not be reached.
FairSpec == Spec /\ WF_vars(main # "wifi_poll" /\ Next)
-----------------------------------------------------------------------------
TypeOK == /\ NvsTypeOK
          /\ machine_lock \in {"free", "main"}
          /\ state \in States \cup {"none"}
          /\ current \in States \cup {"none"}
          /\ main \in MainStates
          /\ modem \in BOOLEAN
          /\ made \in 0..Len(BringUp)
          /\ panic \in Panics

\* Where the one ConcreteState is: in the machine while the mutex is free,
\* and with the main task, which holds the mutex, while it executes.
WhereTheStateIs ==
    /\ state = "none" \/ current = "none"
    /\ main \notin {"booting", "starting"} => state # "none" \/ current # "none"
    /\ current # "none" => machine_lock = "main"

\* "there is only ever one ConcreteState in existence", as state_machine.rs
\* begins, and it is always somewhere.
OneState == TypeOK /\ WhereTheStateIs

\* Neither the unwrap of machine.state nor that of the modem ever fails: every
\* execute leaves a state behind, and WifiConnect is executed only once.
UnwrapsHold == panic \notin {"state", "modem"}

\* The flash is open as long as the machine holds the partition that main took,
\* though nvs_init and nvs_deinit count users without it and close the flash
\* after the last: Bluetooth, which requires it, always finds it open.
PartitionStaysOpen == main # "booting" => opened

\* The strengthening that makes the three inductive: what the main task holds
\* wherever it is, and that the modem is there until WifiConnect has taken it, and
\* that the list of calls is not at its end.
Executing == [boot |-> {"boot"},
              wifi_connect |-> {"wifi_new", "wifi_start", "wifi_poll"},
              playback |-> {"bring_up", "search", "connect", "play", "deinit",
                            "relocking", "waiting"}]

Holding ==
    /\ main \in {"booting", "starting", "locking"} =>
          machine_lock = "free" /\ current = "none"
    /\ main = "taking" => machine_lock = "main" /\ current = "none"
    /\ main \in {"booting", "starting"} => state = "none"
    /\ main \in {"locking", "taking"} => state # "none"
    /\ \A s \in States :
          main \in Executing[s] => machine_lock = "main" /\ current = s /\ state = "none"

ModemUntilTaken ==
    main = "wifi_new" \/ state \in {"boot", "wifi_connect"} \/ current = "boot"
       \/ main \in {"booting", "starting"} => modem

MoreToCall == /\ main = "booting" => made < Len(MainTakes)
              /\ main = "wifi_start" => made < Len(WifiStart)
              /\ main = "bring_up" => made < Len(BringUp)
              /\ main = "wifi_new" => made = 0

\* These hold together, whichever call fails.
IInv == /\ OneState
        /\ UnwrapsHold
        /\ PartitionStaysOpen
        /\ Holding
        /\ ModemUntilTaken
        /\ MoreToCall

\* A Playback that has come to its end hands over to Boot, as the message
\* "Playback state completed, going to boot state" has it.
PlaybackCompletes == (main = "deinit") ~> (state = "boot")

\* Every start of the firmware comes to a search, unless it panics or the
\* network is never reached.
SearchReached == <>(main = "search" \/ ~Running) \/ <>[](main = "wifi_poll")
=============================================================================
