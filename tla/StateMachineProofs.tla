-------------------------- MODULE StateMachineProofs --------------------------
(***************************************************************************)
(* The safety properties of StateMachine, from its invariant IInv: for     *)
(* runs of any length, however often the network is polled, and for every  *)
(* condition of the flash.                                                 *)
(***************************************************************************)
EXTENDS StateMachine, TLAPS

\* How long the three lists of calls are, and where the partition is taken.
LEMMA Lists ==
    /\ Len(MainTakes) = 3 /\ Len(WifiStart) = 4 /\ Len(BringUp) = 13
    /\ MainTakes[1] # "nvs" /\ MainTakes[2] # "nvs" /\ MainTakes[3] = "nvs"
BY DEF MainTakes, WifiStart, BringUp, SdCardInit, BluetoothInit, A2dpInit

LEMMA InitIInv == Init => IInv
<1> SUFFICES ASSUME Init PROVE IInv
    OBVIOUS
<1>1. OneState
    <2>1. made \in 0..Len(BringUp)
        BY Lists DEF Init
    <2>2. NvsTypeOK /\ modem \in BOOLEAN
        BY DEF Init, InitNvs, NvsTypeOK, Conditions
    <2> QED
        BY <2>1, <2>2 DEF Init, OneState, TypeOK, WhereTheStateIs, States, MainStates, Panics
<1>4. PartitionStaysOpen
    BY DEF Init, PartitionStaysOpen
<1>2. UnwrapsHold /\ ModemUntilTaken /\ MoreToCall
    BY Lists DEF Init, UnwrapsHold, ModemUntilTaken, MoreToCall
<1>3. Holding
    BY DEF Init, Holding, Executing, States
<1> QED
    BY <1>1, <1>2, <1>3, <1>4 DEF IInv

\* Every step keeps the invariant; the one that would lead back to Boot is
\* never taken, as the main task holds the mutex it asks for.
LEMMA NextIInv == IInv /\ [Next]_vars => IInv'
<1> SUFFICES ASSUME IInv, [Next]_vars PROVE IInv'
    OBVIOUS
<1> USE Lists
    DEF IInv, OneState, TypeOK, NvsTypeOK, WhereTheStateIs, UnwrapsHold, PartitionStaysOpen,
        Holding, ModemUntilTaken, MoreToCall, Executing, States, MainStates, Panics,
        Goto, Abort, Return, Running, MachineFree, TakenState, nvs, machine
<1>1. CASE NewBoot
    BY <1>1 DEF NewBoot
<1>2. CASE LockMachine
    BY <1>2 DEF LockMachine
<1>3. CASE TakeState
    BY <1>3 DEF TakeState
<1>4. CASE ExecuteBoot
    BY <1>4 DEF ExecuteBoot
<1>5. CASE TakeModem
    <2>1. modem /\ modem' = FALSE /\ main' = "wifi_start" /\ UNCHANGED panic
        BY <1>5 DEF TakeModem
    <2>2. /\ main = "wifi_new" /\ UNCHANGED <<nvs, machine, made>>
          /\ machine_lock = "main" /\ current = "wifi_connect" /\ state = "none"
        BY <1>5 DEF TakeModem
    <2>3. OneState' /\ UnwrapsHold' /\ PartitionStaysOpen'
        BY <2>1, <2>2
    <2>4. Holding' /\ ModemUntilTaken' /\ MoreToCall'
        BY <2>1, <2>2
    <2> QED
        BY <2>3, <2>4
<1>6. CASE StartWifi
    BY <1>6 DEF StartWifi, NextCall
<1>7. CASE PollWifi
    BY <1>7 DEF PollWifi
<1>8. CASE WifiConnected
    BY <1>8 DEF WifiConnected
<1>9. CASE BringUpOk
    <2>1. NvsTypeOK' /\ opened'
        <3>1. UNCHANGED nvs \/ NvsInitOk
            BY <1>9 DEF BringUpOk
        <3>2. opened
            BY <1>9 DEF BringUpOk, NextCall
        <3>3. CASE UNCHANGED nvs
            BY <3>2, <3>3
        <3>4. CASE NvsInitOk
            <4>1. nvs_initialized_count' = nvs_initialized_count + 1
                BY <3>4 DEF NvsInitOk
            <4>2. flash' \in Conditions
                BY <3>4 DEF NvsInitOk, FlashInitOk, Conditions
            <4>3. opened' = TRUE \/ UNCHANGED opened
                BY <3>4, Zenon DEF NvsInitOk, FlashInitOk
            <4>4. opened'
                BY <3>2, <4>3, Zenon
            <4>5. opened' \in BOOLEAN
                BY <4>3
            <4> QED
                BY <4>1, <4>2, <4>4, <4>5
        <3> QED
            BY <3>1, <3>3, <3>4
    <2> QED
        BY <1>9, <2>1 DEF BringUpOk, NextCall
<1>10. CASE BringUpErr
    BY <1>10 DEF BringUpErr, NvsInitErr, FlashInitErr
<1>11. CASE Search
    BY <1>11 DEF Search
<1>12. CASE Connect
    BY <1>12 DEF Connect
<1>13. CASE Play
    BY <1>13 DEF Play
<1>14. CASE Deinit
    BY <1>14 DEF Deinit
<1>15. CASE RelockMachine
    <2>1. ~MachineFree
        BY <1>15 DEF RelockMachine
    <2> QED
        BY <1>15, <2>1 DEF RelockMachine
<1>16. CASE TakePeripherals
    <2>1. /\ main = "booting" /\ made \in 0..2
          /\ UNCHANGED <<nvs_initialized_count, machine, modem>>
        BY <1>16 DEF TakePeripherals
    <2>2. flash' \in Conditions /\ opened' \in BOOLEAN
        <3>1. FlashInitOk \/ FlashInitErr \/ UNCHANGED <<flash, opened>>
            BY <1>16, Zenon DEF TakePeripherals
        <3>2. opened' = TRUE \/ UNCHANGED opened
            BY <3>1, Zenon DEF FlashInitOk, FlashInitErr
        <3>3. flash' \in Conditions
            <4> USE DEF Conditions, Found, Erasable
            <4>1. CASE FlashInitOk
                BY <4>1 DEF FlashInitOk
            <4>2. CASE FlashInitErr
                BY <4>2 DEF FlashInitErr
            <4>3. CASE UNCHANGED <<flash, opened>>
                BY <4>3
            <4> QED
                BY <3>1, <4>1, <4>2, <4>3
        <3> QED
            BY <3>2, <3>3
    <2>3. CASE NextCall("booting", MainTakes, "starting") /\ UNCHANGED panic
        <3>1. CASE made = 2
            <4>1. MainTakes[made + 1] = "nvs"
                BY <3>1
            <4>2. opened'
                BY <1>16, <2>3, <4>1 DEF TakePeripherals, NextCall, FlashInitOk, FlashInitErr
            <4> QED
                BY <2>1, <2>2, <2>3, <3>1, <4>2 DEF NextCall
        <3>2. CASE made # 2
            BY <2>1, <2>2, <2>3, <3>2 DEF NextCall
        <3> QED
            BY <3>1, <3>2
    <2>4. CASE panic' = "boot" /\ UNCHANGED <<main, made>>
        BY <2>1, <2>2, <2>4
    <2> QED
        BY <1>16, <2>3, <2>4 DEF TakePeripherals
<1>17. CASE UNCHANGED vars
    BY <1>17 DEF vars
<1> QED
    BY <1>1, <1>2, <1>3, <1>4, <1>5, <1>6, <1>7, <1>8, <1>9, <1>10, <1>11, <1>12,
       <1>13, <1>14, <1>15, <1>16, <1>17 DEF Next

\* The machine's mutex, its state and the modem are where the main task
\* expects them, throughout.
THEOREM Invariance == Spec => []IInv
BY InitIInv, NextIInv, PTL DEF Spec

\* There is only ever one ConcreteState.
THEOREM OneStateAlways == Spec => []OneState
<1>1. IInv => OneState
    BY DEF IInv
<1> QED
    BY Invariance, <1>1, PTL

\* No unwrap of what the machine holds fails.
THEOREM UnwrapsAlwaysHold == Spec => []UnwrapsHold
<1>1. IInv => UnwrapsHold
    BY DEF IInv
<1> QED
    BY Invariance, <1>1, PTL

\* From StateMachine::new on the flash stays open, for every condition it is
\* found in and whatever fails: the count of nvs_init and nvs_deinit never gets
\* to close it under the partition.
THEOREM FlashStaysOpen == Spec => []PartitionStaysOpen
<1>1. IInv => PartitionStaysOpen
    BY DEF IInv
<1> QED
    BY Invariance, <1>1, PTL

\* How far PlaybackCompletes fails: Boot is put into the machine before the
\* loop begins and never again, and whoever waits for the mutex at the end of
\* Playback, with the device that was played or without, waits for good.
BootOnlyOnce ==
    [][/\ state' = "boot" => state = "boot" \/ main = "starting"
       /\ main = "relocking" => main' = "waiting"
       /\ main = "waiting" => FALSE]_vars

\* The lock in Playback never succeeds, for the machine is always locked then:
\* no run of the firmware comes to post_deinit or to a second Boot.
THEOREM NeverBackToBoot == Spec => BootOnlyOnce
<1>1. ASSUME IInv, Next
      PROVE  /\ state' = "boot" => state = "boot" \/ main = "starting"
             /\ main = "relocking" => main' = "waiting"
             /\ main = "waiting" => FALSE
    <2> USE DEF Goto, Abort, Return, TakenState, machine
    <2>1. main = "relocking" => machine_lock = "main"
        BY <1>1 DEF IInv, Holding, Executing, States
    <2>2. CASE RelockMachine
        BY <2>1, <2>2 DEF RelockMachine, MachineFree
    <2>3. CASE NewBoot \/ LockMachine \/ TakeState \/ ExecuteBoot \/ TakeModem
        BY <2>3 DEF NewBoot, LockMachine, TakeState, ExecuteBoot, TakeModem
    <2>6. CASE TakePeripherals
        BY <2>6 DEF TakePeripherals, NextCall
    <2>4. CASE StartWifi \/ PollWifi \/ WifiConnected \/ BringUpOk \/ BringUpErr
        BY <2>4 DEF StartWifi, PollWifi, WifiConnected, BringUpOk, BringUpErr, NextCall
    <2>5. CASE Search \/ Connect \/ Play \/ Deinit
        BY <2>5 DEF Search, Connect, Play, Deinit
    <2> QED
        BY <1>1, <2>2, <2>3, <2>4, <2>5, <2>6 DEF Next
<1>2. IInv /\ [Next]_vars =>
          [/\ state' = "boot" => state = "boot" \/ main = "starting"
           /\ main = "relocking" => main' = "waiting"
           /\ main = "waiting" => FALSE]_vars
    BY <1>1
<1> QED
    BY Invariance, <1>2, PTL DEF Spec, BootOnlyOnce
=============================================================================
