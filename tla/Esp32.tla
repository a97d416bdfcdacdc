-------------------------------- MODULE Esp32 --------------------------------
(***************************************************************************)
(* Esp32 of esp32.rs: nvs_init and nvs_deinit, which count how many users  *)
(* the flash partition NVS has, open it for the first and close it after   *)
(* the last.  The flash itself belongs to ESP-IDF and is external; main    *)
(* opens it too, for a partition object of its own, which does not count.  *)
(***************************************************************************)
EXTENDS Integers

VARIABLES nvs_initialized_count,  \* how many users nvs_init has counted
          flash,                  \* the condition of the flash
          opened                  \* is it open (nvs_flash_init succeeded)

nvs == <<nvs_initialized_count, flash, opened>>

\* The conditions that erasing the flash cures, those it may be found in, and
\* all: it has lost what was stored in it once it was erased.
Erasable == {"no_free_pages", "new_version"}
Found == Erasable \cup {"usable", "broken"}
Conditions == Found \cup {"erased"}

InitNvs == /\ nvs_initialized_count = 0
           /\ flash \in Found
           /\ opened = FALSE

\* nvs_flash_init, with the erasure and the second attempt: it succeeds for a
\* flash that is open already, that is usable, or that could be erased.
FlashInitOk == /\ opened \/ flash # "broken"
               /\ flash' = IF flash \in Erasable THEN "erased" ELSE flash
               /\ opened' = TRUE

\* It fails: the flash is broken, cannot be erased, or is erased and cannot be
\* opened for all that.
FlashInitErr == /\ ~opened
                /\ flash \in Erasable \cup {"broken"}
                /\ \/ UNCHANGED flash
                   \/ flash \in Erasable /\ flash' = "broken"
                /\ UNCHANGED opened

\* nvs_init looks at the flash for the first user only.
NvsInitOk == /\ nvs_initialized_count' = nvs_initialized_count + 1
             /\ IF nvs_initialized_count = 0
                THEN FlashInitOk
                ELSE UNCHANGED <<flash, opened>>
NvsInitErr == /\ nvs_initialized_count = 0
              /\ FlashInitErr
              /\ UNCHANGED nvs_initialized_count

\* nvs_deinit closes the flash after the last user that was counted.
NvsDeinitOk == /\ nvs_initialized_count > 0
               /\ nvs_initialized_count' = nvs_initialized_count - 1
               /\ opened' = (opened /\ nvs_initialized_count > 1)
               /\ UNCHANGED flash

\* It fails: there is no user, or nvs_flash_deinit fails when the last one has
\* been taken off.
NvsDeinitErr ==
    /\ \/ nvs_initialized_count = 0 /\ UNCHANGED nvs_initialized_count
       \/ nvs_initialized_count = 1 /\ nvs_initialized_count' = 0
    /\ UNCHANGED <<flash, opened>>

NvsTypeOK == /\ nvs_initialized_count \in Nat
             /\ flash \in Conditions
             /\ opened \in BOOLEAN
=============================================================================
