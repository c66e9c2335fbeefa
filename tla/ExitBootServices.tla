-------------------------- MODULE ExitBootServices --------------------------
(***************************************************************************)
(* The end of UEFI Boot Services (boot/uefi_exit_boot_services.h), as the  *)
(* loader in boot/uefi_bootloader.sotlas drives it.                        *)
(*                                                                         *)
(* ExitBootServices only accepts the key of the firmware's current memory  *)
(* map, and the page tables the kernel starts on are built from a copy of  *)
(* that map.  The firmware may change the map at any moment until the exit *)
(* succeeds, and the loader's own AllocatePool and FreePool change it too. *)
(* So the loader reads the map into a buffer with some room to spare, has  *)
(* a callback rebuild the cutover from it, tries to exit with its key, and *)
(* starts over when the key, or the buffer's size, is out of date.         *)
(*                                                                         *)
(* A map is its key and its size in descriptors.  Keys that nobody holds   *)
(* any more are reused, which keeps them finite: a reader can only ask     *)
(* whether its key is the current one.                                     *)
(***************************************************************************)
EXTENDS Naturals, FiniteSets

CONSTANTS Keys,         \* memory map keys
          Buffers,      \* pool buffers the firmware can hand out
          MaxSize,      \* descriptors of the largest memory map
          OwnGrowth,    \* descriptors one AllocatePool or FreePool can add
          Slack,        \* room prepare adds to the size it was told
          MaxAttempts,  \* BAKEN_UEFI_EXIT_MAX_ATTEMPTS
          ChangesCap    \* where the count of firmware changes saturates

NO_KEY == 0
NO_BUFFER == 0

ASSUME KeysAssumption == NO_KEY \notin Keys
ASSUME BuffersAssumption == NO_BUFFER \notin Buffers
ASSUME SizeAssumption == MaxSize \in Nat \ {0} /\ OwnGrowth \in Nat
ASSUME SlackAssumption == Slack \in Nat /\ Slack >= 2 * OwnGrowth
ASSUME AttemptsAssumption == MaxAttempts \in Nat \ {0}
ASSUME ChangesAssumption == ChangesCap \in Nat /\ 2 * ChangesCap >= MaxAttempts

Sizes == 1 .. MaxSize
Locations == {"query", "allocate", "free", "refresh", "callback", "exit",
              "booted", "returned"}

VARIABLES
  fwKey,     \* key of the firmware's memory map
  fwSize,    \* its size
  alive,     \* Boot Services still exist
  pool,      \* map buffers that are allocated from the firmware
  changes,   \* how often the firmware changed the map by itself
  final,     \* BAKEN_FINAL_MEMORY_MAP
  cutover,   \* the map that the page tables and the context describe
  pc,        \* the call baken_exit_boot_services_final makes next
  attempt,   \* its loop counter
  needed,    \* local `capacity` of baken_prepare_final_memory_map
  fresh,     \* its local `buffer`
  status     \* what the function returned

fwVars == <<fwKey, fwSize, alive, pool, changes>>
locals == <<needed, fresh>>
vars == <<fwVars, final, cutover, pc, attempt, locals, status>>

MapState == [map : Buffers \cup {NO_BUFFER}, capacity : 0 .. MaxSize + Slack,
             size : 0 .. MaxSize, key : Keys \cup {NO_KEY}]
Cutover == [map : Buffers \cup {NO_BUFFER}, size : 0 .. MaxSize,
            key : Keys \cup {NO_KEY}]

TypeOK ==
  /\ fwKey \in Keys /\ fwSize \in Sizes
  /\ alive \in BOOLEAN
  /\ pool \subseteq Buffers
  /\ changes \in 0 .. ChangesCap
  /\ final \in MapState
  /\ cutover \in Cutover
  /\ pc \in Locations
  /\ attempt \in 0 .. MaxAttempts
  /\ needed \in 0 .. MaxSize + Slack
  /\ fresh \in Buffers \cup {NO_BUFFER}
  /\ status \in {"running", "success", "aborted", "error"}

\* efi_main zeroes the map state and the bridge context before the call.
Init ==
  /\ fwKey \in Keys /\ fwSize \in Sizes
  /\ alive = TRUE /\ pool = {} /\ changes = 0
  /\ final = [map |-> NO_BUFFER, capacity |-> 0, size |-> 0, key |-> NO_KEY]
  /\ cutover = [map |-> NO_BUFFER, size |-> 0, key |-> NO_KEY]
  /\ pc = "query" /\ attempt = 0 /\ needed = 0 /\ fresh = NO_BUFFER
  /\ status = "running"

-----------------------------------------------------------------------------
(* The firmware.                                                           *)

HeldKeys == {fwKey, final.key, cutover.key}
FreshKey(k) == k \in Keys \ HeldKeys

\* A timer or a driver event inside the firmware allocates or frees memory.
FirmwareChangesMap ==
  /\ alive /\ pc # "returned"
  /\ \E k \in Keys : FreshKey(k) /\ fwKey' = k
  /\ fwSize' \in Sizes
  /\ changes' = IF changes < ChangesCap THEN changes + 1 ELSE changes
  /\ UNCHANGED <<alive, pool, final, cutover, pc, attempt, locals, status>>

\* A pool operation of the loader's may leave the map as it is, or change it
\* by a few descriptors.
PoolCallMayChangeMap ==
  \/ UNCHANGED <<fwKey, fwSize>>
  \/ /\ \E k \in Keys : FreshKey(k) /\ fwKey' = k
     /\ fwSize' \in {n \in Sizes : n <= fwSize + OwnGrowth}

-----------------------------------------------------------------------------
(* baken_prepare_final_memory_map                                          *)

Return(s) == pc' = "returned" /\ status' = s

FaultyRoomFor(n) == n
RoomFor(n) == n + Slack

\* GetMemoryMap without a buffer tells how large the map is now.
QuerySize ==
  /\ pc = "query"
  /\ UNCHANGED <<fwVars, final, cutover, attempt, fresh>>
  /\ \/ needed' = RoomFor(fwSize) /\ pc' = "allocate" /\ UNCHANGED status
     \/ Return("error") /\ UNCHANGED needed

AllocateBuffer ==
  /\ pc = "allocate"
  /\ UNCHANGED <<alive, changes, final, cutover, attempt, needed>>
  /\ \/ /\ \E b \in Buffers \ pool : pool' = pool \cup {b} /\ fresh' = b
        /\ PoolCallMayChangeMap
        /\ pc' = "free" /\ UNCHANGED status
     \/ Return("error") /\ UNCHANGED <<fwKey, fwSize, pool, fresh>>

\* The outgrown buffer goes back once its successor exists, and the state
\* forgets the map that was in it.
FaultyReleaseOldBuffer == UNCHANGED <<pool, fwKey, fwSize>>
ReleaseOldBuffer ==
  IF final.map = NO_BUFFER THEN UNCHANGED <<pool, fwKey, fwSize>>
  ELSE pool' = pool \ {final.map} /\ PoolCallMayChangeMap

InstallBuffer ==
  /\ pc = "free"
  /\ ReleaseOldBuffer
  /\ final' = [map |-> fresh, capacity |-> needed, size |-> 0, key |-> NO_KEY]
  /\ fresh' = NO_BUFFER
  /\ pc' = "refresh"
  /\ UNCHANGED <<alive, changes, cutover, attempt, needed, status>>

-----------------------------------------------------------------------------
(* The loop of baken_exit_boot_services_final                              *)

MayTry == attempt < MaxAttempts

FaultyAfterRefresh == IF attempt = 0 THEN "callback" ELSE "exit"
AfterRefresh == "callback"

\* baken_refresh_final_memory_map into the buffer already there.
RefreshMap ==
  /\ pc = "refresh" /\ MayTry
  /\ fwSize <= final.capacity
  /\ final' = [map |-> final.map, capacity |-> final.capacity,
               size |-> fwSize, key |-> fwKey]
  /\ pc' = AfterRefresh
  /\ UNCHANGED <<fwVars, cutover, attempt, locals, status>>

\* EFI_BUFFER_TOO_SMALL: prepare again and `continue`.
FaultyGrownAttempt == attempt
GrownAttempt == attempt + 1
MapOutgrewBuffer ==
  /\ pc = "refresh" /\ MayTry
  /\ fwSize > final.capacity
  /\ final' = [final EXCEPT !.size = fwSize]
  /\ attempt' = GrownAttempt
  /\ pc' = "query"
  /\ UNCHANGED <<fwVars, cutover, locals, status>>

RefreshFails ==
  /\ pc = "refresh" /\ MayTry
  /\ Return("error")
  /\ \E n \in Sizes : final' = [final EXCEPT !.size = n]
  /\ UNCHANGED <<fwVars, cutover, attempt, locals>>

GiveUp ==
  /\ pc = "refresh" /\ ~MayTry
  /\ Return("aborted")
  /\ UNCHANGED <<fwVars, final, cutover, attempt, locals>>

\* The callback builds every table in an arena it opens from its first page
\* and overwrites the context; on failure the last attempt's result stays.
PrepareCutover ==
  /\ pc = "callback"
  /\ UNCHANGED <<fwVars, final, attempt, locals>>
  /\ \/ /\ cutover' = [map |-> final.map, size |-> final.size, key |-> final.key]
        /\ pc' = "exit" /\ UNCHANGED status
     \/ Return("error") /\ UNCHANGED cutover

ExitSucceeds ==
  /\ pc = "exit" /\ final.key = fwKey
  /\ alive' = FALSE
  /\ pc' = "booted" /\ status' = "success"
  /\ UNCHANGED <<fwKey, fwSize, pool, changes, final, cutover, attempt, locals>>

\* EFI_INVALID_PARAMETER: the key is no longer the firmware's.
KeyIsStale ==
  /\ pc = "exit" /\ final.key # fwKey
  /\ attempt' = attempt + 1
  /\ pc' = "refresh"
  /\ UNCHANGED <<fwVars, final, cutover, locals, status>>

ExitFails ==
  /\ pc = "exit"
  /\ Return("error")
  /\ UNCHANGED <<fwVars, final, cutover, attempt, locals>>

\* The kernel owns the machine, or efi_main returned to the firmware.
Done == pc \in {"booted", "returned"} /\ UNCHANGED vars

Loader ==
  \/ QuerySize \/ AllocateBuffer \/ InstallBuffer
  \/ RefreshMap \/ MapOutgrewBuffer \/ RefreshFails \/ GiveUp
  \/ PrepareCutover \/ ExitSucceeds \/ KeyIsStale \/ ExitFails

Next == Loader \/ FirmwareChangesMap \/ Done

Spec == Init /\ [][Next]_vars
\* Every firmware service and the callback return.
FairSpec == Spec /\ WF_vars(Loader)

-----------------------------------------------------------------------------
(* Properties.                                                             *)

\* The tables the kernel starts on describe the very map that was current
\* when Boot Services ended, and the copy of it that the context points to is
\* in a buffer that was never given back.
KernelStartsOnTheFinalMap ==
  pc = "booted" =>
    /\ cutover.key = fwKey /\ cutover.size = fwSize
    /\ cutover.map = final.map /\ cutover.map \in pool

\* The loader owns exactly one map buffer once the first one is installed,
\* however often the map outgrew it, and two while it replaces it.
OneMapBuffer ==
  pool = {final.map, fresh} \ {NO_BUFFER}

\* Attempts are lost only to the firmware: a change the firmware made costs at
\* most two of them (the key goes stale, and then the buffer is too small);
\* what the loader allocates for itself costs none, since Slack covers it.
AttemptsAreCharged == attempt <= 2 * changes

\* However the firmware behaves, the loader either hands over or returns.
LoaderFinishes == <>(pc \in {"booted", "returned"})
=============================================================================
