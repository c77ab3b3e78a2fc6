----------------------------- MODULE StateFile ------------------------------
(***************************************************************************)
(* Durable pair states (store.Store): each save writes a temporary file,   *)
(* syncs it, renames it over the state of its key and syncs the directory, *)
(* any call of which may fail; saves of different keys interleave.  A      *)
(* killed process leaves the directory as the calls made it.  A power loss *)
(* may also tear a file that was not synced and undo any rename the        *)
(* directory was not synced after.                                         *)
(*                                                                         *)
(* A state is the number of the save that made it; 0 is the empty state    *)
(* of a key without a file.                                                *)
(***************************************************************************)
EXTENDS Integers, FiniteSets

CONSTANTS
  Keys, Savers,      \* state keys, goroutines inside Save
  MaxSaves, MaxDown  \* bounds on the saves, on the crashes and power losses

ASSUME StoreAssumption == MaxSaves \in Nat /\ MaxDown \in Nat

VARIABLES
  doing, saving,     \* of a saver: the call it makes next, its key and the state it saves
  temp,              \* the temporary file of a saver: "none", "empty", "written", "synced"
  file,              \* the state file of a key: its save, and whether its bytes are on disk
  behind,            \* files of a key that a power loss may bring back
  closed, up,        \* the store was closed; the process runs
  saves, downs,
  kept               \* history: the saves of a key a later load may return

storeVars == <<doing, saving, temp, file, behind, closed, up, saves, downs, kept>>

Torn == -1
Empty == [save |-> 0, onDisk |-> TRUE]

-----------------------------------------------------------------------------
(* Save. *)

\* Save once it holds the lock of its key: the lock order is the order of the saves.
BeginSave(s, k) ==
  /\ up /\ ~closed /\ doing[s] = "idle" /\ saves < MaxSaves
  /\ \A o \in Savers : doing[o] # "idle" => saving[o].key # k
  /\ saves' = saves + 1
  /\ saving' = [saving EXCEPT ![s] = [key |-> k, save |-> saves + 1]]
  /\ kept' = [kept EXCEPT ![k] = @ \cup {saves + 1}]
  /\ doing' = [doing EXCEPT ![s] = "create"]
  /\ UNCHANGED <<temp, file, behind, closed, up, downs>>

\* The calls of write that prepare the temporary file, in their order.
UnsyncedCall(call) == [create |-> "write", write |-> "rename"][call]
NextCall(call) == [create |-> "write", write |-> "sync", sync |-> "rename"][call]
Made(call) == [create |-> "empty", write |-> "written", sync |-> "synced"][call]

Prepare(s) ==
  /\ doing[s] \in {"create", "write", "sync"}
  /\ temp' = [temp EXCEPT ![s] = Made(doing[s])]
  /\ doing' = [doing EXCEPT ![s] = NextCall(doing[s])]
  /\ UNCHANGED <<saving, file, behind, closed, up, saves, downs, kept>>

Rename(s) ==
  LET k == saving[s].key IN
  /\ doing[s] = "rename"
  /\ file' = [file EXCEPT ![k] = [save |-> saving[s].save, onDisk |-> temp[s] = "synced"]]
  /\ behind' = [behind EXCEPT ![k] = @ \cup {file[k]}]
  /\ temp' = [temp EXCEPT ![s] = "none"]
  /\ doing' = [doing EXCEPT ![s] = "syncDir"]
  /\ UNCHANGED <<saving, closed, up, saves, downs, kept>>

\* The directory is one: its sync settles the renames of every key.  Then Save returns nil.
Settled == [k \in Keys |-> {}]
SyncDir(s) ==
  /\ doing[s] = "syncDir"
  /\ behind' = Settled
  /\ kept' = [kept EXCEPT ![saving[s].key] = {saving[s].save}]
  /\ doing' = [doing EXCEPT ![s] = "idle"]
  /\ UNCHANGED <<saving, temp, file, closed, up, saves, downs>>

\* Any call fails: the temporary file is removed and Save returns the error.  Renamed is renamed.
SaveFails(s) ==
  /\ doing[s] # "idle"
  /\ temp' = [temp EXCEPT ![s] = "none"]
  /\ doing' = [doing EXCEPT ![s] = "idle"]
  /\ UNCHANGED <<saving, file, behind, closed, up, saves, downs, kept>>

\* Close waits for the saves under way; later ones are refused.
Close ==
  /\ up /\ ~closed /\ \A s \in Savers : doing[s] = "idle"
  /\ closed' = TRUE
  /\ UNCHANGED <<doing, saving, temp, file, behind, up, saves, downs, kept>>

-----------------------------------------------------------------------------
(* The process and the machine. *)

Down ==
  /\ up /\ downs < MaxDown
  /\ up' = FALSE /\ downs' = downs + 1
  /\ doing' = [s \in Savers |-> "idle"] /\ temp' = [s \in Savers |-> "none"]
  /\ UNCHANGED <<saving, closed, saves, kept>>

Kill == Down /\ UNCHANGED <<file, behind>>

\* What is left of a file the power is taken from.
Left(f) == IF f.onDisk THEN f ELSE [save |-> Torn, onDisk |-> TRUE]

PowerLoss ==
  /\ Down
  /\ file' \in [Keys -> {Left(f) : f \in {file[k] : k \in Keys} \cup UNION {behind[k] : k \in Keys}}]
  /\ \A k \in Keys : file'[k] \in {Left(f) : f \in {file[k]} \cup behind[k]}
  /\ behind' = Settled

\* store.New: a leftover temporary file has another name and is ignored.
Start ==
  /\ ~up /\ up' = TRUE /\ closed' = FALSE
  /\ UNCHANGED <<doing, saving, temp, file, behind, saves, downs, kept>>

StoreInit ==
  /\ doing = [s \in Savers |-> "idle"] /\ temp = [s \in Savers |-> "none"]
  /\ saving = [s \in Savers |-> [key |-> CHOOSE k \in Keys : TRUE, save |-> 0]]
  /\ file = [k \in Keys |-> Empty] /\ behind = [k \in Keys |-> {}]
  /\ closed = FALSE /\ up = TRUE /\ saves = 0 /\ downs = 0
  /\ kept = [k \in Keys |-> {0}]

StoreNext ==
  \/ \E s \in Savers, k \in Keys : BeginSave(s, k)
  \/ \E s \in Savers : Prepare(s) \/ Rename(s) \/ SyncDir(s) \/ SaveFails(s)
  \/ Close \/ Kill \/ PowerLoss \/ Start

StoreSpec == StoreInit /\ [][StoreNext]_storeVars

-----------------------------------------------------------------------------
\* Whatever fails and whenever the process or the machine stops, a key loads whole, as the last
\* state whose save returned nil or as one whose save was begun since; and so it would after a
\* power loss at this moment ("durable, atomic", store.go:1, and Save, store.go:127-128).
SaveSurvives ==
  \A k \in Keys : \A f \in {file[k]} \cup behind[k] :
    f.save \in kept[k] /\ f.onDisk

-----------------------------------------------------------------------------
(* Why: what a save under way has done, and that it has its key to itself. *)

Calls == {"idle", "create", "write", "sync", "rename", "syncDir"}

\* What is renamed was synced, and what a load may return then is what is saved.
SaveSound(s) ==
  LET k == saving[s].key IN
  /\ doing[s] \in Calls
  /\ doing[s] # "idle" => k \in Keys /\ saving[s].save \in kept[k]
  /\ doing[s] = "rename" => temp[s] = "synced"
  /\ doing[s] = "syncDir" => file[k] = [save |-> saving[s].save, onDisk |-> TRUE]

OneSavePerKey ==
  \A s, o \in Savers :
    s # o /\ doing[s] # "idle" /\ doing[o] # "idle" => saving[s].key # saving[o].key

StoreInv ==
  /\ \A s \in Savers : SaveSound(s)
  /\ OneSavePerKey /\ SaveSurvives
  /\ doing = [s \in Savers |-> doing[s]] /\ temp = [s \in Savers |-> temp[s]]
  /\ saving = [s \in Savers |-> saving[s]]
  /\ file = [k \in Keys |-> file[k]] /\ behind = [k \in Keys |-> behind[k]] /\ kept = [k \in Keys |-> kept[k]]
=============================================================================
