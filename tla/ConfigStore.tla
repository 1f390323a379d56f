---------------------------- MODULE ConfigStore -----------------------------
(***************************************************************************)
(* config.json and the calls that load and save it:                        *)
(* crates/liveaudio-core/src/config/mod.rs, the save commands of           *)
(* desktop/src-tauri/src/commands.rs, and the two programs that load it at *)
(* their start (desktop lib.rs:40, CLI main.rs:767).                       *)
(*                                                                         *)
(* "launch" is the load of the desktop that owns the settings, "visitor"   *)
(* the load of a headless service or of a second desktop instance, which   *)
(* loads before it hands over; the savers are save commands of the         *)
(* desktop.  The lock is a file: its age is all a waiter can see of it.    *)
(***************************************************************************)
EXTENDS Naturals, FiniteSets

CONSTANTS
    Savers,       \* save commands that may be in flight at once
    MaxSaves,     \* bound: save commands
    MaxLaunches,  \* bound: loads at the start of a program
    MaxFaults,    \* bound: crashes, I/O errors, suspended holders
    CanRemove     \* the user may remove a lock that a dead process left

ASSUME StoreAssumption ==
    /\ Savers \cap {"launch", "visitor", "none", "dead"} = {}
    /\ {MaxSaves, MaxLaunches, MaxFaults} \subseteq Nat
    /\ CanRemove \in BOOLEAN

Loads == {"launch", "visitor"}
Tasks == Loads \cup Savers
Desktop == Tasks \ {"visitor"}

VARIABLES
    lock,      \* the task whose lock file is there, "dead" for a crashed one, "none"
    aged,      \* the lock file is older than LOCK_STALE_AFTER_SECONDS
    disk,      \* config.json: [form, config]
    pc,        \* where each call is
    held,      \* calls whose acquire_lock returned true
    late,      \* calls whose two seconds have passed
    work,      \* what each call writes or returns
    memory,    \* AppState.config
    up,        \* the desktop runs
    saves, launches, faults,
    saved,     \* history: the file as the last save published it, or NoFile
    broken     \* history: "lock": a live holder lost its lock; "order": two saves overlapped

fileVars == <<lock, aged, disk>>
callVars == <<held, late, work>>
appVars  == <<memory, up>>
history  == <<saved, broken>>
counters == <<saves, launches, faults>>
vars == <<fileVars, pc, callVars, appVars, counters, history>>

-----------------------------------------------------------------------------
(* The values.  The purpose stands for the fields that take one of a few    *)
(* words, the duration for those that are clamped to a range (here one that *)
(* depends on the purpose), the prompt for the migrated ones.  One unit of  *)
(* duration is what the checks need to tell defaults, ceilings and excess   *)
(* apart; 0 is a duration that is missing or no number.                     *)

MaxChunkBounds(purpose) ==
    IF purpose \in {"transcription", "combined"}
    THEN [ceiling |-> 4, default |-> 3] ELSE [ceiling |-> 2, default |-> 1]

Default == [purpose |-> "subtitles", duration |-> 1, prompt |-> "", legacy |-> ""]

(* The prompt under its old name moves to the new one unless that is taken. *)
Migrated(c) ==
    IF c.prompt = "" THEN [c EXCEPT !.legacy = "", !.prompt = c.legacy]
    ELSE [c EXCEPT !.legacy = ""]

Purposeful(c) ==
    IF c.purpose \in {"subtitles", "transcription", "combined"} THEN c
    ELSE [c EXCEPT !.purpose = Default.purpose]

Clamped(c) ==
    LET ceiling == MaxChunkBounds(c.purpose).ceiling
    IN IF c.duration > ceiling THEN [c EXCEPT !.duration = ceiling] ELSE c

(* normalize *)
Normalized(c) == Clamped(Purposeful(Migrated(c)))

(* load_from_path: a missing duration takes the default of the purpose. *)
LoadedFrom(c) ==
    IF c.duration = 0
    THEN [c EXCEPT !.duration = MaxChunkBounds(c.purpose).default] ELSE c

NoFile  == [form |-> "absent", config |-> Default]
Corrupt == [form |-> "corrupt", config |-> Default]
File(c) == [form |-> "object", config |-> c]

(* What load_config returns of a file, and unwrap_or_default makes of it. *)
Loaded(file) ==
    IF file.form = "object" THEN Normalized(LoadedFrom(file.config)) ELSE Default

(* Files a user may have written, or an older version left. *)
FoundFiles == {NoFile, Corrupt,
    File([purpose |-> "combined", duration |-> 0, prompt |-> "", legacy |-> "old"])}

(* What the settings page sends, one request after the other. *)
Request(n) ==
    [purpose |-> IF n % 2 = 0 THEN "unknown" ELSE "transcription",
     duration |-> 4, prompt |-> "new", legacy |-> ""]

Init ==
    /\ lock \in {"none", "dead"} /\ aged = FALSE
    /\ disk \in FoundFiles
    /\ pc = [t \in Tasks |-> "idle"] /\ held = {} /\ late = {}
    /\ work = [t \in Tasks |-> Default]
    /\ memory = Default /\ up = FALSE
    /\ saves = 0 /\ launches = 0 /\ faults = 0
    /\ saved = NoFile /\ broken = {}

Goto(t, l) == pc' = [pc EXCEPT ![t] = l]
Busy(t) == pc[t] # "idle"
Fault == faults < MaxFaults /\ faults' = faults + 1

-----------------------------------------------------------------------------
(* Calls                                                                    *)

Called(t, c) ==
    /\ Goto(t, "create")
    /\ late' = late \ {t} /\ held' = held \ {t}
    /\ work' = [work EXCEPT ![t] = c]

(* save_config and reset_config_defaults: normalised, then persisted. *)
SaveCalled(t) ==
    /\ up /\ ~Busy(t) /\ saves < MaxSaves
    /\ Called(t, Normalized(Request(saves)))
    /\ saves' = saves + 1
    /\ broken' = IF \E s \in Savers : Busy(s) THEN broken \cup {"order"} ELSE broken
    /\ UNCHANGED <<fileVars, appVars, launches, faults, saved>>

(* A program starts: the desktop that is not running yet, or a visitor. *)
LoadCalled(t) ==
    /\ ~Busy(t) /\ launches < MaxLaunches /\ (t = "launch" => ~up)
    /\ Called(t, Default)
    /\ launches' = launches + 1
    /\ UNCHANGED <<fileVars, appVars, saves, faults, history>>

-----------------------------------------------------------------------------
(* acquire_lock                                                             *)

Acquired(t) == IF t \in Savers THEN "write" ELSE "read"

Creates(t) ==
    /\ pc[t] = "create" /\ lock = "none"
    /\ lock' = t /\ aged' = FALSE /\ held' = held \cup {t}
    /\ Goto(t, Acquired(t))
    /\ UNCHANGED <<disk, late, work, appVars, counters, history>>

Exists(t) ==
    /\ pc[t] = "create" /\ lock # "none"
    /\ Goto(t, "look")
    /\ UNCHANGED <<fileVars, callVars, appVars, counters, history>>

(* Any other error: a save is refused, a load falls back to the defaults. *)
CreateFails(t) ==
    /\ pc[t] = "create" /\ Fault
    /\ Goto(t, IF t \in Savers THEN "idle" ELSE "release")
    /\ UNCHANGED <<fileVars, callVars, appVars, saves, launches, history>>

(* is_lock_stale, and only then the timeout. *)
LooksStale(t) ==
    /\ pc[t] = "look" /\ lock # "none" /\ aged
    /\ Goto(t, "break")
    /\ UNCHANGED <<fileVars, callVars, appVars, counters, history>>

LooksFresh(t) ==
    /\ pc[t] = "look" /\ ~(lock # "none" /\ aged)
    /\ Goto(t, CASE t \notin late -> "create"
                 [] t \in late /\ t \in Loads -> "read"
                 [] t \in late /\ t \in Savers -> "idle")
    /\ UNCHANGED <<fileVars, callVars, appVars, counters, history>>

(* remove_file on the lock path, whoever's lock is there by now. *)
Removed(t) ==
    /\ lock' = "none" /\ aged' = FALSE
    /\ broken' = IF lock \in Tasks \ {t} THEN broken \cup {"lock"} ELSE broken

(* Mutant: a stale lock is found and not removed. *)
BreaksNothing(t) ==
    /\ pc[t] = "break"
    /\ Goto(t, "create")
    /\ UNCHANGED <<fileVars, callVars, appVars, counters, history>>

(* The outcome of the removal is not looked at. *)
Breaks(t) ==
    /\ pc[t] = "break"
    /\ IF lock = "dead" /\ ~CanRemove THEN UNCHANGED <<lock, aged, broken>> ELSE Removed(t)
    /\ Goto(t, "create")
    /\ UNCHANGED <<disk, callVars, appVars, counters, saved>>

(* The two seconds are over before the waiter looks at the clock. *)
TimesOut(t) ==
    /\ pc[t] = "look" /\ t \notin late
    /\ late' = late \cup {t}
    /\ UNCHANGED <<fileVars, pc, held, work, appVars, counters, history>>

-----------------------------------------------------------------------------
(* load_config and save_to_path                                             *)

(* Mutant: the normalised configuration is written back without the lock. *)
ReadsAndWrites(t) ==
    /\ pc[t] = "read"
    /\ work' = [work EXCEPT ![t] = Loaded(disk)]
    /\ Goto(t, IF disk # File(Loaded(disk)) /\ disk # Corrupt THEN "write" ELSE "release")
    /\ UNCHANGED <<fileVars, held, late, appVars, counters, history>>

(* The file is written back when it is missing or normalize changed it, and *)
(* only under the lock; a corrupt one is left as it is.                     *)
Reads(t) ==
    /\ pc[t] = "read"
    /\ work' = [work EXCEPT ![t] = Loaded(disk)]
    /\ Goto(t, IF /\ t \in held /\ disk.form # "corrupt"
                  /\ \/ disk.form = "absent"
                     \/ Normalized(LoadedFrom(disk.config)) # LoadedFrom(disk.config)
               THEN "write" ELSE "release")
    /\ UNCHANGED <<fileVars, held, late, appVars, counters, history>>

(* The sibling temporary file is written and synced; a failed write or      *)
(* rename ends the call, and a load ignores it.                             *)
Writes(t) ==
    /\ pc[t] = "write"
    /\ Goto(t, "rename")
    /\ UNCHANGED <<fileVars, callVars, appVars, counters, history>>

Renames(t) ==
    /\ pc[t] = "rename"
    /\ disk' = File(work[t])
    /\ saved' = IF t \in Savers THEN disk' ELSE saved
    /\ Goto(t, "release")
    /\ UNCHANGED <<lock, aged, callVars, appVars, counters, broken>>

SaveFails(t) ==
    /\ pc[t] \in {"write", "rename"} /\ Fault
    /\ Goto(t, IF t \in Savers THEN "refuse" ELSE "release")
    /\ UNCHANGED <<fileVars, callVars, appVars, saves, launches, history>>

(* Mutant: applied although it was not persisted. *)
ReleasesAndApplies(t) ==
    /\ pc[t] \in {"release", "refuse"}
    /\ IF t \in held THEN Removed(t) ELSE UNCHANGED <<lock, aged, broken>>
    /\ held' = held \ {t} /\ late' = late \ {t}
    /\ Goto(t, "idle")
    /\ IF t # "visitor" THEN memory' = work[t] /\ up' = TRUE ELSE UNCHANGED appVars
    /\ UNCHANGED <<disk, work, counters, saved>>

(* release_lock removes the file, if the call has taken a lock; the load    *)
(* of the desktop then becomes its configuration.                           *)
Releases(t) ==
    /\ pc[t] \in {"release", "refuse"}
    /\ IF t \in held THEN Removed(t) ELSE UNCHANGED <<lock, aged, broken>>
    /\ held' = held \ {t} /\ late' = late \ {t}
    /\ Goto(t, IF t \in Savers /\ pc[t] = "release" THEN "apply" ELSE "idle")
    /\ IF t = "launch" THEN memory' = work[t] /\ up' = TRUE ELSE UNCHANGED appVars
    /\ UNCHANGED <<disk, work, counters, saved>>

(* persist_config_and_apply, once the core has persisted. *)
Applies(t) ==
    /\ pc[t] = "apply"
    /\ memory' = work[t]
    /\ Goto(t, "idle")
    /\ UNCHANGED <<fileVars, callVars, up, counters, history>>

-----------------------------------------------------------------------------
(* Processes and time                                                       *)

(* A process dies, or exits with a command in flight: its lock stays.       *)
Crashes(tasks) ==
    /\ (tasks = Desktop /\ up) \/ \E t \in tasks : Busy(t)
    /\ Fault
    /\ pc' = [t \in Tasks |-> IF t \in tasks THEN "idle" ELSE pc[t]]
    /\ held' = held \ tasks /\ late' = late \ tasks
    /\ lock' = IF lock \in tasks THEN "dead" ELSE lock
    /\ IF tasks = Desktop THEN up' = FALSE /\ memory' = Default ELSE UNCHANGED appVars
    /\ UNCHANGED <<aged, disk, work, saves, launches, history>>

(* Nobody touches the file of a dead process. *)
AgesDead == lock = "dead" /\ ~aged /\ aged' = TRUE
    /\ UNCHANGED <<lock, disk, pc, callVars, appVars, counters, history>>

(* A holder is suspended for longer than the limit. *)
AgesHeld == lock \in Tasks /\ ~aged /\ Fault /\ aged' = TRUE
    /\ UNCHANGED <<lock, disk, pc, callVars, appVars, saves, launches, history>>

Step(t) ==
    \/ Creates(t) \/ Exists(t) \/ LooksStale(t) \/ LooksFresh(t) \/ Breaks(t)
    \/ Reads(t) \/ Writes(t) \/ Renames(t) \/ Releases(t) \/ Applies(t)

Next ==
    \/ \E t \in Savers : SaveCalled(t)
    \/ \E t \in Loads : LoadCalled(t)
    \/ \E t \in Tasks : Step(t) \/ TimesOut(t) \/ CreateFails(t) \/ SaveFails(t)
    \/ Crashes(Desktop) \/ Crashes({"visitor"})
    \/ AgesDead \/ AgesHeld

Spec == Init /\ [][Next]_vars

(* Every call is a thread of its own, and time passes.  Nothing makes a user *)
(* save, a program start or a fault happen.                                  *)
Fairness ==
    /\ \A t \in Tasks : WF_vars(Step(t)) /\ WF_vars(TimesOut(t))
    /\ WF_vars(AgesDead)

FairSpec == Spec /\ Fairness

-----------------------------------------------------------------------------
(* What the last save published is what the file holds: no load, migration, *)
(* failed write or crash of any program undoes or truncates it (mod.rs:719, *)
(* 734, 788), as long as no live holder loses its lock to a waiter.         *)
SavedLasts == saved # NoFile /\ "lock" \notin broken => disk = saved

(* The desktop never runs for long with settings the file does not hold: at *)
(* rest it has what its next launch would load, or the defaults it fell     *)
(* back to (commands.rs:350, lib.rs:40), if its saves came one by one.      *)
AgreesWithDisk ==
    up /\ broken = {} /\ (\A t \in Desktop : ~Busy(t))
        => memory \in {Default, Loaded(disk)}

(* Loads and saves return, whatever became of the holder of the lock: it is *)
(* released, or found stale and removed, or the two seconds end the wait    *)
(* (mod.rs:614-641).  The desktop opens no window before its load is back.  *)
CallsReturn == \A t \in Tasks : Busy(t) ~> ~Busy(t)
=============================================================================
