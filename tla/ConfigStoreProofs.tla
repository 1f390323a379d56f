-------------------------- MODULE ConfigStoreProofs ---------------------------
(***************************************************************************)
(* What was saved last stays in config.json, and a desktop at rest has the *)
(* settings its next launch would load, for every number of save commands, *)
(* loads and faults.  The argument: unless a live holder has lost its      *)
(* lock, one task at a time is past acquire_lock, a load writes only what  *)
(* it read while nothing had been saved, and a saved configuration is one  *)
(* that normalize leaves alone, so that no later load finds a reason to    *)
(* write it back.  What a load does write back is what the file loads as   *)
(* already, since normalize is idempotent, so that only saves change what  *)
(* the desktop has to agree with.                                          *)
(***************************************************************************)
EXTENDS ConfigStore, TLAPS

Places == {"idle", "create", "look", "break", "read", "write", "rename",
           "release", "refuse", "apply"}

Settings(purpose, duration, prompt, legacy) ==
    [purpose |-> purpose, duration |-> duration, prompt |-> prompt, legacy |-> legacy]

(* What the save commands write: requests, normalised (RequestIsNormalised). *)
Requested == {Settings("subtitles", 2, "new", ""), Settings("transcription", 4, "new", "")}

TypeOK ==
    /\ lock \in Tasks \cup {"none", "dead"}
    /\ pc \in [Tasks -> Places]
    /\ held \subseteq Tasks
    /\ work = [t \in Tasks |-> work[t]]
    /\ saves \in Nat

Unbroken == "lock" \notin broken

WaitersHoldNothing ==
    \A t \in Tasks : pc[t] \in {"idle", "create", "look", "break", "apply"} => t \notin held
WritersHold == \A t \in Tasks : pc[t] \in {"write", "rename"} => t \in held
OneHolder ==
    Unbroken => (\A t \in held : lock = t) /\ (lock \in Tasks => lock \in held)
SaversSave ==
    \A t \in Savers : pc[t] # "read" /\ (pc[t] # "idle" => work[t] \in Requested)
SavedIsNormal == saved # NoFile => \E c \in Requested : saved = File(c)
LoadsWriteFirst ==
    Unbroken => \A t \in Loads : pc[t] \in {"write", "rename"} => saved = NoFile

Inv ==
    /\ TypeOK /\ WaitersHoldNothing /\ WritersHold /\ OneHolder
    /\ SaversSave /\ SavedIsNormal /\ LoadsWriteFirst /\ SavedLasts

-----------------------------------------------------------------------------
(* The names of the calls are apart. *)
LEMMA NamesApart ==
    /\ Loads \cap Savers = {} /\ Loads \subseteq Tasks /\ Savers \subseteq Tasks
    /\ Tasks = Loads \cup Savers
    /\ "none" \notin Tasks /\ "dead" \notin Tasks
BY StoreAssumption DEF Loads, Tasks

Purposes == {"subtitles", "transcription", "combined"}

(* The parts of normalize, on a configuration written out.                  *)
LEMMA MigratedSettings ==
    ASSUME NEW p, NEW d, NEW t, NEW l, t # ""
    PROVE  Migrated(Settings(p, d, t, l)) = Settings(p, d, t, "")
BY DEF Settings, Migrated

LEMMA KnownPurpose ==
    ASSUME NEW p \in Purposes, NEW d, NEW t, NEW l
    PROVE  Purposeful(Settings(p, d, t, l)) = Settings(p, d, t, l)
BY DEF Settings, Purposeful, Purposes

LEMMA UnknownPurpose ==
    ASSUME NEW d, NEW t, NEW l
    PROVE  Purposeful(Settings("unknown", d, t, l)) = Settings("subtitles", d, t, l)
<1>1. [Settings("unknown", d, t, l) EXCEPT !.purpose = "subtitles"] = Settings("subtitles", d, t, l)
  BY DEF Settings
<1>2. Settings("unknown", d, t, l).purpose \notin {"subtitles", "transcription", "combined"}
  BY DEF Settings
<1> QED
  BY <1>1, <1>2 DEF Purposeful, Default

LEMMA WithinBounds ==
    ASSUME NEW p, NEW d \in Nat, NEW t, NEW l, d <= MaxChunkBounds(p).ceiling
    PROVE  Clamped(Settings(p, d, t, l)) = Settings(p, d, t, l)
<1>1. Settings(p, d, t, l).purpose = p /\ Settings(p, d, t, l).duration = d
  BY DEF Settings
<1>2. MaxChunkBounds(p).ceiling \in Nat
  BY DEF MaxChunkBounds
<1> QED
  BY <1>1, <1>2 DEF Clamped

LEMMA AboveBounds ==
    ASSUME NEW p, NEW d \in Nat, NEW t, NEW l, d > MaxChunkBounds(p).ceiling
    PROVE  Clamped(Settings(p, d, t, l)) = Settings(p, MaxChunkBounds(p).ceiling, t, l)
<1>1. Settings(p, d, t, l).purpose = p /\ Settings(p, d, t, l).duration = d
  BY DEF Settings
<1>2. \A k : [Settings(p, d, t, l) EXCEPT !.duration = k] = Settings(p, k, t, l)
  BY DEF Settings
<1> QED
  BY <1>1, <1>2 DEF Clamped

LEMMA Ceilings ==
    MaxChunkBounds("subtitles").ceiling = 2 /\ MaxChunkBounds("transcription").ceiling = 4
BY DEF MaxChunkBounds

(* A request, normalised, is one of two configurations.                     *)
LEMMA RequestIsNormalised ==
    ASSUME NEW n \in Nat
    PROVE  Normalized(Request(n)) \in Requested
<1>1. CASE n % 2 = 0
  <2>1. Request(n) = Settings("unknown", 4, "new", "")
    BY <1>1 DEF Request, Settings
  <2>2. Migrated(Request(n)) = Request(n)
    BY <2>1, MigratedSettings
  <2>3. Purposeful(Request(n)) = Settings("subtitles", 4, "new", "")
    BY <2>1, UnknownPurpose
  <2>4. 4 \in Nat /\ 4 > MaxChunkBounds("subtitles").ceiling
    BY Ceilings
  <2>5. Clamped(Settings("subtitles", 4, "new", "")) =
            Settings("subtitles", MaxChunkBounds("subtitles").ceiling, "new", "")
    BY <2>4, AboveBounds
  <2>6. Normalized(Request(n)) = Settings("subtitles", 2, "new", "")
    BY <2>2, <2>3, <2>5, Ceilings DEF Normalized
  <2> QED
    BY <2>6 DEF Requested
<1>2. CASE n % 2 # 0
  <2>1. Request(n) = Settings("transcription", 4, "new", "")
    BY <1>2 DEF Request, Settings
  <2>2. Migrated(Request(n)) = Request(n)
    BY <2>1, MigratedSettings
  <2>3. Purposeful(Request(n)) = Request(n)
    BY <2>1, KnownPurpose DEF Purposes
  <2>4. 4 \in Nat /\ 4 <= MaxChunkBounds("transcription").ceiling
    BY Ceilings
  <2>5. Clamped(Request(n)) = Request(n)
    BY <2>1, <2>4, WithinBounds
  <2>6. Normalized(Request(n)) = Settings("transcription", 4, "new", "")
    BY <2>1, <2>2, <2>3, <2>5 DEF Normalized
  <2> QED
    BY <2>6 DEF Requested
<1> QED
  BY <1>1, <1>2

(* normalize and load_from_path leave alone what lies within the bounds.    *)
LEMMA NormalIsStable ==
    ASSUME NEW p \in Purposes, NEW d \in Nat \ {0},
           d <= MaxChunkBounds(p).ceiling
    PROVE  /\ LoadedFrom(Settings(p, d, "new", "")) = Settings(p, d, "new", "")
           /\ Normalized(Settings(p, d, "new", "")) = Settings(p, d, "new", "")
<1>1. LoadedFrom(Settings(p, d, "new", "")) = Settings(p, d, "new", "")
  <2>1. Settings(p, d, "new", "").duration # 0
    BY DEF Settings
  <2> QED
    BY <2>1 DEF LoadedFrom
<1>2. Migrated(Settings(p, d, "new", "")) = Settings(p, d, "new", "")
  <2>1. "new" # ""
    OBVIOUS
  <2> QED
    BY <2>1, MigratedSettings, Zenon
<1>3. Purposeful(Settings(p, d, "new", "")) = Settings(p, d, "new", "")
  BY KnownPurpose
<1>4. Clamped(Settings(p, d, "new", "")) = Settings(p, d, "new", "")
  BY WithinBounds
<1> QED
  BY <1>1, <1>2, <1>3, <1>4 DEF Normalized

(* A saved configuration is one that a load takes as it is (mod.rs:719).    *)
LEMMA RequestedIsNormal ==
    ASSUME NEW c \in Requested
    PROVE  LoadedFrom(c) = c /\ Normalized(c) = c
<1>1. CASE c = Settings("subtitles", 2, "new", "")
  <2>1. 2 \in Nat \ {0} /\ 2 <= MaxChunkBounds("subtitles").ceiling
    BY Ceilings
  <2>2. "subtitles" \in Purposes
    BY DEF Purposes
  <2> QED
    BY <1>1, <2>1, <2>2, NormalIsStable
<1>2. CASE c = Settings("transcription", 4, "new", "")
  <2>1. 4 \in Nat \ {0} /\ 4 <= MaxChunkBounds("transcription").ceiling
    BY Ceilings
  <2>2. "transcription" \in Purposes
    BY DEF Purposes
  <2> QED
    BY <1>2, <2>1, <2>2, NormalIsStable
<1> QED
  BY <1>1, <1>2 DEF Requested

(* A file with a saved configuration is not written back by a load.         *)
LEMMA SavedNeedsNoWrite ==
    ASSUME NEW c \in Requested
    PROVE  /\ File(c).form = "object"
           /\ Normalized(LoadedFrom(File(c).config)) = LoadedFrom(File(c).config)
           /\ File(c) # NoFile
BY RequestedIsNormal DEF File, NoFile

-----------------------------------------------------------------------------
(* Initially nothing is held, saved or under way.                           *)
LEMMA InitInv == Init => Inv
<1> SUFFICES ASSUME Init PROVE Inv
  OBVIOUS
<1> USE NamesApart
<1>1. TypeOK
  BY DEF Init, TypeOK, Places
<1>2. WaitersHoldNothing /\ WritersHold /\ OneHolder
  BY DEF Init, WaitersHoldNothing, WritersHold, OneHolder
<1>3. SaversSave /\ SavedIsNormal /\ LoadsWriteFirst /\ SavedLasts
  BY DEF Init, SaversSave, SavedIsNormal, LoadsWriteFirst, SavedLasts
<1> QED
  BY <1>1, <1>2, <1>3 DEF Inv

-----------------------------------------------------------------------------

LEMMA SaveCalledKeeps ==
    ASSUME Inv, NEW t \in Savers, SaveCalled(t)
    PROVE  Inv'
<1> USE NamesApart DEF Inv, Unbroken, fileVars, callVars, appVars, counters, history
<1>1. TypeOK'
  <2>1. saves' \in Nat
    BY DEF SaveCalled, TypeOK
  <2>2. pc' \in [Tasks -> Places] /\ work' = [u \in Tasks |-> work'[u]]
    BY DEF SaveCalled, Called, TypeOK, Places, Goto
  <2>3. lock' \in Tasks \cup {"none", "dead"} /\ held' \subseteq Tasks
    BY DEF SaveCalled, Called, TypeOK
  <2> QED
    BY <2>1, <2>2, <2>3 DEF TypeOK
<1>2. WaitersHoldNothing' /\ WritersHold'
  BY DEF SaveCalled, Called, TypeOK, WaitersHoldNothing, WritersHold, Goto
<1>3. OneHolder'
  BY DEF SaveCalled, Called, Busy, TypeOK, OneHolder, WaitersHoldNothing
<1>4. SaversSave' /\ SavedIsNormal'
  BY RequestIsNormalised DEF SaveCalled, Called, TypeOK, SaversSave, SavedIsNormal, Goto
<1>5. LoadsWriteFirst' /\ SavedLasts'
  BY DEF SaveCalled, Called, TypeOK, LoadsWriteFirst, SavedLasts, Goto
<1> QED
  BY <1>1, <1>2, <1>3, <1>4, <1>5

LEMMA LoadCalledKeeps ==
    ASSUME Inv, NEW t \in Loads, LoadCalled(t)
    PROVE  Inv'
<1> USE NamesApart DEF Inv, Unbroken, fileVars, callVars, appVars, counters, history
<1>1. TypeOK'
  BY DEF LoadCalled, Called, TypeOK, Places, Goto
<1>2. WaitersHoldNothing' /\ WritersHold'
  BY DEF LoadCalled, Called, TypeOK, WaitersHoldNothing, WritersHold, Goto
<1>3. OneHolder'
  BY DEF LoadCalled, Called, Busy, TypeOK, OneHolder, WaitersHoldNothing
<1>4. SaversSave' /\ SavedIsNormal'
  BY DEF LoadCalled, Called, TypeOK, SaversSave, SavedIsNormal, Goto
<1>5. LoadsWriteFirst' /\ SavedLasts'
  BY DEF LoadCalled, Called, TypeOK, LoadsWriteFirst, SavedLasts, Goto
<1> QED
  BY <1>1, <1>2, <1>3, <1>4, <1>5

LEMMA CreatesKeeps ==
    ASSUME Inv, NEW t \in Tasks, Creates(t)
    PROVE  Inv'
<1> USE NamesApart DEF Inv, Unbroken, fileVars, callVars, appVars, counters, history
<1>1. TypeOK'
  BY DEF Creates, Acquired, TypeOK, Places, Goto
<1>2. WaitersHoldNothing' /\ WritersHold'
  BY DEF Creates, Acquired, TypeOK, WaitersHoldNothing, WritersHold, Goto
<1>3. OneHolder'
  BY DEF Creates, Acquired, TypeOK, OneHolder, WaitersHoldNothing
<1>4. SaversSave' /\ SavedIsNormal'
  BY DEF Creates, Acquired, TypeOK, SaversSave, SavedIsNormal, Goto
<1>5. LoadsWriteFirst' /\ SavedLasts'
  BY DEF Creates, Acquired, TypeOK, LoadsWriteFirst, SavedLasts, Goto
<1> QED
  BY <1>1, <1>2, <1>3, <1>4, <1>5

LEMMA ExistsKeeps ==
    ASSUME Inv, NEW t \in Tasks, Exists(t)
    PROVE  Inv'
<1> USE NamesApart DEF Inv, Unbroken, fileVars, callVars, appVars, counters, history
<1>1. TypeOK'
  BY DEF Exists, TypeOK, Places, Goto
<1>2. WaitersHoldNothing' /\ WritersHold'
  BY DEF Exists, TypeOK, WaitersHoldNothing, WritersHold, Goto
<1>3. OneHolder'
  BY DEF Exists, TypeOK, OneHolder, WaitersHoldNothing
<1>4. SaversSave' /\ SavedIsNormal'
  BY DEF Exists, TypeOK, SaversSave, SavedIsNormal, Goto
<1>5. LoadsWriteFirst' /\ SavedLasts'
  BY DEF Exists, TypeOK, LoadsWriteFirst, SavedLasts, Goto
<1> QED
  BY <1>1, <1>2, <1>3, <1>4, <1>5

LEMMA LooksStaleKeeps ==
    ASSUME Inv, NEW t \in Tasks, LooksStale(t)
    PROVE  Inv'
<1> USE NamesApart DEF Inv, Unbroken, fileVars, callVars, appVars, counters, history
<1>1. TypeOK'
  BY DEF LooksStale, TypeOK, Places, Goto
<1>2. WaitersHoldNothing' /\ WritersHold'
  BY DEF LooksStale, TypeOK, WaitersHoldNothing, WritersHold, Goto
<1>3. OneHolder'
  BY DEF LooksStale, TypeOK, OneHolder, WaitersHoldNothing
<1>4. SaversSave' /\ SavedIsNormal'
  BY DEF LooksStale, TypeOK, SaversSave, SavedIsNormal, Goto
<1>5. LoadsWriteFirst' /\ SavedLasts'
  BY DEF LooksStale, TypeOK, LoadsWriteFirst, SavedLasts, Goto
<1> QED
  BY <1>1, <1>2, <1>3, <1>4, <1>5

LEMMA LooksFreshKeeps ==
    ASSUME Inv, NEW t \in Tasks, LooksFresh(t)
    PROVE  Inv'
<1> USE NamesApart DEF Inv, Unbroken, fileVars, callVars, appVars, counters, history
<1>1. TypeOK'
  BY DEF LooksFresh, TypeOK, Places, Goto
<1>2. WaitersHoldNothing' /\ WritersHold'
  BY DEF LooksFresh, TypeOK, WaitersHoldNothing, WritersHold, Goto
<1>3. OneHolder'
  BY DEF LooksFresh, TypeOK, OneHolder, WaitersHoldNothing
<1>4. SaversSave' /\ SavedIsNormal'
  BY DEF LooksFresh, TypeOK, SaversSave, SavedIsNormal, Goto
<1>5. LoadsWriteFirst' /\ SavedLasts'
  BY DEF LooksFresh, TypeOK, LoadsWriteFirst, SavedLasts, Goto
<1> QED
  BY <1>1, <1>2, <1>3, <1>4, <1>5

LEMMA BreaksKeeps ==
    ASSUME Inv, NEW t \in Tasks, Breaks(t)
    PROVE  Inv'
<1> USE NamesApart DEF Inv, Unbroken, fileVars, callVars, appVars, counters, history
<1>1. TypeOK'
  BY DEF Breaks, Removed, TypeOK, Places, Goto
<1>2. WaitersHoldNothing' /\ WritersHold'
  BY DEF Breaks, Removed, TypeOK, WaitersHoldNothing, WritersHold, Goto
<1>3. OneHolder'
  BY DEF Breaks, Removed, TypeOK, OneHolder, WaitersHoldNothing
<1>4. SaversSave' /\ SavedIsNormal'
  BY DEF Breaks, Removed, TypeOK, SaversSave, SavedIsNormal, Goto
<1>5. LoadsWriteFirst' /\ SavedLasts'
  BY DEF Breaks, Removed, TypeOK, LoadsWriteFirst, SavedLasts, OneHolder, Goto
<1> QED
  BY <1>1, <1>2, <1>3, <1>4, <1>5

LEMMA ReadsKeeps ==
    ASSUME Inv, NEW t \in Tasks, Reads(t)
    PROVE  Inv'
<1> USE NamesApart DEF Inv, Unbroken, fileVars, callVars, appVars, counters, history
<1>1. TypeOK'
  BY DEF Reads, TypeOK, Places, Goto
<1>2. WaitersHoldNothing' /\ WritersHold'
  BY DEF Reads, TypeOK, WaitersHoldNothing, WritersHold, Goto
<1>3. OneHolder'
  BY DEF Reads, TypeOK, OneHolder, WaitersHoldNothing
<1>4. SaversSave' /\ SavedIsNormal'
  BY DEF Reads, TypeOK, SaversSave, SavedIsNormal, Goto
<1>5. LoadsWriteFirst' /\ SavedLasts'
  <2>1. CASE ~Unbroken \/ saved = NoFile
    BY <2>1 DEF Reads, TypeOK, LoadsWriteFirst, SavedLasts, Goto
  <2>2. CASE Unbroken /\ saved # NoFile
    <3>1. PICK c \in Requested : disk = File(c)
      BY <2>2 DEF SavedLasts, SavedIsNormal
    <3>2. pc' = [pc EXCEPT ![t] = "release"]
      BY <3>1, SavedNeedsNoWrite DEF Reads, Goto
    <3> QED
      BY <2>2, <3>2 DEF Reads, TypeOK, LoadsWriteFirst, SavedLasts
  <2> QED
    BY <2>1, <2>2
<1> QED
  BY <1>1, <1>2, <1>3, <1>4, <1>5

LEMMA WritesKeeps ==
    ASSUME Inv, NEW t \in Tasks, Writes(t)
    PROVE  Inv'
<1> USE NamesApart DEF Inv, Unbroken, fileVars, callVars, appVars, counters, history
<1>1. TypeOK'
  BY DEF Writes, TypeOK, Places, Goto
<1>2. WaitersHoldNothing' /\ WritersHold'
  BY DEF Writes, TypeOK, WaitersHoldNothing, WritersHold, Goto
<1>3. OneHolder'
  BY DEF Writes, TypeOK, OneHolder, WaitersHoldNothing
<1>4. SaversSave' /\ SavedIsNormal'
  BY DEF Writes, TypeOK, SaversSave, SavedIsNormal, Goto
<1>5. LoadsWriteFirst' /\ SavedLasts'
  BY DEF Writes, TypeOK, LoadsWriteFirst, SavedLasts, Goto
<1> QED
  BY <1>1, <1>2, <1>3, <1>4, <1>5

LEMMA RenamesKeeps ==
    ASSUME Inv, NEW t \in Tasks, Renames(t)
    PROVE  Inv'
<1> USE NamesApart DEF Inv, Unbroken, fileVars, callVars, appVars, counters, history
<1>1. TypeOK'
  BY DEF Renames, TypeOK, Places, Goto
<1>2. WaitersHoldNothing' /\ WritersHold'
  BY DEF Renames, TypeOK, WaitersHoldNothing, WritersHold, Goto
<1>3. OneHolder'
  BY DEF Renames, TypeOK, OneHolder, WaitersHoldNothing
<1>4. SaversSave' /\ SavedIsNormal'
  BY DEF Renames, TypeOK, SaversSave, SavedIsNormal, Goto
<1>5. LoadsWriteFirst' /\ SavedLasts'
  <2>1. CASE t \in Loads
    BY <2>1 DEF Renames, TypeOK, LoadsWriteFirst, SavedLasts, Goto
  <2>2. CASE t \in Savers
    <3>1. t \in held
      BY DEF Renames, WritersHold
    <3>2. Unbroken => \A u \in Loads : pc[u] \notin {"write", "rename"}
      BY <2>2, <3>1 DEF OneHolder, WritersHold
    <3> QED
      BY <2>2, <3>2 DEF Renames, TypeOK, LoadsWriteFirst, SavedLasts, Goto
  <2> QED
    BY <2>1, <2>2
<1> QED
  BY <1>1, <1>2, <1>3, <1>4, <1>5

LEMMA ReleasesKeeps ==
    ASSUME Inv, NEW t \in Tasks, Releases(t)
    PROVE  Inv'
<1> USE NamesApart DEF Inv, Unbroken, fileVars, callVars, appVars, counters, history
<1>1. TypeOK'
  BY DEF Releases, Removed, TypeOK, Places, Goto
<1>2. WaitersHoldNothing' /\ WritersHold'
  BY DEF Releases, Removed, TypeOK, WaitersHoldNothing, WritersHold, Goto
<1>3. OneHolder'
  BY DEF Releases, Removed, TypeOK, OneHolder, WaitersHoldNothing
<1>4. SaversSave' /\ SavedIsNormal'
  BY DEF Releases, Removed, TypeOK, SaversSave, SavedIsNormal, Goto
<1>5. LoadsWriteFirst' /\ SavedLasts'
  BY DEF Releases, Removed, TypeOK, LoadsWriteFirst, SavedLasts, Goto
<1> QED
  BY <1>1, <1>2, <1>3, <1>4, <1>5

LEMMA AppliesKeeps ==
    ASSUME Inv, NEW t \in Tasks, Applies(t)
    PROVE  Inv'
<1> USE NamesApart DEF Inv, Unbroken, fileVars, callVars, appVars, counters, history
<1>1. TypeOK'
  BY DEF Applies, TypeOK, Places, Goto
<1>2. WaitersHoldNothing' /\ WritersHold'
  BY DEF Applies, TypeOK, WaitersHoldNothing, WritersHold, Goto
<1>3. OneHolder'
  BY DEF Applies, TypeOK, OneHolder, WaitersHoldNothing
<1>4. SaversSave' /\ SavedIsNormal'
  BY DEF Applies, TypeOK, SaversSave, SavedIsNormal, Goto
<1>5. LoadsWriteFirst' /\ SavedLasts'
  BY DEF Applies, TypeOK, LoadsWriteFirst, SavedLasts, Goto
<1> QED
  BY <1>1, <1>2, <1>3, <1>4, <1>5

LEMMA TimesOutKeeps ==
    ASSUME Inv, NEW t \in Tasks, TimesOut(t)
    PROVE  Inv'
<1> USE NamesApart DEF Inv, Unbroken, fileVars, callVars, appVars, counters, history
<1>1. TypeOK'
  BY DEF TimesOut, TypeOK, Places, Goto
<1>2. WaitersHoldNothing' /\ WritersHold'
  BY DEF TimesOut, TypeOK, WaitersHoldNothing, WritersHold, Goto
<1>3. OneHolder'
  BY DEF TimesOut, TypeOK, OneHolder, WaitersHoldNothing
<1>4. SaversSave' /\ SavedIsNormal'
  BY DEF TimesOut, TypeOK, SaversSave, SavedIsNormal, Goto
<1>5. LoadsWriteFirst' /\ SavedLasts'
  BY DEF TimesOut, TypeOK, LoadsWriteFirst, SavedLasts, Goto
<1> QED
  BY <1>1, <1>2, <1>3, <1>4, <1>5

LEMMA CreateFailsKeeps ==
    ASSUME Inv, NEW t \in Tasks, CreateFails(t)
    PROVE  Inv'
<1> USE NamesApart DEF Inv, Unbroken, fileVars, callVars, appVars, counters, history
<1>1. TypeOK'
  BY DEF CreateFails, TypeOK, Places, Goto
<1>2. WaitersHoldNothing' /\ WritersHold'
  BY DEF CreateFails, TypeOK, WaitersHoldNothing, WritersHold, Goto
<1>3. OneHolder'
  BY DEF CreateFails, TypeOK, OneHolder, WaitersHoldNothing
<1>4. SaversSave' /\ SavedIsNormal'
  BY DEF CreateFails, TypeOK, SaversSave, SavedIsNormal, Goto
<1>5. LoadsWriteFirst' /\ SavedLasts'
  BY DEF CreateFails, TypeOK, LoadsWriteFirst, SavedLasts, Goto
<1> QED
  BY <1>1, <1>2, <1>3, <1>4, <1>5

LEMMA SaveFailsKeeps ==
    ASSUME Inv, NEW t \in Tasks, SaveFails(t)
    PROVE  Inv'
<1> USE NamesApart DEF Inv, Unbroken, fileVars, callVars, appVars, counters, history
<1>1. TypeOK'
  BY DEF SaveFails, TypeOK, Places, Goto
<1>2. WaitersHoldNothing' /\ WritersHold'
  BY DEF SaveFails, TypeOK, WaitersHoldNothing, WritersHold, Goto
<1>3. OneHolder'
  BY DEF SaveFails, TypeOK, OneHolder, WaitersHoldNothing
<1>4. SaversSave' /\ SavedIsNormal'
  BY DEF SaveFails, TypeOK, SaversSave, SavedIsNormal, Goto
<1>5. LoadsWriteFirst' /\ SavedLasts'
  BY DEF SaveFails, TypeOK, LoadsWriteFirst, SavedLasts, Goto
<1> QED
  BY <1>1, <1>2, <1>3, <1>4, <1>5

LEMMA CrashesKeeps ==
    ASSUME Inv, NEW tasks \in SUBSET Tasks, Crashes(tasks)
    PROVE  Inv'
<1> USE NamesApart DEF Inv, Unbroken, fileVars, callVars, appVars, counters, history
<1>1. TypeOK'
  BY DEF Crashes, TypeOK, Places, Goto
<1>2. WaitersHoldNothing' /\ WritersHold'
  BY DEF Crashes, TypeOK, WaitersHoldNothing, WritersHold, Goto
<1>3. OneHolder'
  BY DEF Crashes, TypeOK, OneHolder, WaitersHoldNothing
<1>4. SaversSave' /\ SavedIsNormal'
  BY DEF Crashes, TypeOK, SaversSave, SavedIsNormal, Goto
<1>5. LoadsWriteFirst' /\ SavedLasts'
  BY DEF Crashes, TypeOK, LoadsWriteFirst, SavedLasts, Goto
<1> QED
  BY <1>1, <1>2, <1>3, <1>4, <1>5

LEMMA AgesDeadKeeps ==
    ASSUME Inv, AgesDead
    PROVE  Inv'
<1> USE NamesApart DEF Inv, Unbroken, fileVars, callVars, appVars, counters, history
<1>1. TypeOK'
  BY DEF AgesDead, TypeOK, Places, Goto
<1>2. WaitersHoldNothing' /\ WritersHold'
  BY DEF AgesDead, TypeOK, WaitersHoldNothing, WritersHold, Goto
<1>3. OneHolder'
  BY DEF AgesDead, TypeOK, OneHolder, WaitersHoldNothing
<1>4. SaversSave' /\ SavedIsNormal'
  BY DEF AgesDead, TypeOK, SaversSave, SavedIsNormal, Goto
<1>5. LoadsWriteFirst' /\ SavedLasts'
  BY DEF AgesDead, TypeOK, LoadsWriteFirst, SavedLasts, Goto
<1> QED
  BY <1>1, <1>2, <1>3, <1>4, <1>5

LEMMA AgesHeldKeeps ==
    ASSUME Inv, AgesHeld
    PROVE  Inv'
<1> USE NamesApart DEF Inv, Unbroken, fileVars, callVars, appVars, counters, history
<1>1. TypeOK'
  BY DEF AgesHeld, TypeOK, Places, Goto
<1>2. WaitersHoldNothing' /\ WritersHold'
  BY DEF AgesHeld, TypeOK, WaitersHoldNothing, WritersHold, Goto
<1>3. OneHolder'
  BY DEF AgesHeld, TypeOK, OneHolder, WaitersHoldNothing
<1>4. SaversSave' /\ SavedIsNormal'
  BY DEF AgesHeld, TypeOK, SaversSave, SavedIsNormal, Goto
<1>5. LoadsWriteFirst' /\ SavedLasts'
  BY DEF AgesHeld, TypeOK, LoadsWriteFirst, SavedLasts, Goto
<1> QED
  BY <1>1, <1>2, <1>3, <1>4, <1>5

-----------------------------------------------------------------------------
LEMMA NextKeeps == Inv /\ [Next]_vars => Inv'
<1> SUFFICES ASSUME Inv, [Next]_vars PROVE Inv'
  OBVIOUS
<1> USE NamesApart
<1>1. CASE UNCHANGED vars
  BY <1>1 DEF Inv, TypeOK, WaitersHoldNothing, WritersHold, OneHolder, SaversSave,
              SavedIsNormal, LoadsWriteFirst, SavedLasts, Unbroken,
              vars, fileVars, callVars, appVars, counters, history
<1>2. ASSUME NEW t \in Savers, SaveCalled(t) PROVE Inv'
  BY <1>2, SaveCalledKeeps
<1>3. ASSUME NEW t \in Loads, LoadCalled(t) PROVE Inv'
  BY <1>3, LoadCalledKeeps
<1>4. ASSUME NEW t \in Tasks, Step(t) PROVE Inv'
  <2>1. Creates(t) \/ Exists(t) \/ LooksStale(t) \/ LooksFresh(t) \/ Breaks(t) => Inv'
    BY CreatesKeeps, ExistsKeeps, LooksStaleKeeps, LooksFreshKeeps, BreaksKeeps
  <2>2. Reads(t) \/ Writes(t) \/ Renames(t) \/ Releases(t) \/ Applies(t) => Inv'
    BY ReadsKeeps, WritesKeeps, RenamesKeeps, ReleasesKeeps, AppliesKeeps
  <2> QED
    BY <1>4, <2>1, <2>2 DEF Step
<1>5. ASSUME NEW t \in Tasks, TimesOut(t) \/ CreateFails(t) \/ SaveFails(t) PROVE Inv'
  BY <1>5, TimesOutKeeps, CreateFailsKeeps, SaveFailsKeeps
<1>6. CASE Crashes(Desktop) \/ Crashes({"visitor"})
  <2>1. Desktop \in SUBSET Tasks /\ {"visitor"} \in SUBSET Tasks
    BY DEF Desktop, Tasks, Loads
  <2> QED
    BY <1>6, <2>1, CrashesKeeps
<1>7. CASE AgesDead \/ AgesHeld
  BY <1>7, AgesDeadKeeps, AgesHeldKeeps
<1> QED
  BY <1>1, <1>2, <1>3, <1>4, <1>5, <1>6, <1>7 DEF Next

(* The inductive invariant: who holds the lock, and what is being written   *)
(* under it (mod.rs:597-734).                                               *)
THEOREM Inductive == Spec => []Inv
BY InitInv, NextKeeps, PTL DEF Spec

(* What the last save published is what config.json holds, for every number *)
(* of save commands, loads and faults, as long as no live holder loses its  *)
(* lock to a waiter that found it stale (mod.rs:719, 734, 788).             *)
THEOREM SavedStays == Spec => []SavedLasts
<1>1. Inv => SavedLasts
  BY DEF Inv
<1> QED
  BY <1>1, Inductive, PTL

(* One call at a time is past acquire_lock with the lock in its hands, and  *)
(* the lock file is its own (mod.rs:597).                                   *)
THEOREM LockIsExclusive ==
    Spec => [](Unbroken => /\ \A t, u \in held : t = u
                           /\ \A t \in Tasks : pc[t] \in {"write", "rename"} => lock = t)
<1>1. Inv => (Unbroken => /\ \A t, u \in held : t = u
                          /\ \A t \in Tasks : pc[t] \in {"write", "rename"} => lock = t)
  BY DEF Inv, OneHolder, WritersHold
<1> QED
  BY <1>1, Inductive, PTL

-----------------------------------------------------------------------------
(***************************************************************************)
(* What the desktop has in memory.  The argument: a load, whoever makes    *)
(* it, writes back only what the file already loads as, since normalize is *)
(* idempotent; so only a save changes what the file loads as, and a save   *)
(* that did is followed by its apply, with no other save in between.       *)
(***************************************************************************)
Names   == Purposes \cup {"unknown"}
Prompts == {"", "old", "new"}
Files   == [form : {"absent", "corrupt", "object"},
            config : [purpose : Names, duration : Nat, prompt : Prompts, legacy : Prompts]]

(* load_from_path and normalize, on a configuration written out. *)
LEMMA LoadedSettings ==
    ASSUME NEW p, NEW d \in Nat, NEW t, NEW l
    PROVE  LoadedFrom(Settings(p, d, t, l))
             = Settings(p, IF d = 0 THEN MaxChunkBounds(p).default ELSE d, t, l)
<1>1. Settings(p, d, t, l).purpose = p /\ Settings(p, d, t, l).duration = d
  BY DEF Settings
<1>2. \A k : [Settings(p, d, t, l) EXCEPT !.duration = k] = Settings(p, k, t, l)
  BY DEF Settings
<1> QED
  BY <1>1, <1>2 DEF LoadedFrom

LEMMA MigratedAll ==
    ASSUME NEW p, NEW d, NEW t, NEW l
    PROVE  Migrated(Settings(p, d, t, l)) = Settings(p, d, IF t = "" THEN l ELSE t, "")
<1>1. CASE t = ""
  BY <1>1 DEF Settings, Migrated
<1>2. CASE t # ""
  BY <1>2, MigratedSettings
<1> QED
  BY <1>1, <1>2

(* A configuration normalize has nothing to do on. *)
Normal(c) ==
    \E p \in Purposes, d \in Nat \ {0}, t \in Prompts :
        d <= MaxChunkBounds(p).ceiling /\ c = Settings(p, d, t, "")

(* What is loaded of any configuration is normal ... *)
LEMMA LoadIsNormal ==
    ASSUME NEW p \in Names, NEW d \in Nat, NEW t \in Prompts, NEW l \in Prompts
    PROVE  Normal(Normalized(LoadedFrom(Settings(p, d, t, l))))
<1> DEFINE k == IF d = 0 THEN MaxChunkBounds(p).default ELSE d
           m == IF t = "" THEN l ELSE t
           q == IF p = "unknown" THEN "subtitles" ELSE p
           top == MaxChunkBounds(q).ceiling
           e == IF k > top THEN top ELSE k
<1>1. k \in Nat \ {0} /\ top \in Nat \ {0}
  BY DEF MaxChunkBounds
<1>2. m \in Prompts /\ q \in Purposes
  BY DEF Purposes, Names
<1>3. LoadedFrom(Settings(p, d, t, l)) = Settings(p, k, t, l)
  BY LoadedSettings
<1> HIDE DEF k, top
<1>4. Migrated(Settings(p, k, t, l)) = Settings(p, k, m, "")
  BY MigratedAll
<1> HIDE DEF m
<1>5. Purposeful(Settings(p, k, m, "")) = Settings(q, k, m, "")
  <2>1. CASE p = "unknown"
    BY <2>1, UnknownPurpose
  <2>2. CASE p # "unknown"
    BY <2>2, KnownPurpose DEF Names
  <2> QED
    BY <2>1, <2>2
<1> HIDE DEF q
<1>6. Clamped(Settings(q, k, m, "")) = Settings(q, e, m, "")
  <2>0. top = MaxChunkBounds(q).ceiling
    BY DEF top
  <2>1. CASE k > top
    <3>0. k > MaxChunkBounds(q).ceiling /\ k \in Nat
      BY <1>1, <2>0, <2>1
    <3>1. Clamped(Settings(q, k, m, "")) = Settings(q, MaxChunkBounds(q).ceiling, m, "")
      BY <3>0, AboveBounds
    <3>2. e = top
      BY <2>1
    <3> HIDE DEF e
    <3> QED
      BY <2>0, <3>1, <3>2, Zenon
  <2>2. CASE ~(k > top)
    <3>1. k <= MaxChunkBounds(q).ceiling /\ k \in Nat
      BY <1>1, <2>0, <2>2
    <3>2. Clamped(Settings(q, k, m, "")) = Settings(q, k, m, "")
      BY <3>1, WithinBounds
    <3>3. e = k
      BY <2>2
    <3> HIDE DEF e
    <3> QED
      BY <3>2, <3>3, Zenon
  <2> QED
    BY <2>1, <2>2
<1>7. e \in Nat \ {0} /\ e <= MaxChunkBounds(q).ceiling
  BY <1>1 DEF top
<1> HIDE DEF e
<1>8. Normalized(LoadedFrom(Settings(p, d, t, l))) = Settings(q, e, m, "")
  BY <1>3, <1>4, <1>5, <1>6 DEF Normalized
<1> QED
  BY <1>2, <1>7, <1>8 DEF Normal

(* ... and what is normal is loaded as it is. *)
LEMMA NormalStays ==
    ASSUME NEW c, Normal(c)
    PROVE  LoadedFrom(c) = c /\ Normalized(c) = c /\ File(c) \in Files /\ Loaded(File(c)) = c
<1>1. PICK p \in Purposes, d \in Nat \ {0}, t \in Prompts :
        d <= MaxChunkBounds(p).ceiling /\ c = Settings(p, d, t, "")
  BY DEF Normal
<1>2. LoadedFrom(c) = c
  BY <1>1, LoadedSettings
<1>3. Migrated(c) = c
  <2>1. Migrated(c) = Settings(p, d, IF t = "" THEN "" ELSE t, "")
    BY <1>1, MigratedAll
  <2>2. (IF t = "" THEN "" ELSE t) = t
    OBVIOUS
  <2> QED
    BY <1>1, <2>1, <2>2
<1>4. Purposeful(c) = c
  BY <1>1, KnownPurpose
<1>5. Clamped(c) = c
  BY <1>1, WithinBounds
<1>6. Normalized(c) = c
  BY <1>3, <1>4, <1>5 DEF Normalized
<1>7. c \in [purpose : Names, duration : Nat, prompt : Prompts, legacy : Prompts]
  BY <1>1 DEF Settings, Names, Prompts
<1>8. File(c) \in Files
  BY <1>7 DEF File, Files
<1>9. File(c).form = "object" /\ File(c).config = c
  BY DEF File
<1> QED
  BY <1>2, <1>6, <1>8, <1>9 DEF Loaded

(* The defaults are normal, and so is what a save writes. *)
LEMMA DefaultsNormal ==
    Normal(Default) /\ \A c \in Requested : Normal(c)
<1>1. Normal(Default)
  <2>1. Default = Settings("subtitles", 1, "", "")
    BY DEF Default, Settings
  <2>2. "subtitles" \in Purposes /\ 1 \in Nat \ {0} /\ "" \in Prompts /\ 1 <= MaxChunkBounds("subtitles").ceiling
    BY Ceilings DEF Purposes, Prompts
  <2> QED
    BY <2>1, <2>2 DEF Normal
<1>2. Normal(Settings("subtitles", 2, "new", ""))
  <2>1. "subtitles" \in Purposes /\ 2 \in Nat \ {0} /\ "new" \in Prompts /\ 2 <= MaxChunkBounds("subtitles").ceiling
    BY Ceilings DEF Purposes, Prompts
  <2> QED
    BY <2>1 DEF Normal
<1>3. Normal(Settings("transcription", 4, "new", ""))
  <2>1. "transcription" \in Purposes /\ 4 \in Nat \ {0} /\ "new" \in Prompts /\ 4 <= MaxChunkBounds("transcription").ceiling
    BY Ceilings DEF Purposes, Prompts
  <2> QED
    BY <2>1 DEF Normal
<1> QED
  BY <1>1, <1>2, <1>3 DEF Requested

(* A load is normal, so what it writes back is loaded as what it loaded. *)
LEMMA LoadIsIdempotent ==
    ASSUME NEW f \in Files
    PROVE  Normal(Loaded(f)) /\ File(Loaded(f)) \in Files /\ Loaded(File(Loaded(f))) = Loaded(f)
<1>1. Normal(Loaded(f))
  <2>1. CASE f.form = "object"
    <3> DEFINE c == f.config
    <3>1. c \in [purpose : Names, duration : Nat, prompt : Prompts, legacy : Prompts]
      BY DEF Files
    <3>2. c = Settings(c.purpose, c.duration, c.prompt, c.legacy)
      BY <3>1 DEF Settings
    <3>3. c.purpose \in Names /\ c.duration \in Nat /\ c.prompt \in Prompts /\ c.legacy \in Prompts
      BY <3>1
    <3> HIDE DEF c
    <3>4. Normal(Normalized(LoadedFrom(c)))
      BY <3>2, <3>3, LoadIsNormal
    <3> QED
      BY <2>1, <3>4 DEF Loaded, c
  <2>2. CASE f.form # "object"
    BY <2>2, DefaultsNormal DEF Loaded
  <2> QED
    BY <2>1, <2>2
<1> QED
  BY <1>1, NormalStays

(* No save command runs before the load of the desktop is back. *)
LaunchFirst ==
    /\ up => ~Busy("launch")
    /\ ~up => \A s \in Savers : ~Busy(s)
    /\ \A t \in Loads : pc[t] \notin {"refuse", "apply"}

OneSaver == \A s, t \in Savers : Busy(s) /\ Busy(t) => s = t

LoadsAgree ==
    /\ \A t \in Loads : pc[t] \in {"write", "rename"} => work[t] = Loaded(disk)
    /\ pc["launch"] \in {"create", "look", "break"} => work["launch"] = Default
    /\ pc["launch"] = "release" => work["launch"] \in {Default, Loaded(disk)}

SavedNotApplied(t) == pc[t] \in {"release", "apply"}

SaversAgree == \A t \in Savers : SavedNotApplied(t) => work[t] = Loaded(disk)

MemoryAgrees ==
    memory \in {Default, Loaded(disk)} \/ \E t \in Savers : SavedNotApplied(t)

Agreement ==
    broken = {} => disk \in Files /\ OneSaver /\ LoadsAgree /\ SaversAgree /\ MemoryAgrees

AgreementInv == LaunchFirst /\ Agreement

-----------------------------------------------------------------------------
LEMMA InitAgrees == Init => AgreementInv
<1> SUFFICES ASSUME Init PROVE AgreementInv
  OBVIOUS
<1>1. disk \in Files
  <2> DEFINE older == [purpose |-> "combined", duration |-> 0, prompt |-> "", legacy |-> "old"]
  <2>1. Default \in [purpose : Names, duration : Nat, prompt : Prompts, legacy : Prompts]
    BY DEF Default, Names, Purposes, Prompts
  <2>2. older \in [purpose : Names, duration : Nat, prompt : Prompts, legacy : Prompts]
    BY DEF Names, Purposes, Prompts
  <2>3. disk = NoFile \/ disk = Corrupt \/ disk = File(older)
    BY DEF Init, FoundFiles
  <2> HIDE DEF older
  <2> QED
    BY <2>1, <2>2, <2>3 DEF NoFile, Corrupt, File, Files
<1>2. \A t \in Tasks : pc[t] = "idle"
  BY DEF Init
<1>3. LaunchFirst /\ OneSaver /\ LoadsAgree /\ SaversAgree
  BY <1>2, NamesApart DEF LaunchFirst, OneSaver, LoadsAgree, SaversAgree, SavedNotApplied, Busy, Loads, Init
<1>4. MemoryAgrees
  BY DEF Init, MemoryAgrees
<1> QED
  BY <1>1, <1>3, <1>4 DEF AgreementInv, Agreement

(* A call goes on; nothing is written, loaded or applied. *)
LEMMA MovesAgree ==
    ASSUME Inv, AgreementInv, NEW t \in Tasks, NEW l, Goto(t, l),
           UNCHANGED <<disk, work, memory, up>>, broken' = {} => broken = {},
           pc[t] \notin {"idle", "release", "apply"},
           t \in Savers => l \notin {"release", "apply"},
           t \in Loads => /\ l \notin {"refuse", "apply"}
                          /\ l \in {"write", "rename"} => pc[t] = "write",
           l \in {"create", "look", "break"} => pc[t] \in {"create", "look", "break"},
           t \in Loads /\ l = "release" => pc[t] \in {"create", "write", "rename"}
    PROVE  AgreementInv'
<1> USE NamesApart
<1>0. pc' = [u \in Tasks |-> IF u = t THEN l ELSE pc[u]]
  BY DEF Inv, TypeOK, Goto
<1>1. LaunchFirst'
  BY <1>0 DEF AgreementInv, LaunchFirst, Busy, Loads
<1>2. ASSUME broken' = {} PROVE (disk \in Files /\ OneSaver /\ LoadsAgree /\ SaversAgree /\ MemoryAgrees)'
  <2>0. disk \in Files /\ OneSaver /\ LoadsAgree /\ SaversAgree /\ MemoryAgrees
    BY <1>2 DEF AgreementInv, Agreement
  <2>1. disk' \in Files
    BY <2>0
  <2>2. OneSaver'
    BY <1>0, <2>0 DEF OneSaver, Busy
  <2>3. LoadsAgree'
    BY <1>0, <2>0 DEF LoadsAgree, Loads
  <2>4. SaversAgree'
    BY <1>0, <2>0 DEF SaversAgree, SavedNotApplied
  <2>5. MemoryAgrees'
    BY <1>0, <2>0 DEF MemoryAgrees, SavedNotApplied
  <2> QED
    BY <2>1, <2>2, <2>3, <2>4, <2>5
<1> QED
  BY <1>1, <1>2 DEF AgreementInv, Agreement

LEMMA QuietAgrees ==
    ASSUME Inv, AgreementInv, NEW t \in Tasks,
           \/ Creates(t) \/ Exists(t) \/ CreateFails(t) \/ LooksStale(t)
           \/ LooksFresh(t) \/ Breaks(t) \/ Writes(t) \/ SaveFails(t)
    PROVE  AgreementInv'
<1> USE NamesApart DEF fileVars, callVars, appVars, counters, history
<1>1. CASE Creates(t)
  BY <1>1, MovesAgree DEF Creates, Acquired
<1>2. CASE Exists(t)
  BY <1>2, MovesAgree DEF Exists
<1>3. CASE CreateFails(t)
  BY <1>3, MovesAgree DEF CreateFails
<1>4. CASE LooksStale(t)
  BY <1>4, MovesAgree DEF LooksStale
<1>5. CASE LooksFresh(t)
  BY <1>5, MovesAgree DEF LooksFresh
<1>6. CASE Breaks(t)
  BY <1>6, MovesAgree DEF Breaks, Removed
<1>7. CASE Writes(t)
  BY <1>7, MovesAgree DEF Writes
<1>8. CASE SaveFails(t)
  BY <1>8, MovesAgree DEF SaveFails
<1> QED
  BY <1>1, <1>2, <1>3, <1>4, <1>5, <1>6, <1>7, <1>8

(* Time passes, for a waiter or for the lock file. *)
LEMMA WaitingAgrees ==
    ASSUME AgreementInv, UNCHANGED <<disk, pc, work, memory, up, broken>>
    PROVE  AgreementInv'
BY DEF AgreementInv, Agreement, LaunchFirst, OneSaver, LoadsAgree, SaversAgree,
       MemoryAgrees, SavedNotApplied, Busy

(* A save that finds another one under way is out of the property's reach; *)
(* one that comes alone finds memory and file agreeing.                    *)
LEMMA SaveCalledAgrees ==
    ASSUME Inv, AgreementInv, NEW t \in Savers, SaveCalled(t)
    PROVE  AgreementInv'
<1> USE NamesApart DEF fileVars, callVars, appVars, counters, history
<1>0. pc' = [u \in Tasks |-> IF u = t THEN "create" ELSE pc[u]]
  BY DEF Inv, TypeOK, SaveCalled, Called, Goto
<1>1. /\ up /\ up' = up /\ disk' = disk /\ memory' = memory
      /\ \A u \in Tasks : u # t => work'[u] = work[u]
  BY DEF Inv, TypeOK, SaveCalled, Called
<1>2. LaunchFirst'
  BY <1>0, <1>1 DEF AgreementInv, LaunchFirst, Busy, Loads
<1>3. ASSUME broken' = {} PROVE (disk \in Files /\ OneSaver /\ LoadsAgree /\ SaversAgree /\ MemoryAgrees)'
  <2>0. broken = {} /\ \A s \in Savers : ~Busy(s)
    BY <1>3 DEF SaveCalled
  <2>1. disk \in Files /\ LoadsAgree /\ MemoryAgrees
    BY <2>0 DEF AgreementInv, Agreement
  <2>2. disk' \in Files /\ OneSaver'
    BY <1>0, <1>1, <2>0, <2>1 DEF OneSaver, Busy
  <2>3. LoadsAgree'
    BY <1>0, <1>1, <2>1 DEF LoadsAgree, Loads
  <2>4. SaversAgree'
    BY <1>0, <2>0 DEF SaversAgree, SavedNotApplied, Busy
  <2>5. MemoryAgrees'
    BY <1>1, <2>0, <2>1 DEF MemoryAgrees, SavedNotApplied, Busy
  <2> QED
    BY <2>2, <2>3, <2>4, <2>5
<1> QED
  BY <1>2, <1>3 DEF AgreementInv, Agreement

LEMMA LoadCalledAgrees ==
    ASSUME Inv, AgreementInv, NEW t \in Loads, LoadCalled(t)
    PROVE  AgreementInv'
<1> USE NamesApart DEF fileVars, callVars, appVars, counters, history
<1>0. pc' = [u \in Tasks |-> IF u = t THEN "create" ELSE pc[u]]
  BY DEF Inv, TypeOK, LoadCalled, Called, Goto
<1>1. /\ UNCHANGED <<disk, memory, up, broken>> /\ (t = "launch" => ~up)
      /\ work' = [u \in Tasks |-> IF u = t THEN Default ELSE work[u]]
  BY DEF Inv, TypeOK, LoadCalled, Called
<1>2. LaunchFirst'
  BY <1>0, <1>1 DEF AgreementInv, LaunchFirst, Busy, Loads
<1>3. ASSUME broken' = {} PROVE (disk \in Files /\ OneSaver /\ LoadsAgree /\ SaversAgree /\ MemoryAgrees)'
  <2>1. disk \in Files /\ OneSaver /\ LoadsAgree /\ SaversAgree /\ MemoryAgrees
    BY <1>1, <1>3 DEF AgreementInv, Agreement
  <2>2. disk' \in Files /\ OneSaver'
    BY <1>0, <1>1, <2>1 DEF OneSaver, Busy
  <2>3. LoadsAgree'
    BY <1>0, <1>1, <2>1 DEF LoadsAgree, Loads
  <2>4. SaversAgree'
    BY <1>0, <1>1, <2>1 DEF SaversAgree, SavedNotApplied
  <2>5. MemoryAgrees'
    BY <1>0, <1>1, <2>1 DEF MemoryAgrees, SavedNotApplied
  <2> QED
    BY <2>2, <2>3, <2>4, <2>5
<1> QED
  BY <1>2, <1>3 DEF AgreementInv, Agreement

(* Only a load reads; what it returns is what the file loads as. *)
LEMMA ReadsAgrees ==
    ASSUME Inv, AgreementInv, NEW t \in Tasks, Reads(t)
    PROVE  AgreementInv'
<1> USE NamesApart DEF fileVars, callVars, appVars, counters, history
<1>0. PICK l \in {"write", "release"} : pc' = [u \in Tasks |-> IF u = t THEN l ELSE pc[u]]
  BY DEF Inv, TypeOK, Reads, Goto
<1>1. /\ UNCHANGED <<disk, memory, up, broken>> /\ pc[t] = "read"
      /\ work' = [u \in Tasks |-> IF u = t THEN Loaded(disk) ELSE work[u]]
  BY DEF Inv, TypeOK, Reads
<1>2. t \in Loads
  BY <1>1 DEF Inv, SaversSave
<1>3. LaunchFirst'
  BY <1>0, <1>1, <1>2 DEF AgreementInv, LaunchFirst, Busy, Loads
<1>4. ASSUME broken' = {} PROVE (disk \in Files /\ OneSaver /\ LoadsAgree /\ SaversAgree /\ MemoryAgrees)'
  <2>1. disk \in Files /\ OneSaver /\ LoadsAgree /\ SaversAgree /\ MemoryAgrees
    BY <1>1, <1>4 DEF AgreementInv, Agreement
  <2>2. disk' \in Files /\ OneSaver'
    BY <1>0, <1>1, <1>2, <2>1 DEF OneSaver, Busy
  <2>3. LoadsAgree'
    BY <1>0, <1>1, <2>1 DEF LoadsAgree, Loads
  <2>4. SaversAgree'
    BY <1>0, <1>1, <1>2, <2>1 DEF SaversAgree, SavedNotApplied
  <2>5. MemoryAgrees'
    BY <1>0, <1>1, <1>2, <2>1 DEF MemoryAgrees, SavedNotApplied
  <2> QED
    BY <2>2, <2>3, <2>4, <2>5
<1> QED
  BY <1>3, <1>4 DEF AgreementInv, Agreement

(* A load writes back what the file loads as already; a save is alone: no  *)
(* other is under way, the load of the desktop is back, and no visitor is  *)
(* past acquire_lock.                                                      *)
LEMMA RenamesAgrees ==
    ASSUME Inv, AgreementInv, NEW t \in Tasks, Renames(t)
    PROVE  AgreementInv'
<1> USE NamesApart DEF fileVars, callVars, appVars, counters, history
<1>0. pc' = [u \in Tasks |-> IF u = t THEN "release" ELSE pc[u]] /\ pc[t] = "rename"
  BY DEF Inv, TypeOK, Renames, Goto
<1>1. UNCHANGED <<memory, up, broken, work>> /\ disk' = File(work[t])
  BY DEF Renames
<1>2. LaunchFirst'
  BY <1>0, <1>1 DEF AgreementInv, LaunchFirst, Busy, Loads
<1>3. ASSUME broken' = {} PROVE (disk \in Files /\ OneSaver /\ LoadsAgree /\ SaversAgree /\ MemoryAgrees)'
  <2>1. disk \in Files /\ OneSaver /\ LoadsAgree /\ SaversAgree /\ MemoryAgrees
    BY <1>1, <1>3 DEF AgreementInv, Agreement
  <2>2. OneSaver'
    BY <1>0, <2>1 DEF OneSaver, Busy
  <2>3. CASE t \in Loads
    <3>1. work[t] = Loaded(disk)
      BY <1>0, <2>1, <2>3 DEF LoadsAgree
    <3>2. disk' \in Files /\ Loaded(disk') = Loaded(disk)
      BY <1>1, <2>1, <3>1, LoadIsIdempotent
    <3>3. LoadsAgree'
      BY <1>0, <1>1, <2>1, <3>1, <3>2 DEF LoadsAgree, Loads
    <3>4. SaversAgree'
      BY <1>0, <1>1, <2>1, <2>3, <3>2 DEF SaversAgree, SavedNotApplied
    <3>5. MemoryAgrees'
      BY <1>0, <1>1, <2>1, <2>3, <3>2 DEF MemoryAgrees, SavedNotApplied
    <3> QED
      BY <2>2, <3>2, <3>3, <3>4, <3>5
  <2>4. CASE t \in Savers
    <3>1. work[t] \in Requested
      BY <1>0, <2>4 DEF Inv, SaversSave
    <3>2. disk' \in Files /\ Loaded(disk') = work[t]
      BY <1>1, <3>1, DefaultsNormal, NormalStays
    <3>3. ~Busy("launch")
      BY <1>0, <2>4 DEF AgreementInv, LaunchFirst, Busy
    <3>4. pc["visitor"] \notin {"write", "rename"}
      <4>1. "lock" \notin broken
        BY <1>1, <1>3
      <4>2. t # "visitor" /\ "visitor" \in Tasks
        BY <2>4 DEF Loads
      <4> QED
        BY <1>0, <4>1, <4>2 DEF Inv, OneHolder, WritersHold, Unbroken
    <3>5. LoadsAgree'
      BY <1>0, <2>4, <3>3, <3>4 DEF LoadsAgree, Loads, Busy
    <3>6. SaversAgree'
      BY <1>0, <1>1, <2>1, <2>4, <3>2 DEF SaversAgree, SavedNotApplied, OneSaver, Busy
    <3>7. MemoryAgrees'
      BY <1>0, <2>4 DEF MemoryAgrees, SavedNotApplied
    <3> QED
      BY <2>2, <3>2, <3>5, <3>6, <3>7
  <2> QED
    BY <2>3, <2>4
<1> QED
  BY <1>2, <1>3 DEF AgreementInv, Agreement

LEMMA ReleasesAgrees ==
    ASSUME Inv, AgreementInv, NEW t \in Tasks, Releases(t)
    PROVE  AgreementInv'
<1> USE NamesApart DEF fileVars, callVars, appVars, counters, history
<1> DEFINE l == IF t \in Savers /\ pc[t] = "release" THEN "apply" ELSE "idle"
<1>0. pc' = [u \in Tasks |-> IF u = t THEN l ELSE pc[u]] /\ pc[t] \in {"release", "refuse"}
  BY DEF Inv, TypeOK, Releases, Goto
<1>1. UNCHANGED <<disk, work>> /\ (broken' = {} => broken = {})
  BY DEF Releases, Removed
<1>2. IF t = "launch" THEN memory' = work[t] /\ up' = TRUE ELSE UNCHANGED <<memory, up>>
  BY DEF Releases
<1>3. LaunchFirst'
  BY <1>0, <1>2 DEF AgreementInv, LaunchFirst, Busy, Loads
<1>4. ASSUME broken' = {} PROVE (disk \in Files /\ OneSaver /\ LoadsAgree /\ SaversAgree /\ MemoryAgrees)'
  <2>1. disk \in Files /\ OneSaver /\ LoadsAgree /\ SaversAgree /\ MemoryAgrees
    BY <1>1, <1>4 DEF AgreementInv, Agreement
  <2>2. disk' \in Files /\ OneSaver'
    BY <1>0, <1>1, <2>1 DEF OneSaver, Busy
  <2>3. LoadsAgree'
    BY <1>0, <1>1, <2>1 DEF LoadsAgree, Loads
  <2>4. SaversAgree'
    BY <1>0, <1>1, <2>1 DEF SaversAgree, SavedNotApplied
  <2>5. MemoryAgrees'
    <3>1. CASE t = "launch"
      <4>1. pc["launch"] = "release"
        BY <1>0, <3>1 DEF AgreementInv, LaunchFirst, Loads
      <4> QED
        BY <1>1, <1>2, <2>1, <3>1, <4>1 DEF LoadsAgree, MemoryAgrees
    <3>2. CASE t # "launch"
      BY <1>0, <1>1, <1>2, <2>1, <3>2 DEF MemoryAgrees, SavedNotApplied
    <3> QED
      BY <3>1, <3>2
  <2> QED
    BY <2>2, <2>3, <2>4, <2>5
<1> QED
  BY <1>3, <1>4 DEF AgreementInv, Agreement

LEMMA AppliesAgrees ==
    ASSUME Inv, AgreementInv, NEW t \in Tasks, Applies(t)
    PROVE  AgreementInv'
<1> USE NamesApart DEF fileVars, callVars, appVars, counters, history
<1>0. pc' = [u \in Tasks |-> IF u = t THEN "idle" ELSE pc[u]] /\ pc[t] = "apply"
  BY DEF Inv, TypeOK, Applies, Goto
<1>1. UNCHANGED <<disk, work, up, broken>> /\ memory' = work[t]
  BY DEF Applies
<1>2. t \in Savers
  BY <1>0 DEF AgreementInv, LaunchFirst
<1>3. LaunchFirst'
  BY <1>0, <1>1 DEF AgreementInv, LaunchFirst, Busy, Loads
<1>4. ASSUME broken' = {} PROVE (disk \in Files /\ OneSaver /\ LoadsAgree /\ SaversAgree /\ MemoryAgrees)'
  <2>1. disk \in Files /\ OneSaver /\ LoadsAgree /\ SaversAgree /\ MemoryAgrees
    BY <1>1, <1>4 DEF AgreementInv, Agreement
  <2>2. disk' \in Files /\ OneSaver'
    BY <1>0, <1>1, <2>1 DEF OneSaver, Busy
  <2>3. LoadsAgree'
    BY <1>0, <1>1, <1>2, <2>1 DEF LoadsAgree, Loads
  <2>4. SaversAgree'
    BY <1>0, <1>1, <2>1 DEF SaversAgree, SavedNotApplied
  <2>5. MemoryAgrees'
    BY <1>0, <1>1, <1>2, <2>1 DEF MemoryAgrees, SaversAgree, SavedNotApplied
  <2> QED
    BY <2>2, <2>3, <2>4, <2>5
<1> QED
  BY <1>3, <1>4 DEF AgreementInv, Agreement

(* A crash of the desktop takes its calls and its memory with it. *)
LEMMA CrashesAgrees ==
    ASSUME Inv, AgreementInv, NEW tasks \in {Desktop, {"visitor"}}, Crashes(tasks)
    PROVE  AgreementInv'
<1> USE NamesApart DEF fileVars, callVars, appVars, counters, history
<1>0. pc' = [u \in Tasks |-> IF u \in tasks THEN "idle" ELSE pc[u]]
  BY DEF Crashes
<1>1. UNCHANGED <<disk, work, broken>>
  BY DEF Crashes
<1>2. IF tasks = Desktop THEN up' = FALSE /\ memory' = Default ELSE UNCHANGED <<memory, up>>
  BY DEF Crashes
<1>3. /\ "launch" \in Tasks /\ "visitor" \in Tasks /\ "visitor" \notin Savers
      /\ "launch" \in Desktop /\ Savers \subseteq Desktop /\ {"visitor"} # Desktop
  BY DEF Desktop, Loads
<1>4. CASE tasks = Desktop
  <2>1. LaunchFirst'
    BY <1>0, <1>2, <1>3, <1>4 DEF AgreementInv, LaunchFirst, Busy, Loads
  <2>2. ASSUME broken' = {} PROVE (disk \in Files /\ OneSaver /\ LoadsAgree /\ SaversAgree /\ MemoryAgrees)'
    <3>1. disk \in Files /\ LoadsAgree
      BY <1>1, <2>2 DEF AgreementInv, Agreement
    <3>2. disk' \in Files /\ OneSaver' /\ SaversAgree'
      BY <1>0, <1>1, <1>3, <1>4, <3>1 DEF OneSaver, Busy, SaversAgree, SavedNotApplied
    <3>3. LoadsAgree'
      BY <1>0, <1>1, <1>3, <1>4, <3>1 DEF LoadsAgree, Loads
    <3>4. MemoryAgrees'
      BY <1>2, <1>4 DEF MemoryAgrees
    <3> QED
      BY <3>2, <3>3, <3>4
  <2> QED
    BY <2>1, <2>2 DEF AgreementInv, Agreement
<1>5. CASE tasks = {"visitor"}
  <2>0. UNCHANGED <<memory, up>> /\ \A u \in Tasks : u # "visitor" => pc'[u] = pc[u]
    BY <1>0, <1>2, <1>3, <1>5
  <2>1. LaunchFirst'
    BY <1>0, <1>3, <1>5, <2>0 DEF AgreementInv, LaunchFirst, Busy, Loads
  <2>2. ASSUME broken' = {} PROVE (disk \in Files /\ OneSaver /\ LoadsAgree /\ SaversAgree /\ MemoryAgrees)'
    <3>1. disk \in Files /\ OneSaver /\ LoadsAgree /\ SaversAgree /\ MemoryAgrees
      BY <1>1, <2>2 DEF AgreementInv, Agreement
    <3>2. disk' \in Files /\ OneSaver' /\ SaversAgree'
      BY <1>1, <1>3, <2>0, <3>1 DEF OneSaver, Busy, SaversAgree, SavedNotApplied
    <3>3. LoadsAgree'
      BY <1>0, <1>1, <1>3, <1>5, <2>0, <3>1 DEF LoadsAgree, Loads
    <3>4. MemoryAgrees'
      BY <1>1, <1>3, <2>0, <3>1 DEF MemoryAgrees, SavedNotApplied
    <3> QED
      BY <3>2, <3>3, <3>4
  <2> QED
    BY <2>1, <2>2 DEF AgreementInv, Agreement
<1> QED
  BY <1>4, <1>5

LEMMA NextAgrees == Inv /\ AgreementInv /\ [Next]_vars => AgreementInv'
<1> SUFFICES ASSUME Inv, AgreementInv, [Next]_vars PROVE AgreementInv'
  OBVIOUS
<1>1. CASE UNCHANGED vars
  BY <1>1, WaitingAgrees DEF vars, fileVars, callVars, appVars, counters, history
<1>2. ASSUME NEW t \in Savers, SaveCalled(t) PROVE AgreementInv'
  BY <1>2, SaveCalledAgrees
<1>3. ASSUME NEW t \in Loads, LoadCalled(t) PROVE AgreementInv'
  BY <1>3, LoadCalledAgrees
<1>4. ASSUME NEW t \in Tasks, Step(t) \/ CreateFails(t) \/ SaveFails(t) PROVE AgreementInv'
  BY <1>4, QuietAgrees, ReadsAgrees, RenamesAgrees, ReleasesAgrees, AppliesAgrees DEF Step
<1>5. ASSUME NEW t \in Tasks, TimesOut(t) PROVE AgreementInv'
  BY <1>5, WaitingAgrees DEF TimesOut, fileVars, callVars, appVars, counters, history
<1>6. CASE Crashes(Desktop) \/ Crashes({"visitor"})
  BY <1>6, CrashesAgrees
<1>7. CASE AgesDead \/ AgesHeld
  BY <1>7, WaitingAgrees DEF AgesDead, AgesHeld, fileVars, callVars, appVars, counters, history
<1> QED
  BY <1>1, <1>2, <1>3, <1>4, <1>5, <1>6, <1>7 DEF Next

(* What the desktop has in memory is what the file loads as, or the        *)
(* defaults, unless a saved configuration waits to be applied              *)
(* (commands.rs:350, lib.rs:40).                                           *)
THEOREM MemoryFollowsDisk == Spec => []AgreementInv
BY InitAgrees, NextAgrees, Inductive, PTL DEF Spec

(* At rest the desktop has the settings its next launch would load, or the *)
(* defaults it fell back to, for every number of save commands, loads of   *)
(* any program, crashes and failures, if its saves came one by one and no  *)
(* live holder lost its lock.                                              *)
THEOREM DesktopAgrees == Spec => []AgreesWithDisk
<1>1. AgreementInv => AgreesWithDisk
  BY NamesApart DEF AgreementInv, Agreement, AgreesWithDisk, MemoryAgrees, SavedNotApplied,
     Busy, Desktop, Loads
<1> QED
  BY <1>1, MemoryFollowsDisk, PTL
=============================================================================
