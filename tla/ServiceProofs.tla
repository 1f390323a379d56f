---------------------------- MODULE ServiceProofs ----------------------------
(***************************************************************************)
(* Proofs about Service: the desktop's pipeline and the headless one never *)
(* overlap, and a call that returns leaves nothing of a service that does  *)
(* not run, for every number of commands, launches and faults.             *)
(*                                                                         *)
(* The argument: byte 0 of the lock file has one holder; the desktop is it *)
(* in every step of a start or stop that may find a part of the service in *)
(* place, and between calls while the service runs; and which parts those  *)
(* are is known at each step, so that every way out of it undoes them all. *)
(***************************************************************************)
EXTENDS Service, TLAPS

USE ServiceAssumption
USE DEF owner, cliVars, others, vars

(***************************************************************************)
(* The inductive invariant.                                                *)
(***************************************************************************)

Kinds == Commands \cup {"exit", "watch"}

Provisioning == {"sync", "publish", "swap"}

(* Before the service's parts are made, or after they are gone. *)
Entering == {"acquire", "keep", "refused"}
Working == {"load", "preflight", "ws", "handshake", "reap", "undo", "capture", "vad",
            "rollback", "giveback", "join", "stopworker", "stopserver"}
Launching == {"capture", "vad", "rollback"}

Steps == {"begin"} \cup Entering \cup Provisioning \cup Working

Desktop == [running : BOOLEAN,
            asr : {"stopped", "starting", "listening", "reported", "stopping", "error"},
            ws : BOOLEAN, created : BOOLEAN, worker : {"none", "up", "stray", "shared"},
            startup : BOOLEAN, event : BOOLEAN, audio : BOOLEAN, capture : BOOLEAN,
            sink : BOOLEAN, cancelled : BOOLEAN, stop : {"ok", "failed"}]

Token == {"none", "live", "cancelled"}

(* What the call in turn keeps in records. *)
Records ==
    /\ p \in Desktop
    /\ tokens \in [startup : Token, setup : Token]
    /\ runtime \in [root : {"absent", "ready", "aside"}, staged : BOOLEAN, stranded : BOOLEAN]

TypeOK ==
    /\ Records
    /\ turn \in Seq(Kinds) /\ step \in Steps
    /\ lock \in {"free", "desktop", "cli"} \cup Probers
    /\ mine \in BOOLEAN /\ unlocked \in BOOLEAN /\ foreign \in BOOLEAN
    /\ probe \in [Probers -> {"no", "check", "look", "held", "nobody", "taken"}]
    /\ watch \in {"launch", "asleep", "poll", "starting", "retry", "again"}
    /\ app \in {"up", "exiting", "gone"}
    /\ cli \in {"off", "loading", "serving", "stopped"}
    /\ calls \in Nat /\ launches \in Nat /\ faults \in Nat

(* Between two calls no step, token or question is left over. *)
OneCall ==
    /\ turn = <<>> => step = "begin"
    /\ step = "begin" => tokens = NoTokens
    /\ step \in Entering \cup Working => Head(turn) # "prepare"
    /\ probe["call"] # "no" => step = "refused"
    /\ app = "gone" => turn = <<>> /\ probe["watch"] = "no" /\ watch = "asleep"

(* The service is at work in the steps of a start or a stop that hold the lock, *)
(* and between calls while it runs.                                             *)
Preparing == step \in Provisioning /\ Head(turn) = "prepare"
AtRest == (step = "begin" /\ ~p.running) \/ step \in Entering \/ Preparing
Up == step = "begin" /\ p.running

(* Byte 0 has one holder, and the desktop keeps it while its service is at work. *)
LockInv ==
    /\ lock = "desktop" <=> mine \/ step = "keep"
    /\ lock = "cli" <=> cli # "off"
    /\ \A a \in Probers : probe[a] = "taken" => lock = a
    /\ AtRest <=> ~mine /\ ~unlocked

(* Which parts can be there at which step. *)
PartsInv ==
    /\ p.running => step \in {"begin"} \cup Launching
    /\ step \in Launching => p.running
    /\ p.startup => step = "handshake"
    /\ p.event => Up \/ step \in Launching \cup {"join"}
    /\ p.audio \/ p.sink => Up \/ step = "join"
    /\ p.capture => p.audio \/ step = "vad"
    /\ p.worker \in {"up", "shared"} =>
           Up \/ step \in Launching \cup {"handshake", "reap", "join", "stopworker"}
    /\ p.ws => Up \/ step \in {"join", "stopworker", "stopserver"}
                  \/ (step \in Launching \cup {"handshake", "reap", "undo"} /\ p.created)
    /\ AtRest \/ step \in {"load", "giveback"} => p.asr \in {"stopped", "error"}

(* A runtime is staged only in the steps that put it in place; and aside, unless *)
(* moving it back has failed.                                                    *)
RuntimeInv ==
    app # "gone" =>
        /\ runtime.staged => step \in Provisioning
        /\ runtime.root = "aside" => step = "swap" \/ runtime.stranded

(* A headless process that has left run_service without failing has left its server. *)
HeadlessInv ==
    /\ leaving \subseteq [failed : BOOLEAN, parts : SUBSET Parts]
    /\ \A left \in leaving : left.failed \/ left.parts \subseteq {"server"}

IInv == TypeOK /\ OneCall /\ LockInv /\ PartsInv /\ RuntimeInv /\ HeadlessInv

(***************************************************************************)
(* The steps, by what they belong to.                                      *)
(***************************************************************************)

Outcomes == {"none", "stray"}

(* The start up to the lock. *)
Enters ==
    \/ AlreadyRunning \/ StartBegins \/ Locks \/ KeepsLock \/ LockUnavailable \/ Refused
    \/ RefusedReturns

(* The managed runtime. *)
Provisions ==
    \/ PrepareBegins \/ PrepareRefused \/ Syncs \/ SyncFails \/ MovesAside \/ Publishes
    \/ PublishFails \/ SwapFails

(* The start under the lock. *)
StartsUp ==
    \/ Loads \/ LoadFails \/ Preflight \/ PreflightFails \/ ServerReady
    \/ HandshakeReady \/ HandshakeFails \/ Undoes \/ CaptureOpens \/ AudioStartFails
    \/ Starts \/ StartFails
    \/ \E bound \in BOOLEAN : ServerFails(bound)
    \/ \E outcome \in Outcomes : ReapsWorker(outcome)
    \/ \E outcome \in Outcomes : RollsBack(outcome)

(* The stop. *)
Ends ==
    \/ NotRunning \/ StopBegins \/ TasksJoined \/ StopsServer
    \/ \E outcome \in Outcomes : StopsWorker(outcome)

(* What runs beside the call in turn: the service's tasks ... *)
Tasks ==
    \/ EventTaskEnds \/ AudioTaskEnds \/ WorkerReports

(* ... the user, the watch, the exit and the headless service. *)
Meanwhile ==
    \/ CancelSetup \/ ExitRequested \/ AppLeaves \/ WatchPolls \/ WatchRetries
    \/ CliLaunches \/ CliGoesOn \/ CliReturns \/ CliFails \/ CliEnds
    \/ \E k \in Commands : UserCalls(k)
    \/ \E a \in Probers : Probing(a)

(***************************************************************************)
(* Lemmas.                                                                 *)
(***************************************************************************)

(* Who waits comes after whoever has the turn. *)
LEMMA Waiting ==
    ASSUME NEW s \in Seq(Kinds), NEW k \in Kinds
    PROVE  /\ Append(s, k) \in Seq(Kinds) /\ Append(s, k) # <<>>
           /\ s # <<>> => /\ Head(s) \in Kinds /\ Tail(s) \in Seq(Kinds)
                         /\ Head(Append(s, k)) = Head(s)
<1>1. Append(s, k) \in Seq(Kinds) /\ Append(s, k) # <<>>
  OBVIOUS
<1>2. s # <<>> => Head(s) \in Kinds /\ Tail(s) \in Seq(Kinds)
  OBVIOUS
<1>3. s # <<>> => Head(Append(s, k)) = Head(s)
  OBVIOUS
<1> QED BY <1>1, <1>2, <1>3

(* Stops that change two or more parts at once. *)
LEMMA SeveralParts ==
    ASSUME NEW q \in Desktop, NEW w \in {"none", "stray", "shared"}, NEW b \in BOOLEAN
    PROVE  /\ [q EXCEPT !.sink = FALSE, !.stop = "failed"] \in Desktop
           /\ [q EXCEPT !.worker = w, !.ws = b, !.sink = FALSE,
                        !.running = FALSE, !.asr = "stopped"] \in Desktop
<1>1. [q EXCEPT !.sink = FALSE, !.stop = "failed"] \in Desktop
  BY DEF Desktop
<1>2. [q EXCEPT !.worker = w, !.ws = b, !.sink = FALSE,
               !.running = FALSE, !.asr = "stopped"] \in Desktop
  BY DEF Desktop
<1> QED BY <1>1, <1>2

(* What an answer to a probe changes. *)
LEMMA AnswersTyped ==
    ASSUME TypeOK, NEW a \in Probers, NEW held \in BOOLEAN, Answers(a, held)
    PROVE  /\ turn' \in Seq(Kinds) /\ foreign' \in BOOLEAN
           /\ probe' \in [Probers -> {"no", "check", "look", "held", "nobody", "taken"}]
           /\ watch' \in {"launch", "asleep", "poll", "starting", "retry", "again"}
<1>1. turn' \in Seq(Kinds)
  BY Waiting DEF TypeOK, Answers, Kinds
<1>2. foreign' \in BOOLEAN /\ watch' \in {"launch", "asleep", "poll", "starting", "retry", "again"}
  BY DEF TypeOK, Answers
<1>3. probe' \in [Probers -> {"no", "check", "look", "held", "nobody", "taken"}]
  BY DEF TypeOK, Answers
<1> QED BY <1>1, <1>2, <1>3

(* Every step is of one of the groups. *)
LEMMA StepsGrouped == Next => Enters \/ Provisions \/ StartsUp \/ Ends \/ Tasks \/ Meanwhile
  BY DEF Next, CallStep, TaskStep, Enters, Provisions, StartsUp, Ends, Tasks, Meanwhile,
     Outcomes

(* The start up to the lock: the records, the other types, the rest of the invariant. *)
LEMMA EntersRecords ==
    ASSUME TypeOK, Enters
    PROVE  Records'
<1> USE DEF TypeOK, Records, Desktop, Token, NoTokens, Return, Go
<1>1. CASE AlreadyRunning
  BY <1>1 DEF AlreadyRunning
<1>2. CASE StartBegins
  BY <1>2 DEF StartBegins
<1>3. CASE Locks
  BY <1>3 DEF Locks
<1>4. CASE KeepsLock
  BY <1>4 DEF KeepsLock
<1>5. CASE LockUnavailable
  BY <1>5 DEF LockUnavailable
<1>6. CASE Refused
  BY <1>6 DEF Refused
<1>7. CASE RefusedReturns
  BY <1>7 DEF RefusedReturns
<1> QED BY <1>1, <1>2, <1>3, <1>4, <1>5, <1>6, <1>7 DEF Enters

LEMMA EntersTyped ==
    ASSUME TypeOK, Enters
    PROVE  TypeOK'
<1> USE Waiting DEF TypeOK, Kinds, Steps, Entering, Provisioning, Working, Launching,
    Commands, Probers, Go, At, Holds, Fails, Return
<1> Records'
  BY EntersRecords
<1>1. CASE AlreadyRunning
  BY <1>1 DEF AlreadyRunning
<1>2. CASE StartBegins
  BY <1>2 DEF StartBegins
<1>3. CASE Locks
  BY <1>3 DEF Locks
<1>4. CASE KeepsLock
  BY <1>4 DEF KeepsLock
<1>5. CASE LockUnavailable
  BY <1>5 DEF LockUnavailable
<1>6. CASE Refused
  BY <1>6 DEF Refused
<1>7. CASE RefusedReturns
  BY <1>7 DEF RefusedReturns
<1> QED BY <1>1, <1>2, <1>3, <1>4, <1>5, <1>6, <1>7 DEF Enters

LEMMA EntersKeeps ==
    ASSUME IInv, Enters
    PROVE  OneCall' /\ LockInv' /\ PartsInv' /\ RuntimeInv'
<1> USE Waiting DEF IInv, OneCall, LockInv, PartsInv, RuntimeInv, Preparing, AtRest, Up,
    Starters, TypeOK, Records, Desktop, Token, NoTokens, Kinds, Steps, Entering,
    Provisioning, Working, Launching, Commands, Probers, Go, At, Holds, Fails, Return
<1>1. CASE AlreadyRunning
  BY <1>1 DEF AlreadyRunning
<1>2. CASE StartBegins
  BY <1>2 DEF StartBegins
<1>3. CASE Locks
  BY <1>3 DEF Locks
<1>4. CASE KeepsLock
  BY <1>4 DEF KeepsLock
<1>5. CASE LockUnavailable
  BY <1>5 DEF LockUnavailable
<1>6. CASE Refused
  BY <1>6 DEF Refused
<1>7. CASE RefusedReturns
  BY <1>7 DEF RefusedReturns
<1> QED BY <1>1, <1>2, <1>3, <1>4, <1>5, <1>6, <1>7 DEF Enters

(* The managed runtime: the records, the other types, the rest of the invariant. *)
LEMMA ProvisionsRecords ==
    ASSUME TypeOK, Provisions
    PROVE  Records'
<1> USE DEF TypeOK, Records, Desktop, Token, NoTokens, NotProvisioned, Provisioned, Return,
    Go
<1>1. CASE PrepareBegins
  <2>1. p' \in Desktop
    BY <1>1 DEF PrepareBegins
  <2>2. tokens' \in [startup : Token, setup : Token]
    BY <1>1 DEF PrepareBegins
  <2>3. runtime' \in [root : {"absent", "ready", "aside"}, staged : BOOLEAN, stranded : BOOLEAN]
    BY <1>1 DEF PrepareBegins
  <2> QED BY <2>1, <2>2, <2>3
<1>2. CASE PrepareRefused
  BY <1>2 DEF PrepareRefused
<1>3. CASE Syncs
  BY <1>3 DEF Syncs
<1>4. CASE SyncFails
  <2>1. p' \in Desktop
    BY <1>4 DEF SyncFails
  <2>2. tokens' \in [startup : Token, setup : Token]
    BY <1>4 DEF SyncFails
  <2>3. runtime' \in [root : {"absent", "ready", "aside"}, staged : BOOLEAN, stranded : BOOLEAN]
    BY <1>4 DEF SyncFails
  <2> QED BY <2>1, <2>2, <2>3
<1>5. CASE MovesAside
  BY <1>5 DEF MovesAside
<1>6. CASE Publishes
  BY <1>6 DEF Publishes
<1>7. CASE PublishFails
  <2>1. p' \in Desktop
    BY <1>7 DEF PublishFails
  <2>2. tokens' \in [startup : Token, setup : Token]
    BY <1>7 DEF PublishFails
  <2>3. runtime' \in [root : {"absent", "ready", "aside"}, staged : BOOLEAN, stranded : BOOLEAN]
    BY <1>7 DEF PublishFails
  <2> QED BY <2>1, <2>2, <2>3
<1>8. CASE SwapFails
  <2>1. p' \in Desktop
    BY <1>8 DEF SwapFails
  <2>2. tokens' \in [startup : Token, setup : Token]
    BY <1>8 DEF SwapFails
  <2>3. runtime' \in [root : {"absent", "ready", "aside"}, staged : BOOLEAN, stranded : BOOLEAN]
    BY <1>8 DEF SwapFails
  <2> QED BY <2>1, <2>2, <2>3
<1> QED BY <1>1, <1>2, <1>3, <1>4, <1>5, <1>6, <1>7, <1>8 DEF Provisions

LEMMA ProvisionsTyped ==
    ASSUME TypeOK, Provisions
    PROVE  TypeOK'
<1> USE Waiting DEF TypeOK, Kinds, Steps, Entering, Provisioning, Working, Launching,
    Commands, Probers, Go, At, Holds, Succeeds, Fails, Return, NotProvisioned, Provisioned
<1> Records'
  BY ProvisionsRecords
<1>1. CASE PrepareBegins
  BY <1>1 DEF PrepareBegins
<1>2. CASE PrepareRefused
  BY <1>2 DEF PrepareRefused
<1>3. CASE Syncs
  BY <1>3 DEF Syncs
<1>4. CASE SyncFails
  <2>1. CASE Head(turn) = "prepare"
    <3>1. turn' \in Seq(Kinds) /\ step' = "begin" /\ watch' = watch
      BY <1>4, <2>1 DEF SyncFails
    <3>2. UNCHANGED <<foreign, probe, app, cliVars, calls, launches, owner>> /\ faults' \in Nat
      BY <1>4, <2>1 DEF SyncFails
    <3> QED BY <3>1, <3>2
  <2>2. CASE ~(Head(turn) = "prepare")
    BY <1>4, <2>2 DEF SyncFails
  <2> QED BY <2>1, <2>2
<1>5. CASE MovesAside
  BY <1>5 DEF MovesAside
<1>6. CASE Publishes
  <2>1. CASE Head(turn) = "prepare"
    <3>1. turn' \in Seq(Kinds) /\ step' = "begin" /\ watch' = watch
      BY <1>6, <2>1 DEF Publishes
    <3>2. UNCHANGED <<foreign, probe, app, cliVars, calls, launches, owner>> /\ faults' \in Nat
      BY <1>6, <2>1 DEF Publishes
    <3> QED BY <3>1, <3>2
  <2>2. CASE ~(Head(turn) = "prepare")
    BY <1>6, <2>2 DEF Publishes
  <2> QED BY <2>1, <2>2
<1>7. CASE PublishFails
  <2>1. CASE Head(turn) = "prepare"
    <3>1. turn' \in Seq(Kinds) /\ step' = "begin" /\ watch' = watch
      BY <1>7, <2>1 DEF PublishFails
    <3>2. UNCHANGED <<foreign, probe, app, cliVars, calls, launches, owner>> /\ faults' \in Nat
      BY <1>7, <2>1 DEF PublishFails
    <3> QED BY <3>1, <3>2
  <2>2. CASE ~(Head(turn) = "prepare")
    BY <1>7, <2>2 DEF PublishFails
  <2> QED BY <2>1, <2>2
<1>8. CASE SwapFails
  <2>1. CASE Head(turn) = "prepare"
    <3>1. turn' \in Seq(Kinds) /\ step' = "begin" /\ watch' = watch
      BY <1>8, <2>1 DEF SwapFails
    <3>2. UNCHANGED <<foreign, probe, app, cliVars, calls, launches, owner>> /\ faults' \in Nat
      BY <1>8, <2>1 DEF SwapFails
    <3> QED BY <3>1, <3>2
  <2>2. CASE ~(Head(turn) = "prepare")
    BY <1>8, <2>2 DEF SwapFails
  <2> QED BY <2>1, <2>2
<1> QED BY <1>1, <1>2, <1>3, <1>4, <1>5, <1>6, <1>7, <1>8 DEF Provisions

LEMMA ProvisionsKeeps ==
    ASSUME IInv, Provisions
    PROVE  OneCall' /\ LockInv' /\ PartsInv' /\ RuntimeInv'
<1> USE Waiting DEF IInv, OneCall, LockInv, PartsInv, RuntimeInv, Preparing, AtRest, Up,
    TypeOK, Records, Desktop, Token, NoTokens, Kinds, Steps, Entering, Provisioning,
    Working, Launching, Commands, Probers, Go, At, Holds, Succeeds, Fails, Return,
    NotProvisioned, Provisioned
<1>1. CASE PrepareBegins
  BY <1>1 DEF PrepareBegins
<1>2. CASE PrepareRefused
  BY <1>2 DEF PrepareRefused
<1>3. CASE Syncs
  BY <1>3 DEF Syncs
<1>4. CASE SyncFails
  <2>1. CASE Head(turn) = "prepare"
    BY <1>4, <2>1 DEF SyncFails
  <2>2. CASE ~(Head(turn) = "prepare")
    <3>1. OneCall'
      BY <1>4, <2>2 DEF SyncFails
    <3>2. LockInv'
      BY <1>4, <2>2 DEF SyncFails
    <3>3. p' = [p EXCEPT !.asr = "stopped"] /\ step' = "giveback" /\ UNCHANGED turn
      BY <1>4, <2>2 DEF SyncFails
    <3>4. step \in Provisioning
      BY <1>4 DEF SyncFails
    <3>5. PartsInv'
      BY <3>3, <3>4
    <3>6. RuntimeInv'
      BY <1>4, <2>2 DEF SyncFails
    <3> QED BY <3>1, <3>2, <3>5, <3>6
  <2> QED BY <2>1, <2>2
<1>5. CASE MovesAside
  BY <1>5 DEF MovesAside
<1>6. CASE Publishes
  BY <1>6 DEF Publishes
<1>7. CASE PublishFails
  <2>1. CASE Head(turn) = "prepare"
    BY <1>7, <2>1 DEF PublishFails
  <2>2. CASE ~(Head(turn) = "prepare")
    <3>1. OneCall'
      BY <1>7, <2>2 DEF PublishFails
    <3>2. LockInv'
      BY <1>7, <2>2 DEF PublishFails
    <3>3. p' = [p EXCEPT !.asr = "stopped"] /\ step' = "giveback" /\ UNCHANGED turn
      BY <1>7, <2>2 DEF PublishFails
    <3>4. step \in Provisioning
      BY <1>7 DEF PublishFails
    <3>5. PartsInv'
      BY <3>3, <3>4
    <3>6. RuntimeInv'
      BY <1>7, <2>2 DEF PublishFails
    <3> QED BY <3>1, <3>2, <3>5, <3>6
  <2> QED BY <2>1, <2>2
<1>8. CASE SwapFails
  <2>1. CASE Head(turn) = "prepare"
    <3>1. OneCall'
      BY <1>8, <2>1 DEF SwapFails
    <3>2. LockInv'
      BY <1>8, <2>1 DEF SwapFails
    <3>3. PartsInv'
      BY <1>8, <2>1 DEF SwapFails
    <3>4. RuntimeInv'
      BY <1>8, <2>1 DEF SwapFails
    <3> QED BY <3>1, <3>2, <3>3, <3>4
  <2>2. CASE ~(Head(turn) = "prepare")
    <3>1. OneCall'
      BY <1>8, <2>2 DEF SwapFails
    <3>2. LockInv'
      BY <1>8, <2>2 DEF SwapFails
    <3>3. p' = [p EXCEPT !.asr = "stopped"] /\ step' = "giveback" /\ UNCHANGED turn
      BY <1>8, <2>2 DEF SwapFails
    <3>4. step \in Provisioning
      BY <1>8 DEF SwapFails
    <3>5. PartsInv'
      BY <3>3, <3>4
    <3>6. RuntimeInv'
      BY <1>8, <2>2 DEF SwapFails
    <3> QED BY <3>1, <3>2, <3>5, <3>6
  <2> QED BY <2>1, <2>2
<1> QED BY <1>1, <1>2, <1>3, <1>4, <1>5, <1>6, <1>7, <1>8 DEF Provisions

(* The start under the lock: the records, the other types, the rest of the invariant. *)
LEMMA StartsUpRecords ==
    ASSUME TypeOK, StartsUp
    PROVE  Records'
<1> USE DEF TypeOK, Records, Desktop, Token, NoTokens, Return, Go, WorkerAfter, Outcomes
<1>1. CASE Loads
  BY <1>1 DEF Loads
<1>2. CASE LoadFails
  BY <1>2 DEF LoadFails
<1>3. CASE Preflight
  BY <1>3 DEF Preflight
<1>4. CASE PreflightFails
  BY <1>4 DEF PreflightFails
<1>5. CASE ServerReady
  <2>1. p' \in Desktop
    BY <1>5 DEF ServerReady
  <2>2. tokens' \in [startup : Token, setup : Token]
    BY <1>5 DEF ServerReady
  <2>3. runtime' \in [root : {"absent", "ready", "aside"}, staged : BOOLEAN, stranded : BOOLEAN]
    BY <1>5 DEF ServerReady
  <2> QED BY <2>1, <2>2, <2>3
<1>6. CASE \E bound \in BOOLEAN : ServerFails(bound)
  <2>1. PICK bound \in BOOLEAN : ServerFails(bound)
    BY <1>6
  <2>2. p' \in Desktop
    BY <2>1 DEF ServerFails
  <2>3. tokens' = tokens /\ runtime' = runtime
    BY <2>1 DEF ServerFails
  <2> QED BY <2>2, <2>3
<1>7. CASE HandshakeReady
  <2>1. p' \in Desktop
    BY <1>7 DEF HandshakeReady
  <2>2. tokens' = tokens /\ runtime' = runtime
    BY <1>7 DEF HandshakeReady
  <2> QED BY <2>1, <2>2
<1>8. CASE HandshakeFails
  BY <1>8 DEF HandshakeFails
<1>9. CASE \E outcome \in Outcomes : ReapsWorker(outcome)
  <2>1. PICK outcome \in Outcomes : ReapsWorker(outcome)
    BY <1>9
  <2>2. p' \in Desktop
    BY <2>1 DEF ReapsWorker
  <2>3. tokens' = tokens /\ runtime' = runtime
    BY <2>1 DEF ReapsWorker
  <2> QED BY <2>2, <2>3
<1>10. CASE Undoes
  <2>1. p' \in Desktop
    BY <1>10 DEF Undoes
  <2>2. tokens' \in [startup : Token, setup : Token]
    BY <1>10 DEF Undoes
  <2>3. runtime' \in [root : {"absent", "ready", "aside"}, staged : BOOLEAN, stranded : BOOLEAN]
    BY <1>10 DEF Undoes
  <2> QED BY <2>1, <2>2, <2>3
<1>11. CASE CaptureOpens
  BY <1>11 DEF CaptureOpens
<1>12. CASE AudioStartFails
  BY <1>12 DEF AudioStartFails
<1>13. CASE Starts
  BY <1>13 DEF Starts
<1>14. CASE \E outcome \in Outcomes : RollsBack(outcome)
  <2>1. PICK outcome \in Outcomes : RollsBack(outcome)
    BY <1>14
  <2>2. WorkerAfter(outcome) \in {"none", "stray", "shared"}
    OBVIOUS
  <2>3. p \in Desktop /\ (p.ws /\ ~p.created) \in BOOLEAN
    OBVIOUS
  <2> HIDE DEF WorkerAfter, Desktop
  <2>4. p' \in Desktop
    BY <2>1, <2>2, <2>3, SeveralParts DEF RollsBack
  <2>5. tokens' = tokens /\ runtime' = runtime
    BY <2>1 DEF RollsBack
  <2> QED BY <2>4, <2>5
<1>15. CASE StartFails
  BY <1>15 DEF StartFails
<1> QED BY <1>1, <1>2, <1>3, <1>4, <1>5, <1>6, <1>7, <1>8, <1>9, <1>10, <1>11, <1>12,
    <1>13, <1>14, <1>15 DEF StartsUp

LEMMA StartsUpTyped ==
    ASSUME TypeOK, StartsUp
    PROVE  TypeOK'
<1> USE Waiting DEF TypeOK, Kinds, Steps, Entering, Provisioning, Working, Launching,
    Commands, Probers, Go, At, Succeeds, Fails, Return, GivesBack, StopCosts, Outcomes
<1> Records'
  BY StartsUpRecords
<1>1. CASE Loads
  BY <1>1 DEF Loads
<1>2. CASE LoadFails
  BY <1>2 DEF LoadFails
<1>3. CASE Preflight
  BY <1>3 DEF Preflight
<1>4. CASE PreflightFails
  BY <1>4 DEF PreflightFails
<1>5. CASE ServerReady
  BY <1>5 DEF ServerReady
<1>6. CASE \E bound \in BOOLEAN : ServerFails(bound)
  BY <1>6 DEF ServerFails
<1>7. CASE HandshakeReady
  BY <1>7 DEF HandshakeReady
<1>8. CASE HandshakeFails
  BY <1>8 DEF HandshakeFails
<1>9. CASE \E outcome \in Outcomes : ReapsWorker(outcome)
  BY <1>9 DEF ReapsWorker
<1>10. CASE Undoes
  BY <1>10 DEF Undoes
<1>11. CASE CaptureOpens
  BY <1>11 DEF CaptureOpens
<1>12. CASE AudioStartFails
  BY <1>12 DEF AudioStartFails
<1>13. CASE Starts
  BY <1>13 DEF Starts
<1>14. CASE \E outcome \in Outcomes : RollsBack(outcome)
  BY <1>14 DEF RollsBack
<1>15. CASE StartFails
  BY <1>15 DEF StartFails
<1> QED BY <1>1, <1>2, <1>3, <1>4, <1>5, <1>6, <1>7, <1>8, <1>9, <1>10, <1>11, <1>12,
    <1>13, <1>14, <1>15 DEF StartsUp

LEMMA StartsUpKeeps ==
    ASSUME IInv, StartsUp
    PROVE  OneCall' /\ LockInv' /\ PartsInv' /\ RuntimeInv'
<1> USE Waiting DEF IInv, OneCall, LockInv, PartsInv, RuntimeInv, Preparing, AtRest, Up,
    TypeOK, Records, Desktop, Token, NoTokens, Kinds, Steps, Entering, Provisioning,
    Working, Launching, Commands, Probers, Go, At, Succeeds, Fails, Return, GivesBack,
    WorkerAfter, StopCosts, Outcomes
<1>1. CASE Loads
  <2>1. CASE runtime.root = "ready"
    BY <1>1, <2>1 DEF Loads
  <2>2. CASE ~(runtime.root = "ready")
    <3>1. /\ step' = "sync" /\ p' = [p EXCEPT !.asr = "starting"]
          /\ UNCHANGED <<turn, owner, others>>
      BY <1>1, <2>2 DEF Loads
    <3>2. OneCall'
      BY <1>1, <2>2 DEF Loads
    <3>3. LockInv'
      BY <1>1, <3>1 DEF Loads
    <3>4. PartsInv'
      BY <1>1, <3>1 DEF Loads
    <3>5. RuntimeInv'
      BY <1>1, <2>2 DEF Loads
    <3> QED BY <3>2, <3>3, <3>4, <3>5
  <2> QED BY <2>1, <2>2
<1>2. CASE LoadFails
  BY <1>2 DEF LoadFails
<1>3. CASE Preflight
  BY <1>3 DEF Preflight
<1>4. CASE PreflightFails
  BY <1>4 DEF PreflightFails
<1>5. CASE ServerReady
  BY <1>5 DEF ServerReady
<1>6. CASE \E bound \in BOOLEAN : ServerFails(bound)
  BY <1>6 DEF ServerFails
<1>7. CASE HandshakeReady
  BY <1>7 DEF HandshakeReady
<1>8. CASE HandshakeFails
  BY <1>8 DEF HandshakeFails
<1>9. CASE \E outcome \in Outcomes : ReapsWorker(outcome)
  BY <1>9 DEF ReapsWorker
<1>10. CASE Undoes
  BY <1>10 DEF Undoes
<1>11. CASE CaptureOpens
  BY <1>11 DEF CaptureOpens
<1>12. CASE AudioStartFails
  BY <1>12 DEF AudioStartFails
<1>13. CASE Starts
  BY <1>13 DEF Starts
<1>14. CASE \E outcome \in Outcomes : RollsBack(outcome)
  BY <1>14 DEF RollsBack
<1>15. CASE StartFails
  BY <1>15 DEF StartFails
<1> QED BY <1>1, <1>2, <1>3, <1>4, <1>5, <1>6, <1>7, <1>8, <1>9, <1>10, <1>11, <1>12,
    <1>13, <1>14, <1>15 DEF StartsUp

(* The stop: the records, the other types, the rest of the invariant. *)
LEMMA EndsRecords ==
    ASSUME TypeOK, Ends
    PROVE  Records'
<1> USE DEF TypeOK, Records, Desktop, Token, NoTokens, Return, Go, WorkerAfter, Outcomes
<1>1. CASE NotRunning
  BY <1>1 DEF NotRunning
<1>2. CASE StopBegins
  BY <1>2 DEF StopBegins
<1>3. CASE TasksJoined
  <2>1. p' = [p EXCEPT !.sink = FALSE] => p' \in Desktop
    OBVIOUS
  <2>2. p \in Desktop
    OBVIOUS
  <2>3. p' = [p EXCEPT !.sink = FALSE, !.stop = "failed"] => p' \in Desktop
    <3> HIDE DEF Desktop
    <3> QED BY <2>2, SeveralParts
  <2>4. tokens' = tokens /\ runtime' = runtime
    BY <1>3 DEF TasksJoined
  <2> QED BY <1>3, <2>1, <2>3, <2>4 DEF TasksJoined
<1>4. CASE \E outcome \in Outcomes : StopsWorker(outcome)
  <2>1. PICK outcome \in Outcomes : StopsWorker(outcome)
    BY <1>4
  <2>2. p' \in Desktop
    BY <2>1 DEF StopsWorker
  <2>3. tokens' = tokens /\ runtime' = runtime
    BY <2>1 DEF StopsWorker
  <2> QED BY <2>2, <2>3
<1>5. CASE StopsServer
  <2>1. p' \in Desktop
    BY <1>5 DEF StopsServer
  <2>2. tokens' \in [startup : Token, setup : Token]
    BY <1>5 DEF StopsServer
  <2>3. runtime' \in [root : {"absent", "ready", "aside"}, staged : BOOLEAN, stranded : BOOLEAN]
    BY <1>5 DEF StopsServer
  <2> QED BY <2>1, <2>2, <2>3
<1> QED BY <1>1, <1>2, <1>3, <1>4, <1>5 DEF Ends

LEMMA EndsTyped ==
    ASSUME TypeOK, Ends
    PROVE  TypeOK'
<1> USE Waiting DEF TypeOK, Kinds, Steps, Entering, Provisioning, Working, Launching,
    Commands, Probers, Go, At, Holds, Succeeds, Fails, Return, GivesBack, StopCosts,
    Outcomes
<1> Records'
  BY EndsRecords
<1>1. CASE NotRunning
  BY <1>1 DEF NotRunning
<1>2. CASE StopBegins
  BY <1>2 DEF StopBegins
<1>3. CASE TasksJoined
  BY <1>3 DEF TasksJoined
<1>4. CASE \E outcome \in Outcomes : StopsWorker(outcome)
  BY <1>4 DEF StopsWorker
<1>5. CASE StopsServer
  BY <1>5 DEF StopsServer
<1> QED BY <1>1, <1>2, <1>3, <1>4, <1>5 DEF Ends

LEMMA EndsKeeps ==
    ASSUME IInv, Ends
    PROVE  OneCall' /\ LockInv' /\ PartsInv' /\ RuntimeInv'
<1> USE Waiting DEF IInv, OneCall, LockInv, PartsInv, RuntimeInv, Preparing, AtRest, Up,
    TypeOK, Records, Desktop, Token, NoTokens, Kinds, Steps, Entering, Provisioning,
    Working, Launching, Commands, Probers, Go, At, Holds, Succeeds, Fails, Return,
    GivesBack, WorkerAfter, StopCosts, Outcomes
<1>1. CASE NotRunning
  BY <1>1 DEF NotRunning
<1>2. CASE StopBegins
  BY <1>2 DEF StopBegins
<1>3. CASE TasksJoined
  BY <1>3 DEF TasksJoined
<1>4. CASE \E outcome \in Outcomes : StopsWorker(outcome)
  BY <1>4 DEF StopsWorker
<1>5. CASE StopsServer
  BY <1>5 DEF StopsServer
<1> QED BY <1>1, <1>2, <1>3, <1>4, <1>5 DEF Ends

(* The service's tasks: the records, the other types, the rest of the invariant. *)
LEMMA TasksRecords ==
    ASSUME TypeOK, Tasks
    PROVE  Records'
<1> USE DEF TypeOK, Records, Desktop, Token, NoTokens, Task
<1>1. CASE EventTaskEnds
  BY <1>1 DEF EventTaskEnds
<1>2. CASE AudioTaskEnds
  BY <1>2 DEF AudioTaskEnds
<1>3. CASE WorkerReports
  BY <1>3 DEF WorkerReports
<1> QED BY <1>1, <1>2, <1>3 DEF Tasks

LEMMA TasksTyped ==
    ASSUME TypeOK, Tasks
    PROVE  TypeOK'
<1> USE Waiting DEF TypeOK, Kinds, Steps, Entering, Provisioning, Working, Launching,
    Commands, Probers, Succeeds, Fails, Task
<1> Records'
  BY TasksRecords
<1>1. CASE EventTaskEnds
  BY <1>1 DEF EventTaskEnds
<1>2. CASE AudioTaskEnds
  BY <1>2 DEF AudioTaskEnds
<1>3. CASE WorkerReports
  BY <1>3 DEF WorkerReports
<1> QED BY <1>1, <1>2, <1>3 DEF Tasks

LEMMA TasksKeeps ==
    ASSUME IInv, Tasks
    PROVE  OneCall' /\ LockInv' /\ PartsInv' /\ RuntimeInv'
<1> USE Waiting DEF IInv, OneCall, LockInv, PartsInv, RuntimeInv, Preparing, AtRest, Up,
    TypeOK, Records, Desktop, Token, NoTokens, Kinds, Steps, Entering, Provisioning,
    Working, Launching, Commands, Probers, Succeeds, Fails, Task
<1>1. CASE EventTaskEnds
  BY <1>1 DEF EventTaskEnds
<1>2. CASE AudioTaskEnds
  BY <1>2 DEF AudioTaskEnds
<1>3. CASE WorkerReports
  BY <1>3 DEF WorkerReports
<1> QED BY <1>1, <1>2, <1>3 DEF Tasks

(* The user, the watch, the exit and the headless service: the same. *)
LEMMA MeanwhileRecords ==
    ASSUME TypeOK, Meanwhile
    PROVE  Records'
<1> USE DEF TypeOK, Records, Desktop, Token, NoTokens, Stopped, Cancelled, Cli
<1>1. CASE \E k \in Commands : UserCalls(k)
  BY <1>1 DEF UserCalls
<1>2. CASE CancelSetup
  BY <1>2 DEF CancelSetup
<1>3. CASE ExitRequested
  BY <1>3 DEF ExitRequested
<1>4. CASE AppLeaves
  BY <1>4 DEF AppLeaves
<1>5. CASE \E a \in Probers : Probing(a)
  BY <1>5 DEF Probing
<1>6. CASE WatchPolls
  BY <1>6 DEF WatchPolls
<1>7. CASE WatchRetries
  BY <1>7 DEF WatchRetries
<1>8. CASE CliLaunches
  BY <1>8 DEF CliLaunches
<1>9. CASE CliGoesOn
  BY <1>9 DEF CliGoesOn
<1>10. CASE CliReturns
  BY <1>10 DEF CliReturns
<1>11. CASE CliFails
  BY <1>11 DEF CliFails
<1>12. CASE CliEnds
  BY <1>12 DEF CliEnds
<1> QED BY <1>1, <1>2, <1>3, <1>4, <1>5, <1>6, <1>7, <1>8, <1>9, <1>10, <1>11, <1>12
    DEF Meanwhile

LEMMA MeanwhileTyped ==
    ASSUME TypeOK, Meanwhile
    PROVE  TypeOK'
<1> USE Waiting DEF TypeOK, Kinds, Steps, Entering, Provisioning, Working, Launching,
    Commands, Probers, Answers, Cli, AsksItself, Looks, LetsGo, Concludes
<1> Records'
  BY MeanwhileRecords
<1>1. CASE \E k \in Commands : UserCalls(k)
  BY <1>1 DEF UserCalls
<1>2. CASE CancelSetup
  BY <1>2 DEF CancelSetup
<1>3. CASE ExitRequested
  BY <1>3 DEF ExitRequested
<1>4. CASE AppLeaves
  <2>1. turn' \in Seq(Kinds) /\ step' \in Steps
    BY <1>4 DEF AppLeaves
  <2>2. probe' \in [Probers -> {"no", "check", "look", "held", "nobody", "taken"}]
    BY <1>4 DEF AppLeaves
  <2>3. /\ lock' \in {"free", "desktop", "cli"} \cup Probers
        /\ mine' \in BOOLEAN /\ unlocked' \in BOOLEAN /\ foreign' \in BOOLEAN
        /\ watch' = "asleep" /\ app' = "gone"
        /\ UNCHANGED <<cli, calls, launches, faults>>
    BY <1>4 DEF AppLeaves
  <2> QED BY <2>1, <2>2, <2>3
<1>5. CASE \E a \in Probers : Probing(a)
  <2>1. PICK a \in Probers : Probing(a)
    BY <1>5
  <2>2. CASE AsksItself(a)
    <3>1. CASE mine
      <4>1. Answers(a, FALSE)
        BY <2>2, <3>1 DEF AsksItself
      <4>2. /\ turn' \in Seq(Kinds) /\ foreign' \in BOOLEAN
            /\ probe' \in [Probers -> {"no", "check", "look", "held", "nobody", "taken"}]
            /\ watch' \in {"launch", "asleep", "poll", "starting", "retry", "again"}
        <5> HIDE DEF Answers, TypeOK, Kinds, Probers
        <5> QED BY <4>1, AnswersTyped
      <4> QED BY <2>1, <2>2, <3>1, <4>2 DEF Probing
    <3>2. CASE ~mine
      BY <2>1, <2>2, <3>2 DEF Probing
    <3> QED BY <3>1, <3>2
  <2>3. CASE Looks(a)
    BY <2>1, <2>3 DEF Probing
  <2>4. CASE LetsGo(a)
    BY <2>1, <2>4 DEF Probing
  <2>5. CASE Concludes(a)
    BY <2>1, <2>5, AnswersTyped DEF Probing
  <2> QED BY <2>1, <2>2, <2>3, <2>4, <2>5 DEF Probing
<1>6. CASE WatchPolls
  BY <1>6 DEF WatchPolls
<1>7. CASE WatchRetries
  BY <1>7 DEF WatchRetries
<1>8. CASE CliLaunches
  BY <1>8 DEF CliLaunches
<1>9. CASE CliGoesOn
  BY <1>9 DEF CliGoesOn
<1>10. CASE CliReturns
  BY <1>10 DEF CliReturns
<1>11. CASE CliFails
  BY <1>11 DEF CliFails
<1>12. CASE CliEnds
  BY <1>12 DEF CliEnds
<1> QED BY <1>1, <1>2, <1>3, <1>4, <1>5, <1>6, <1>7, <1>8, <1>9, <1>10, <1>11, <1>12
    DEF Meanwhile

LEMMA MeanwhileKeeps ==
    ASSUME IInv, Meanwhile
    PROVE  OneCall' /\ LockInv' /\ PartsInv' /\ RuntimeInv'
<1> USE Waiting DEF IInv, OneCall, LockInv, PartsInv, RuntimeInv, Preparing, AtRest, Up,
    TypeOK, Records, Desktop, Token, NoTokens, Kinds, Steps, Entering, Provisioning,
    Working, Launching, Commands, Probers, Stopped, Cancelled, Answers, Cli, AsksItself,
    Looks, LetsGo, Concludes
<1>1. CASE \E k \in Commands : UserCalls(k)
  BY <1>1 DEF UserCalls
<1>2. CASE CancelSetup
  BY <1>2 DEF CancelSetup
<1>3. CASE ExitRequested
  <2>1. OneCall'
    BY <1>3 DEF ExitRequested
  <2>2. LockInv'
    BY <1>3 DEF ExitRequested
  <2>3. PartsInv'
    BY <1>3 DEF ExitRequested
  <2>4. RuntimeInv'
    BY <1>3 DEF ExitRequested
  <2> QED BY <2>1, <2>2, <2>3, <2>4
<1>4. CASE AppLeaves
  BY <1>4 DEF AppLeaves
<1>5. CASE \E a \in Probers : Probing(a)
  <2>1. PICK a \in Probers : Probing(a)
    BY <1>5
  <2>2. CASE AsksItself(a)
    <3>1. UNCHANGED <<step, p, tokens, runtime, owner, app, cli>>
      BY <2>1, <2>2 DEF Probing
    <3>2. OneCall'
      <4>1. CASE mine
        BY <2>1, <2>2, <3>1, <4>1 DEF Probing
      <4>2. CASE ~mine
        BY <2>1, <2>2, <3>1, <4>2 DEF Probing
      <4> QED BY <4>1, <4>2
    <3>3. LockInv'
      BY <2>1, <2>2, <3>1 DEF Probing
    <3>4. (step \in Provisioning) => turn # <<>> /\ Head(turn') = Head(turn)
      BY <2>1, <2>2 DEF Probing
    <3>5. AtRest' <=> AtRest
      BY <3>1, <3>4
    <3>6. PartsInv' /\ RuntimeInv'
      BY <3>1, <3>5
    <3> QED BY <3>2, <3>3, <3>6
  <2>3. CASE Looks(a)
    BY <2>1, <2>3 DEF Probing
  <2>4. CASE LetsGo(a)
    BY <2>1, <2>4 DEF Probing
  <2>5. CASE Concludes(a)
    BY <2>1, <2>5 DEF Probing
  <2> QED BY <2>1, <2>2, <2>3, <2>4, <2>5 DEF Probing
<1>6. CASE WatchPolls
  <2>1. OneCall'
    BY <1>6 DEF WatchPolls
  <2>2. LockInv'
    BY <1>6 DEF WatchPolls
  <2>3. PartsInv'
    BY <1>6 DEF WatchPolls
  <2>4. RuntimeInv'
    BY <1>6 DEF WatchPolls
  <2> QED BY <2>1, <2>2, <2>3, <2>4
<1>7. CASE WatchRetries
  BY <1>7 DEF WatchRetries
<1>8. CASE CliLaunches
  BY <1>8 DEF CliLaunches
<1>9. CASE CliGoesOn
  BY <1>9 DEF CliGoesOn
<1>10. CASE CliReturns
  BY <1>10 DEF CliReturns
<1>11. CASE CliFails
  BY <1>11 DEF CliFails
<1>12. CASE CliEnds
  BY <1>12 DEF CliEnds
<1> QED BY <1>1, <1>2, <1>3, <1>4, <1>5, <1>6, <1>7, <1>8, <1>9, <1>10, <1>11, <1>12
    DEF Meanwhile

(* Only the ways out of run_service change what is left of headless processes. *)
LEMMA HeadlessKept ==
    ASSUME HeadlessInv, Next
    PROVE  HeadlessInv'
<1>1. CASE Enters
  BY <1>1 DEF HeadlessInv, Enters, AlreadyRunning, StartBegins, Locks, KeepsLock,
    LockUnavailable, Refused, RefusedReturns, Go, Return
<1>2. CASE Provisions
  BY <1>2 DEF HeadlessInv, Provisions, PrepareBegins, PrepareRefused, Syncs, SyncFails,
    MovesAside, Publishes, PublishFails, SwapFails, NotProvisioned, Provisioned, Go, Return
<1>3. CASE StartsUp
  BY <1>3 DEF HeadlessInv, StartsUp, Loads, LoadFails, Preflight, PreflightFails,
    ServerReady, HandshakeReady, HandshakeFails, Undoes, CaptureOpens, AudioStartFails,
    Starts, StartFails, ServerFails, ReapsWorker, RollsBack, Go, Return
<1>4. CASE Ends
  BY <1>4 DEF HeadlessInv, Ends, NotRunning, StopBegins, TasksJoined, StopsServer,
    StopsWorker, Go, Return
<1>5. CASE Tasks
  BY <1>5 DEF HeadlessInv, Tasks, EventTaskEnds, AudioTaskEnds, WorkerReports, Task
<1>6. CASE Meanwhile
  <2>1. CASE CliReturns
    <3>1. leaving' = leaving \cup {[failed |-> FALSE, parts |-> {"server"}]}
      BY <2>1 DEF CliReturns, Cli, PartsAt
    <3>2. /\ [failed |-> FALSE, parts |-> {"server"}] \in [failed : BOOLEAN, parts : SUBSET Parts]
          /\ [failed |-> FALSE, parts |-> {"server"}].parts = {"server"}
      BY DEF Parts
    <3>3. leaving' \subseteq [failed : BOOLEAN, parts : SUBSET Parts]
      BY <3>1, <3>2 DEF HeadlessInv
    <3>4. ASSUME NEW left \in leaving'
          PROVE  left.failed \/ left.parts \subseteq {"server"}
      <4>1. CASE left \in leaving
        BY <4>1 DEF HeadlessInv
      <4>2. CASE left = [failed |-> FALSE, parts |-> {"server"}]
        BY <3>2, <4>2
      <4> QED BY <3>1, <4>1, <4>2
    <3> QED BY <3>3, <3>4 DEF HeadlessInv
  <2>2. CASE CliFails
    <3>1. PICK parts \in SUBSET Parts :
              leaving' = leaving \cup [failed : {TRUE}, parts : {parts} \ {{}}]
      <4>1. PartsAt(cli) \in SUBSET Parts
        BY <2>2 DEF CliFails, PartsAt, Parts
      <4> QED BY <2>2, <4>1 DEF CliFails
    <3> QED BY <3>1 DEF HeadlessInv
  <2>3. CASE CliEnds
    BY <2>3 DEF HeadlessInv, CliEnds
  <2>4. CASE ~(CliReturns \/ CliFails \/ CliEnds)
    BY <1>6, <2>4 DEF HeadlessInv, Meanwhile, CancelSetup, ExitRequested, AppLeaves,
      WatchPolls, WatchRetries, CliLaunches, CliGoesOn, UserCalls, Probing
  <2> QED BY <2>1, <2>2, <2>3, <2>4
<1> QED BY <1>1, <1>2, <1>3, <1>4, <1>5, <1>6, StepsGrouped

(***************************************************************************)
(* The theorems.                                                           *)
(***************************************************************************)

(* The lock has one holder, the desktop keeps it while its service is at work, *)
(* and the parts of the service are those of the step (service_lock.rs,         *)
(* commands.rs).                                                                *)
THEOREM Inductive == Spec => []IInv
<1>1. Init => IInv
  <2> SUFFICES ASSUME Init PROVE IInv
    OBVIOUS
  <2>1. Records
    BY DEF Init, Records, Desktop, Stopped, Token, NoTokens
  <2>2. TypeOK
    <3>1. turn \in Seq(Kinds)
      BY DEF Init
    <3>2. probe \in [Probers -> {"no", "check", "look", "held", "nobody", "taken"}]
      BY DEF Init, Probers
    <3> QED BY <2>1, <3>1, <3>2 DEF Init, TypeOK, Steps, Probers
  <2>3. OneCall /\ LockInv /\ PartsInv /\ RuntimeInv
     BY <2>1, <2>2 DEF Init, Records, Probers, OneCall, LockInv, PartsInv, RuntimeInv,
       Preparing, AtRest,
       Up, NoTokens, Provisioning, Entering, Working, Launching, Stopped
  <2>4. HeadlessInv
     BY DEF Init, HeadlessInv
  <2> QED BY <2>2, <2>3, <2>4 DEF IInv
<1>2. IInv /\ [Next]_vars => IInv'
  <2> SUFFICES ASSUME IInv, [Next]_vars PROVE IInv'
    OBVIOUS
  <2>1. CASE UNCHANGED vars
     BY <2>1 DEF IInv, OneCall, LockInv, PartsInv, RuntimeInv, HeadlessInv, Preparing,
       AtRest, Up, TypeOK, Records
  <2>2. TypeOK
    BY DEF IInv
  <2>3. CASE Next
     BY <2>2, <2>3, StepsGrouped, EntersTyped, EntersKeeps, ProvisionsTyped,
       ProvisionsKeeps,
       StartsUpTyped, StartsUpKeeps, EndsTyped, EndsKeeps, TasksTyped, TasksKeeps,
       MeanwhileTyped, MeanwhileKeeps, HeadlessKept DEF IInv
  <2> QED BY <2>1, <2>3
<1> QED BY <1>1, <1>2, PTL DEF Spec

(* The desktop's server, worker and microphone never run beside those of a       *)
(* headless service that is in run_service while the lock can be opened, whatever *)
(* the desktop's calls, its watch and its exit do, and however the other process  *)
(* leaves; beside one that has left it without failing, only its server runs.     *)
THEOREM PipelinesNeverOverlap == Spec => []OnePipeline
<1>1. IInv => OnePipeline
  <2> SUFFICES ASSUME IInv, ~unlocked, p.ws \/ p.capture \/ p.worker = "up"
               PROVE  /\ PartsAt(cli) = {}
                      /\ \A left \in leaving : left.failed \/ left.parts \subseteq {"server"}
    BY DEF OnePipeline
  <2>1. cli = "off"
    BY DEF IInv, TypeOK, LockInv, PartsInv, AtRest, Up, Preparing, Provisioning, Entering,
      Launching, Records, Desktop
  <2> QED BY <2>1 DEF IInv, HeadlessInv, PartsAt
<1> QED BY <1>1, Inductive, PTL

(* Every call, whichever way it returns, leaves either a running service or      *)
(* nothing of one: no part, no lock, no token, no half-made runtime; and the     *)
(* runtime that was there is in its place, unless moving it back has failed.     *)
THEOREM CallsCleanUp == Spec => []NothingLeftBehind
<1>1. IInv => NothingLeftBehind
   BY DEF IInv, NothingLeftBehind, TypeOK, OneCall, LockInv, PartsInv, RuntimeInv, AtRest,
     Up, Preparing,
         Provisioning, Entering, Launching, Records, Desktop
<1> QED BY <1>1, Inductive, PTL
==============================================================================
