--------------------------- MODULE LauncherProofs ----------------------------
(***************************************************************************)
(* Proofs about Launcher, for any launchers, buttons and values and any    *)
(* number of relay processes, builds and scripts: the types (with at most  *)
(* one outcome in the queue), that the buttons are dead for a job and for  *)
(* nothing else, where alone a launcher loses hold of a process, and what  *)
(* a game is launched with.                                                *)
(***************************************************************************)
EXTENDS Launcher, TLAPS

\* One job at a time, and its outcome is polled before the next one starts.
OneJob ==
  /\ worker # "none" => queue = <<>>
  /\ BusyForAJob

\* A launcher between two jobs knows of no relay started by a job.
Idle == worker = "none" => spawned = 0 /\ served = "none"

\* A job that has started a relay is nearly through.
InHand ==
  /\ spawned # 0 => worker \in {"assigning", "launching", "reporting"}
  /\ worker = "assigning" => spawned # 0

\* Only the host's worker starts relays.
StartsRelay == worker \in {"checking", "polling", "recopying", "rewriting", "spawning", "assigning"}
HostStarts == StartsRelay => app = "host"

\* What the window is saving counts as saved during the job.
SaveCounts == window = "saving" /\ worker # "none" => typed \in saved

\* What the plugin's ini may hold before a launch, and while it is written anew.
IniFits == ini \in {asked} \cup saved \cup {"none" : v \in saved}
IniIsCut == ini \in {"none"} \cup saved
ConfigFits == config \in {asked} \cup saved

\* Once the worker has written the files, only a save in between changes them.
InPlace ==
  /\ worker \in {"writing", "rewriting"} => IniIsCut
  /\ worker \in {"checking", "polling"} /\ job = "host" => IniFits
  /\ worker \in {"spawning", "assigning", "launching"} => IniFits
  /\ worker \in {"rewriting", "spawning", "assigning"} => ConfigFits
  /\ spawned # 0 => ConfigFits
  /\ served \in {"none", asked} \cup saved

\* Once start_relay_process found no relay running there is none until it
\* assigns its own: nobody else makes self.relay_process a living process.
NoneYet ==
  worker \in {"recopying", "rewriting", "spawning", "assigning"} => ~Alive(relay)

\* What the window waits for is the process it is about to forget, unless the
\* worker has assigned another in between.
WaitsForRelay ==
  /\ window \in {"waiting", "waiting again"} => target = relay \/ relay \in loose
  /\ window = "finishing" => ~Alive(relay) \/ relay \in loose

\* No process is alive before it is started.
Numbered == \A p \in Processes : Alive(p) => p <= started

Asked == OneJob /\ Idle /\ InHand /\ HostStarts /\ SaveCounts /\ InPlace
Kept == NoneYet /\ WaitsForRelay /\ Numbered /\ RelayIsKnown

LauncherInv == LauncherTypeOK /\ Asked /\ Kept

-----------------------------------------------------------------------------
(* What each thread leaves alone.                                          *)

LEMMA WorkerFrame ==
  ASSUME WorkerStep
  PROVE  /\ worker # "none"
         /\ UNCHANGED <<app, window, goal, target, typed, busy, installed>>
         /\ Spawn \/ Assign \/ UNCHANGED relayVars
         /\ CopyFiles \/ WriteIni \/ UNCHANGED fileVars
         /\ (\E s \in 1..MaxScripts : Apply(s)) \/ UNCHANGED <<closing, scripts>>
         /\ \/ \E o \in {"done", "error"} : JobEnds(o)
            \/ UNCHANGED queue /\ worker' # "none"
BY DEF WorkerStep, Raises, MayRaise, SavesLast, Vanished, Ensure, Preflight, RunScript, CopyFiles,
       WriteIni, LaunchGame, Report, CheckRelay, PollRelay, Spawn, Assign, AfterStart, Download,
       Compare, Apply, GoesOn, JobEnds, windowVars, uiVars, relayVars, fileVars, updateVars

LEMMA StoppingFrame ==
  ASSUME StopRelay \/ OnClose \/ StoppingStep \/ Destroy \/ Open
  PROVE  /\ UNCHANGED <<app, closing, typed, workerVars, uiVars, started, loose, fileVars, updateVars>>
         /\ window' # "saving"
BY DEF StoppingStep, StopRelay, OnClose, Terminate, BeginWait, WaitReturns, WaitTimesOut,
       AfterTimeout, Finish, Destroy, Open, WindowGoes

LEMMA ScriptFrame ==
  ASSUME NEW s \in 1..MaxScripts, Answer(s) \/ Wipe(s) \/ Copy(s) \/ Relaunch(s)
  PROVE  /\ UNCHANGED <<app, closing, goal, target, typed, workerVars, uiVars, relayVars, fileVars>>
         /\ window' = window \/ window' = "ready"
BY DEF Answer, Wipe, Copy, Relaunch, OnDisk, windowVars

-----------------------------------------------------------------------------
(* The types.                                                              *)

LEMMA OneOutcome ==
  ASSUME NEW o
  PROVE  Append(<<>>, o) = <<o>> /\ <<o>> # <<>>
OBVIOUS

\* The buttons of either launcher; the joiner starts no relay.
LEMMA JobNames ==
  ASSUME WindowTypeOK, NEW j \in Jobs[app]
  PROVE  /\ j \in JobsOf[app]
         /\ j \in {"check", "install", "firewall", "join", "launch", "start", "host", "update"}
<1>1. app \in Apps /\ j \in JobsOf[app]
  BY LauncherAssumption DEF WindowTypeOK
<1>2. CASE app = "joiner"
  <2>1. JobsOf[app] = {"check", "install", "join", "update"}
    BY <1>2 DEF JobsOf
  <2> QED BY <1>1, <2>1
<1>3. CASE app = "host"
  <2>1. JobsOf[app] = {"check", "install", "firewall", "launch", "start", "host", "update"}
    BY <1>3 DEF JobsOf
  <2> QED BY <1>1, <2>1
<1> QED
  BY <1>1, <1>2, <1>3, LauncherAssumption

LEMMA HostJobs ==
  ASSUME WindowTypeOK, NEW j \in JobsOf[app], j \in {"start", "host"}
  PROVE  app = "host"
<1>1. app \in {"joiner", "host"}
  BY LauncherAssumption DEF WindowTypeOK
<1>2. CASE app = "joiner"
  <2>1. JobsOf[app] = {"check", "install", "join", "update"}
    BY <1>2 DEF JobsOf
  <2> QED BY <2>1
<1> QED
  BY <1>1, <1>2

LEMMA WindowTypes ==
  ASSUME WindowTypeOK, [Next]_vars
  PROVE  WindowTypeOK'
<1> USE DEF WindowTypeOK, windowVars
<1>1. ASSUME NEW j \in Jobs[app], Press(j) PROVE WindowTypeOK'
  BY <1>1 DEF Press
<1>2. CASE WorkerStep
  BY <1>2, WorkerFrame DEF Apply
<1>3. CASE Poll \/ SaveSettings \/ SaveIni
  BY <1>3 DEF Poll, SaveSettings, SaveIni
<1>4. CASE StopRelay \/ OnClose \/ Destroy \/ Open
  BY <1>4 DEF StopRelay, OnClose, Destroy, Open, WindowGoes
<1>5. CASE StoppingStep
  BY <1>5 DEF StoppingStep, Terminate, BeginWait, WaitReturns, WaitTimesOut, Finish, WindowGoes,
              AfterTimeout
<1>6. CASE Exit
  BY <1>6 DEF Exit, Forgotten
<1>7. ASSUME NEW s \in 1..MaxScripts, Answer(s) \/ ScriptStep(s) PROVE WindowTypeOK'
  <2>1. CASE KillByName(s)
    BY <2>1 DEF KillByName, Forgotten
  <2>2. CASE Answer(s) \/ Wipe(s) \/ Copy(s) \/ Relaunch(s)
    BY <2>2, ScriptFrame
  <2> QED
    BY <1>7, <2>1, <2>2 DEF ScriptStep
<1>8. ASSUME NEW p \in Processes, ReadConfig(p) \/ Ends(p) PROVE WindowTypeOK'
  BY <1>8 DEF ReadConfig, Ends
<1>9. CASE UNCHANGED vars
  BY <1>9 DEF vars
<1> QED
  BY <1>1, <1>2, <1>3, <1>4, <1>5, <1>6, <1>7, <1>8, <1>9 DEF Next

LEMMA WorkerTypes ==
  ASSUME WindowTypeOK, WorkerTypeOK, DiskTypeOK, [Next]_vars
  PROVE  WorkerTypeOK'
<1> USE DEF WorkerTypeOK, MayRaise, workerVars, jobVars
<1>1. ASSUME NEW j \in Jobs[app], Press(j) PROVE WorkerTypeOK'
  BY <1>1, JobNames DEF Press, FirstStep, windowVars
<1>2. CASE WorkerStep
  BY <1>2 DEF WorkerStep, Raises, Ensure, Preflight, RunScript, CopyFiles, WriteIni,
              LaunchGame, Report, CheckRelay, PollRelay, Spawn, Assign, Download, Compare,
              Apply, GoesOn, JobEnds, WorkerEnds, AfterStart, windowVars
<1>3. CASE Poll \/ SaveSettings \/ SaveIni
  BY <1>3 DEF Poll, SaveSettings, SaveIni, windowVars
<1>4. CASE StopRelay \/ OnClose \/ StoppingStep \/ Destroy \/ Open
  BY <1>4, StoppingFrame
<1>5. CASE Exit
  BY <1>5 DEF Exit, Forgotten, WorkerEnds
<1>6. ASSUME NEW s \in 1..MaxScripts, Answer(s) \/ ScriptStep(s) PROVE WorkerTypeOK'
  <2>1. CASE KillByName(s)
    BY <2>1 DEF KillByName, Forgotten, WorkerEnds
  <2>2. CASE Answer(s) \/ Wipe(s) \/ Copy(s) \/ Relaunch(s)
    BY <2>2, ScriptFrame
  <2> QED
    BY <1>6, <2>1, <2>2 DEF ScriptStep
<1>7. ASSUME NEW p \in Processes, ReadConfig(p) \/ Ends(p) PROVE WorkerTypeOK'
  <2>1. served' \in {served, config} /\ UNCHANGED <<app, worker, job, asked, saved>>
    BY <1>7 DEF ReadConfig, Ends, windowVars
  <2> QED
    BY <2>1 DEF DiskTypeOK
<1>8. CASE UNCHANGED vars
  BY <1>8 DEF vars, windowVars
<1> QED
  BY <1>1, <1>2, <1>3, <1>4, <1>5, <1>6, <1>7, <1>8 DEF Next

\* OneJob is inductive with the types it relates.
LEMMA OutcomeTypes ==
  ASSUME WindowTypeOK, OutcomeTypeOK, OneJob, [Next]_vars
  PROVE  OutcomeTypeOK' /\ OneJob'
<1> USE DEF OutcomeTypeOK, OneJob, BusyForAJob, uiVars, workerVars
<1>1. ASSUME NEW j \in Jobs[app], Press(j) PROVE OutcomeTypeOK' /\ OneJob'
  <2>1. FirstStep(j) # "none"
    BY <1>1, JobNames DEF Press, FirstStep
  <2> QED
    BY <1>1, <2>1 DEF Press, MayRun
<1>2. CASE WorkerStep
  <2>1. worker # "none" /\ busy' = busy
    BY <1>2, WorkerFrame
  <2>2. ASSUME NEW o \in {"done", "error"}, JobEnds(o) PROVE OutcomeTypeOK' /\ OneJob'
    <3>1. queue' = Append(<<>>, o) /\ worker' = "none"
      BY <2>1, <2>2 DEF JobEnds, WorkerEnds, Outcome
    <3> QED
      BY <2>1, <3>1, OneOutcome
  <2>3. CASE UNCHANGED queue /\ worker' # "none"
    BY <2>1, <2>3
  <2> QED
    BY <1>2, <2>2, <2>3, WorkerFrame
<1>3. CASE Poll
  <2>1. worker = "none" \/ worker # "none"
    OBVIOUS
  <2>2. worker' = worker /\ queue # <<>> /\ queue' = <<>> /\ busy' = FALSE
    BY <1>3 DEF Poll
  <2> QED
    BY <2>1, <2>2
<1>4. CASE SaveSettings \/ SaveIni
  BY <1>4 DEF SaveSettings, SaveIni
<1>5. CASE StopRelay \/ OnClose \/ StoppingStep \/ Destroy \/ Open
  BY <1>5, StoppingFrame
<1>6. CASE Exit
  BY <1>6 DEF Exit, Forgotten, WorkerEnds
<1>7. ASSUME NEW s \in 1..MaxScripts, Answer(s) \/ ScriptStep(s) PROVE OutcomeTypeOK' /\ OneJob'
  <2>1. CASE KillByName(s)
    BY <2>1 DEF KillByName, Forgotten, WorkerEnds
  <2>2. CASE Answer(s) \/ Wipe(s) \/ Copy(s) \/ Relaunch(s)
    BY <2>2, ScriptFrame
  <2> QED
    BY <1>7, <2>1, <2>2 DEF ScriptStep
<1>8. ASSUME NEW p \in Processes, ReadConfig(p) \/ Ends(p) PROVE OutcomeTypeOK' /\ OneJob'
  BY <1>8 DEF ReadConfig, Ends
<1>9. CASE UNCHANGED vars
  BY <1>9 DEF vars
<1> QED
  BY <1>1, <1>2, <1>3, <1>4, <1>5, <1>6, <1>7, <1>8, <1>9 DEF Next

-----------------------------------------------------------------------------
(* The relay processes.                                                    *)

\* What terminate(), kill(), the script or its own end make of a process.
LEMMA FatesAfter ==
  ASSUME NEW fate \in Fates
  PROVE  /\ Told(fate) \in Fates
         /\ MayBecome(fate) \subseteq Fates
         /\ \A after \in MayBecome(fate) \cup Killed(fate) : after \in Held => fate \in Held
BY DEF Fates, Held, Told, MayBecome, Killed

\* The window's thread and the processes themselves start nobody.
LEMMA NobodyWakes ==
  ASSUME RelayTypeOK,
         \/ StopRelay \/ OnClose \/ StoppingStep \/ Destroy \/ Open
         \/ \E s \in 1..MaxScripts : KillByName(s)
         \/ \E p \in Processes : Ends(p)
  PROVE  /\ proc' \in [Processes -> Fates]
         /\ \A p \in Processes : proc'[p] \in Held => proc[p] \in Held
<1>t. proc \in [Processes -> Fates]
  BY DEF RelayTypeOK
<1>1. CASE Terminate
  <2>1. CASE Alive(relay)
    <3>1. relay \in Processes /\ proc[relay] \in Held /\ proc' = [proc EXCEPT ![relay] = Told(@)]
      BY <1>1, <2>1 DEF Terminate, Alive
    <3> QED
      BY <1>t, <3>1, FatesAfter
  <2>2. CASE ~Alive(relay)
    BY <1>t, <1>1, <2>2 DEF Terminate
  <2> QED
    BY <2>1, <2>2
<1>2. CASE StopRelay \/ OnClose \/ BeginWait \/ WaitReturns \/ WaitTimesOut \/ Finish \/ Destroy \/ Open
  BY <1>t, <1>2 DEF StopRelay, OnClose, BeginWait, WaitReturns, WaitTimesOut, Finish, Destroy, Open
<1>3. ASSUME NEW s \in 1..MaxScripts, KillByName(s)
      PROVE  /\ proc' \in [Processes -> Fates]
             /\ \A p \in Processes : proc'[p] \in Held => proc[p] \in Held
  BY <1>t, <1>3, FatesAfter DEF KillByName
<1>4. ASSUME NEW p \in Processes, Ends(p)
      PROVE  /\ proc' \in [Processes -> Fates]
             /\ \A q \in Processes : proc'[q] \in Held => proc[q] \in Held
  <2>1. PICK fate \in MayBecome(proc[p]) : proc' = [proc EXCEPT ![p] = fate]
    BY <1>4 DEF Ends
  <2> QED
    BY <1>t, <2>1, FatesAfter
<1> QED
  BY <1>1, <1>2, <1>3, <1>4 DEF StoppingStep

LEMMA RelayTypes ==
  ASSUME RelayTypeOK, InHand, [Next]_vars
  PROVE  RelayTypeOK'
<1>t. /\ MaxStarts \in Nat /\ started \in 0..MaxStarts
      /\ target \in 0..started /\ relay \in 0..started /\ spawned \in 0..started
      /\ proc \in [Processes -> Fates] /\ loose \subseteq 1..started
  BY LauncherAssumption DEF RelayTypeOK
<1> USE DEF relayVars, windowVars, workerVars, jobVars
<1>0. ASSUME UNCHANGED <<target, relay, started, proc, loose>>, spawned' \in {spawned, 0}
      PROVE RelayTypeOK'
  BY <1>t, <1>0 DEF RelayTypeOK
<1>1. ASSUME NEW j \in Jobs[app], Press(j) PROVE RelayTypeOK'
  BY <1>0, <1>1 DEF Press
<1>2. CASE Spawn
  <2>1. /\ started < MaxStarts /\ started' = started + 1 /\ spawned' = started'
        /\ target' = target /\ relay' = relay /\ loose' = MayEscape(started')
    BY <1>2 DEF Spawn
  <2>2. /\ started' \in 0..MaxStarts /\ started' \in Processes
        /\ target' \in 0..started' /\ relay' \in 0..started' /\ spawned' \in 0..started'
        /\ loose' \subseteq 1..started'
    BY <1>t, <2>1 DEF MayEscape, Processes
  <2>3. proc' \in [Processes -> Fates]
    BY <1>t, <1>2, <2>2 DEF Spawn, Fates, Held
  <2> QED
    BY <2>2, <2>3 DEF RelayTypeOK
<1>3. CASE Assign
  <2>1. relay' = spawned /\ loose' = MayEscape(spawned) /\ UNCHANGED <<target, started, proc, spawned>>
    BY <1>3 DEF Assign
  <2> QED
    BY <1>t, <1>3, <2>1 DEF RelayTypeOK, MayEscape, Assign, InHand
<1>4. CASE WorkerStep /\ UNCHANGED relayVars
  <2>1. spawned' \in {spawned, 0} \/ Spawn \/ Assign
    BY <1>4 DEF WorkerStep, Raises, Ensure, Preflight, RunScript, CopyFiles, WriteIni, LaunchGame,
                Report, CheckRelay, PollRelay, Download, Compare, Apply, GoesOn, JobEnds, WorkerEnds
  <2> QED
    BY <1>0, <1>2, <1>3, <1>4, <2>1, WorkerFrame
<1>5. CASE Poll \/ SaveSettings \/ SaveIni
  BY <1>0, <1>5 DEF Poll, SaveSettings, SaveIni
<1>6. CASE StopRelay \/ OnClose \/ StoppingStep \/ Destroy \/ Open
  <2>1. UNCHANGED <<started, spawned, loose>>
    BY <1>6, StoppingFrame
  <2>2. target' \in {target, relay, 0} /\ relay' \in {relay, 0}
    BY <1>6 DEF StopRelay, OnClose, StoppingStep, Terminate, BeginWait, WaitReturns,
                WaitTimesOut, Finish, Destroy, Open
  <2>3. proc' \in [Processes -> Fates]
    BY <1>6, NobodyWakes
  <2> QED
    BY <1>t, <2>1, <2>2, <2>3 DEF RelayTypeOK
<1>7. CASE Exit
  BY <1>t, <1>7 DEF Exit, Forgotten, WorkerEnds, RelayTypeOK
<1>8. ASSUME NEW s \in 1..MaxScripts, KillByName(s) PROVE RelayTypeOK'
  <2>1. proc' \in [Processes -> Fates]
    BY <1>8, NobodyWakes
  <2> QED
    BY <1>t, <1>8, <2>1 DEF KillByName, Forgotten, WorkerEnds, RelayTypeOK
<1>9. ASSUME NEW s \in 1..MaxScripts, Answer(s) \/ Wipe(s) \/ Copy(s) \/ Relaunch(s)
      PROVE RelayTypeOK'
  BY <1>0, <1>9, ScriptFrame
<1>10. ASSUME NEW p \in Processes, ReadConfig(p) PROVE RelayTypeOK'
  BY <1>0, <1>10 DEF ReadConfig
<1>11. ASSUME NEW p \in Processes, Ends(p) PROVE RelayTypeOK'
  <2>1. proc' \in [Processes -> Fates]
    BY <1>11, NobodyWakes
  <2> QED
    BY <1>t, <1>11, <2>1 DEF Ends, RelayTypeOK
<1>12. CASE UNCHANGED vars
  BY <1>0, <1>12 DEF vars
<1> QED
  BY <1>1, <1>2, <1>3, <1>4, <1>5, <1>6, <1>7, <1>8, <1>9, <1>10, <1>11, <1>12, WorkerFrame
  DEF Next, ScriptStep

-----------------------------------------------------------------------------
(* The disk.                                                               *)

LEMMA DiskTypes ==
  ASSUME WindowTypeOK, WorkerTypeOK, DiskTypeOK, [Next]_vars
  PROVE  DiskTypeOK'
<1>a. asked \in Values \cup {"none"} /\ typed \in Values \cup {"none"}
  BY DEF WindowTypeOK, WorkerTypeOK
<1> USE LauncherAssumption DEF DiskTypeOK, fileVars, updateVars, workerVars, jobVars
<1>1. ASSUME NEW j \in Jobs[app], Press(j) PROVE DiskTypeOK'
  BY <1>1 DEF Press
<1>2. CASE WorkerStep
  <2>1. /\ ini' \in {ini, "none", asked}
        /\ config' \in {config, asked}
    BY <1>2 DEF WorkerStep, Raises, Ensure, Preflight, RunScript, CopyFiles, WriteIni, IniOf,
                Written, LaunchGame, Report, CheckRelay, PollRelay, Spawn, Assign, Download,
                Compare, Apply, GoesOn, JobEnds
  <2>2. fetched' \in {fetched, 0} \cup 1..MaxBuild
    BY <1>2 DEF WorkerStep, Raises, Ensure, Preflight, RunScript, CopyFiles, WriteIni,
                LaunchGame, Report, CheckRelay, PollRelay, Spawn, Assign, Download, Compare,
                Apply, GoesOn, JobEnds, WorkerEnds
  <2>3. ASSUME NEW s \in 1..MaxScripts, Apply(s) PROVE DiskTypeOK'
    <3>1. PICK at \in {"waiting", "asking"} :
            scripts' = [scripts EXCEPT ![s] = [at |-> at, bundle |-> fetched]]
      BY <2>3 DEF Apply
    <3> QED
      BY <2>3, <3>1 DEF Apply
  <2>4. CASE UNCHANGED scripts
    BY <1>2, <1>a, <2>1, <2>2, <2>4, WorkerFrame
  <2> QED
    BY <1>2, <2>3, <2>4, WorkerFrame
<1>3. CASE Poll \/ SaveSettings \/ SaveIni
  BY <1>3, <1>a DEF Poll, SaveSettings, SaveIni, Written
<1>4. CASE StopRelay \/ OnClose \/ StoppingStep \/ Destroy \/ Open
  BY <1>4, StoppingFrame
<1>5. CASE Exit
  BY <1>5 DEF Exit, Forgotten, WorkerEnds
<1>6. ASSUME NEW s \in 1..MaxScripts, Answer(s) \/ ScriptStep(s) PROVE DiskTypeOK'
  <2>1. fetched' \in {fetched, 0} /\ UNCHANGED <<config, ini>>
    <3>1. CASE KillByName(s)
      BY <3>1 DEF KillByName, Forgotten, WorkerEnds
    <3>2. CASE Answer(s) \/ Wipe(s) \/ Copy(s) \/ Relaunch(s)
      BY <3>2, ScriptFrame
    <3> QED
      BY <1>6, <3>1, <3>2 DEF ScriptStep
  <2>2. installed' \in {installed, 0, scripts[s].bundle}
    BY <1>6 DEF ScriptStep, Answer, KillByName, Wipe, Copy, Relaunch
  <2>3. \E at \in {"waiting", "wiping", "copying", "relaunching", "over"} :
          scripts' = [scripts EXCEPT ![s].at = at]
    BY <1>6 DEF ScriptStep, Answer, KillByName, Wipe, Copy, Relaunch, ScriptGoes
  <2>4. PICK at \in {"waiting", "wiping", "copying", "relaunching", "over"} :
          scripts' = [scripts EXCEPT ![s].at = at]
    BY <2>3
  <2> QED
    BY <2>1, <2>2, <2>4
<1>7. ASSUME NEW p \in Processes, ReadConfig(p) \/ Ends(p) PROVE DiskTypeOK'
  BY <1>7 DEF ReadConfig, Ends
<1>8. CASE UNCHANGED vars
  BY <1>8 DEF vars
<1> QED
  BY <1>1, <1>2, <1>3, <1>4, <1>5, <1>6, <1>7, <1>8 DEF Next

-----------------------------------------------------------------------------
(* What a game is launched with.                                           *)

\* What none of the worker's places depends on.
LEMMA AskedKept ==
  ASSUME Idle, InHand, HostStarts, SaveCounts, InPlace,
         UNCHANGED <<app, worker, job, asked, spawned, served, saved, config, ini>>,
         window' = "saving" => window = "saving" /\ typed' = typed
  PROVE  Idle' /\ InHand' /\ HostStarts' /\ SaveCounts' /\ InPlace'
BY DEF Idle, InHand, HostStarts, StartsRelay, SaveCounts, InPlace, IniFits, IniIsCut, ConfigFits

LEMMA WorkerAsked ==
  ASSUME LauncherTypeOK, Asked, WorkerStep
  PROVE  Idle' /\ InHand' /\ HostStarts' /\ SaveCounts' /\ InPlace'
<1>0. UNCHANGED <<app, window, typed>>
  BY WorkerFrame
<1>1. CASE \E o \in {"done", "error"} : JobEnds(o)
  <2>1. /\ worker' = "none" /\ spawned' = 0 /\ served' = "none" /\ saved' = {}
    BY <1>1 DEF JobEnds, WorkerEnds
  <2> QED
    BY <2>1 DEF Idle, InHand, HostStarts, StartsRelay, SaveCounts, InPlace
<1>2. CASE WorkerStep /\ worker' # "none"
  <2>1. UNCHANGED <<job, asked, served, saved>> /\ worker # "none"
    BY <1>2, WorkerFrame
    DEF WorkerStep, Raises, Ensure, Preflight, RunScript, CopyFiles, WriteIni, LaunchGame, Report,
        CheckRelay, PollRelay, Spawn, Assign, Download, Compare, Apply, GoesOn, JobEnds, WorkerEnds,
        jobVars
  <2>2. Idle' /\ SaveCounts'
    BY <1>0, <1>2, <2>1 DEF Idle, SaveCounts, Asked
  <2>3. CASE Ensure \/ Preflight \/ RunScript \/ Download \/ Compare \/ \E s \in 1..MaxScripts : Apply(s)
    <3>1. /\ UNCHANGED <<spawned, config, ini>>
          /\ worker \notin {"assigning", "launching", "reporting"}
          /\ worker' \in {"copying", "preflight", "reporting", "comparing", "applying"}
      BY <1>2, <2>3 DEF Ensure, Preflight, RunScript, Download, Compare, Apply, GoesOn, JobEnds,
                        WorkerEnds, fileVars, jobVars
    <3> QED
      BY <2>1, <2>2, <3>1
      DEF Asked, InHand, HostStarts, StartsRelay, InPlace, IniFits, IniIsCut, ConfigFits
  <2>4. CASE CopyFiles
    <3>1. /\ spawned' = spawned /\ ini' = "none"
          /\ config' = IF app = "host" THEN asked ELSE config
          /\ \/ worker = "copying" /\ worker' = "writing"
             \/ worker = "recopying" /\ worker' = "rewriting"
      BY <2>4 DEF CopyFiles, GoesOn
    <3> QED
      BY <1>0, <2>1, <2>2, <3>1
      DEF Asked, InHand, HostStarts, StartsRelay, InPlace, IniFits, IniIsCut, ConfigFits
  <2>5. CASE WriteIni
    <3>1. /\ spawned' = spawned /\ config' = config
          /\ ini' \in Written(asked)
          /\ worker \in {"writing", "rewriting"}
          /\ worker' \in {"spawning", "reporting", "checking", "launching"}
          /\ worker' = "spawning" => worker = "rewriting"
          /\ worker' = "checking" => job = "host"
      BY <2>5 DEF WriteIni, GoesOn, IniOf, fileVars
    <3>2. IniFits'
      BY <2>1, <3>1 DEF Asked, InPlace, IniIsCut, IniFits, Written
    <3>3. worker' = "checking" => app = "host"
      BY <2>1, <3>1, HostJobs DEF LauncherTypeOK, WorkerTypeOK
    <3> QED
      BY <1>0, <2>1, <2>2, <3>1, <3>2, <3>3
      DEF Asked, InHand, HostStarts, StartsRelay, InPlace, ConfigFits
  <2>6. CASE CheckRelay \/ PollRelay
    <3>1. /\ UNCHANGED <<spawned, config, ini>>
          /\ worker \in {"checking", "polling"}
          /\ worker' \in {"polling", "recopying", "launching", "reporting"}
          /\ worker' = "launching" => job = "host"
      BY <2>6 DEF CheckRelay, PollRelay, GoesOn, AfterStart, fileVars
    <3> QED
      BY <1>0, <2>1, <2>2, <3>1
      DEF Asked, InHand, HostStarts, StartsRelay, InPlace, IniFits, IniIsCut, ConfigFits
  <2>7. CASE Spawn \/ Assign
    <3>1. /\ UNCHANGED <<config, ini>>
          /\ Spawn => worker = "spawning" /\ worker' = "assigning" /\ spawned' = started + 1
          /\ Assign => worker = "assigning" /\ worker' \in {"launching", "reporting"} /\ spawned' = spawned
      BY <2>7 DEF Spawn, Assign, AfterStart, fileVars, jobVars
    <3>2. started + 1 # 0
      BY LauncherAssumption DEF LauncherTypeOK, RelayTypeOK
    <3> QED
      BY <1>0, <2>1, <2>2, <2>7, <3>1, <3>2
      DEF Asked, InHand, HostStarts, StartsRelay, InPlace, IniFits, IniIsCut, ConfigFits
  <2> QED
    BY <1>2, <2>3, <2>4, <2>5, <2>6, <2>7
    DEF WorkerStep, Raises, LaunchGame, Report, JobEnds, WorkerEnds
<1> QED
  BY <1>1, <1>2, WorkerFrame

LEMMA AskedHolds ==
  ASSUME LauncherTypeOK, Asked, [Next]_vars
  PROVE  Idle' /\ InHand' /\ HostStarts' /\ SaveCounts' /\ InPlace'
<1>i. OneJob /\ Idle /\ InHand /\ HostStarts /\ SaveCounts /\ InPlace
  BY DEF Asked
<1> USE DEF workerVars, jobVars, windowVars, relayVars, fileVars
<1>1. ASSUME NEW j \in Jobs[app], Press(j)
      PROVE Idle' /\ InHand' /\ HostStarts' /\ SaveCounts' /\ InPlace'
  <2>1. worker = "none" /\ spawned = 0 /\ served = "none"
    BY <1>i, <1>1 DEF Press, MayRun, OneJob, BusyForAJob, Idle, LauncherTypeOK, OutcomeTypeOK
  <2>2. /\ UNCHANGED <<app, window, spawned, served>> /\ saved' = {} /\ window = "ready"
        /\ worker' = FirstStep(j) /\ job' = j
    BY <1>1 DEF Press
  <2>3. /\ worker' \in {"preflight", "ensuring", "checking", "scripting", "downloading"}
        /\ worker' = "checking" => j = "start"
    BY <2>2, JobNames DEF FirstStep, LauncherTypeOK
  <2>4. worker' = "checking" => app = "host"
    BY <2>3, JobNames, HostJobs DEF LauncherTypeOK
  <2> QED
    BY <2>1, <2>2, <2>3, <2>4 DEF Idle, InHand, HostStarts, StartsRelay, SaveCounts, InPlace
<1>2. CASE WorkerStep
  BY <1>2, WorkerAsked
<1>3. CASE Poll
  BY <1>i, <1>3, AskedKept DEF Poll
<1>4. CASE SaveSettings
  <2>1. /\ UNCHANGED <<app, worker, job, asked, spawned, served>>
        /\ window' = "saving" /\ config' = typed' /\ ini' = "none"
        /\ worker # "none" => saved' = saved \cup {typed'}
    BY <1>4 DEF SaveSettings
  <2>2. CASE worker = "none"
    BY <1>i, <1>4, <2>1, <2>2
    DEF SaveSettings, Idle, InHand, HostStarts, StartsRelay, SaveCounts, InPlace
  <2>3. CASE worker # "none"
    BY <1>i, <2>1, <2>3
    DEF Idle, InHand, HostStarts, StartsRelay, SaveCounts, InPlace, IniFits, IniIsCut, ConfigFits
  <2> QED
    BY <2>2, <2>3
<1>5. CASE SaveIni
  <2>1. /\ UNCHANGED <<app, worker, job, asked, spawned, served, saved, config>>
        /\ window = "saving" /\ window' = "ready"
        /\ ini' \in {typed, "none", ini}
        /\ ini' # "none" \/ ini = "none" \/ worker = "none" \/ typed \in saved
    BY <1>i, <1>5 DEF SaveIni, Written, SaveCounts
  <2>2. worker # "none" => typed \in saved
    BY <1>i, <2>1 DEF SaveCounts
  <2> QED
    BY <1>i, <2>1, <2>2
    DEF Idle, InHand, HostStarts, StartsRelay, SaveCounts, InPlace, IniFits, IniIsCut, ConfigFits
<1>6. CASE StopRelay \/ OnClose \/ StoppingStep \/ Destroy \/ Open
  <2>1. UNCHANGED <<app, typed, worker, job, asked, spawned, served, saved, config, ini>> /\ window' # "saving"
    BY <1>6, StoppingFrame
  <2> QED
    BY <1>i, <2>1, AskedKept
<1>7. ASSUME WorkerEnds, window' = "closed", app' = app
      PROVE Idle' /\ InHand' /\ HostStarts' /\ SaveCounts' /\ InPlace'
  BY <1>7 DEF WorkerEnds, Idle, InHand, HostStarts, StartsRelay, SaveCounts, InPlace
<1>8. CASE Exit
  BY <1>7, <1>8 DEF Exit, Forgotten
<1>9. ASSUME NEW s \in 1..MaxScripts, Answer(s) \/ ScriptStep(s)
      PROVE Idle' /\ InHand' /\ HostStarts' /\ SaveCounts' /\ InPlace'
  <2>1. CASE KillByName(s)
    BY <1>7, <2>1 DEF KillByName, Forgotten
  <2>2. CASE Answer(s) \/ Wipe(s) \/ Copy(s) \/ Relaunch(s)
    <3>1. /\ UNCHANGED <<app, typed, worker, job, asked, spawned, served, saved, config, ini>>
          /\ window' = window \/ window' = "ready"
      BY <2>2, ScriptFrame
    <3> QED
      BY <1>i, <3>1, AskedKept
  <2> QED
    BY <1>9, <2>1, <2>2 DEF ScriptStep
<1>10. ASSUME NEW p \in Processes, ReadConfig(p)
       PROVE Idle' /\ InHand' /\ HostStarts' /\ SaveCounts' /\ InPlace'
  <2>1. /\ UNCHANGED <<app, window, typed, worker, job, asked, spawned, saved, config, ini>>
        /\ served' = config /\ spawned = p
    BY <1>10 DEF ReadConfig
  <2>2. p # 0
    BY LauncherAssumption DEF Processes
  <2> QED
    BY <1>i, <2>1, <2>2
    DEF Idle, InHand, HostStarts, StartsRelay, SaveCounts, InPlace, IniFits, IniIsCut, ConfigFits
<1>11. ASSUME NEW p \in Processes, Ends(p)
       PROVE Idle' /\ InHand' /\ HostStarts' /\ SaveCounts' /\ InPlace'
  BY <1>i, <1>11, AskedKept DEF Ends
<1>12. CASE UNCHANGED vars
  BY <1>i, <1>12, AskedKept DEF vars
<1> QED
  BY <1>1, <1>2, <1>3, <1>4, <1>5, <1>6, <1>8, <1>9, <1>10, <1>11, <1>12 DEF Next

-----------------------------------------------------------------------------
(* Which relay processes the launcher knows.                               *)

\* Steps that neither start, assign nor forget a relay keep hold of them all.
LEMMA KeptLemma ==
  ASSUME Kept, UNCHANGED <<relay, started, spawned, loose>>,
         \A p \in Processes : proc'[p] \in Held => proc[p] \in Held,
         worker = "assigning" => worker' = "assigning",
         /\ worker' \in {"recopying", "rewriting", "spawning", "assigning"}
            => worker \in {"recopying", "rewriting", "spawning", "assigning"} \/ ~Alive(relay),
         window' \in {"waiting", "waiting again"}
            => target' = relay \/ (window' = window /\ target' = target),
         window' = "finishing"
            => window = "finishing" \/ (window \in {"waiting", "waiting again"} /\ ~Alive(target))
  PROVE  Kept'
<1> USE DEF Kept, Alive
<1>1. NoneYet'
  BY DEF NoneYet
<1>2. WaitsForRelay'
  BY DEF WaitsForRelay
<1>3. Numbered'
  BY DEF Numbered
<1>4. RelayIsKnown'
  BY DEF RelayIsKnown
<1> QED
  BY <1>1, <1>2, <1>3, <1>4

\* A launcher that is over knows of none.
LEMMA NoneKnown ==
  ASSUME RelayTypeOK, Kept, Forgotten, started' = started, window' = "closed",
         \A p \in Processes : proc'[p] \in Held => proc[p] \in Held
  PROVE  Kept'
<1>1. relay' = 0 /\ loose' = 1..started /\ worker' = "none"
  BY DEF Forgotten, WorkerEnds
<1>2. \A p \in Processes : Alive(p)' => p <= started /\ p \in 1..started
  BY LauncherAssumption DEF Kept, Numbered, Alive, Processes, RelayTypeOK
<1>3. Numbered' /\ RelayIsKnown'
  BY <1>1, <1>2 DEF Numbered, RelayIsKnown
<1> QED
  BY <1>1, <1>3 DEF Kept, NoneYet, WaitsForRelay, Alive

LEMMA SpawnKeeps ==
  ASSUME RelayTypeOK, Kept, Spawn
  PROVE  Kept'
<1>t. /\ MaxStarts \in Nat /\ started \in 0..MaxStarts /\ started < MaxStarts
      /\ relay \in 0..started /\ proc \in [Processes -> Fates]
  BY LauncherAssumption DEF RelayTypeOK, Spawn
<1>1. /\ started' = started + 1 /\ spawned' = started + 1 /\ relay' = relay /\ loose \subseteq loose'
      /\ worker = "spawning" /\ worker' = "assigning" /\ UNCHANGED <<window, target>>
  BY DEF Spawn, MayEscape, windowVars
<1>2. \A p \in Processes : p # started + 1 => proc'[p] = proc[p]
  BY <1>t DEF Spawn
<1>3. started + 1 # relay /\ ~Alive(relay) /\ ~Alive(relay)'
  BY <1>t, <1>1, <1>2 DEF Kept, NoneYet, Alive
<1>4. \A p \in Processes : Alive(p)' => p = started + 1 \/ Alive(p)
  BY <1>2 DEF Alive
<1>5. Numbered'
  BY <1>t, <1>1, <1>4 DEF Kept, Numbered, Processes
<1>6. RelayIsKnown'
  BY <1>1, <1>4 DEF Kept, RelayIsKnown
<1>7. WaitsForRelay'
  BY <1>1, <1>3 DEF Kept, WaitsForRelay
<1> QED
  BY <1>1, <1>3, <1>5, <1>6, <1>7 DEF Kept, NoneYet

LEMMA AssignKeeps ==
  ASSUME Kept, Assign
  PROVE  Kept'
<1>1. /\ UNCHANGED <<started, proc, spawned, window, target>>
      /\ relay' = spawned /\ loose' = MayEscape(spawned)
      /\ worker = "assigning" /\ worker' \in {"launching", "reporting"}
      /\ ~Alive(relay)
  BY DEF Assign, AfterStart, Kept, NoneYet, jobVars, windowVars
<1>2. loose \subseteq loose' /\ (Stopping => spawned \in loose')
  BY <1>1 DEF MayEscape
<1>3. WaitsForRelay'
  BY <1>1, <1>2 DEF WaitsForRelay, Stopping
<1>4. RelayIsKnown' /\ Numbered'
  BY <1>1, <1>2 DEF Kept, RelayIsKnown, Numbered, Alive
<1> QED
  BY <1>1, <1>3, <1>4 DEF Kept, NoneYet

LEMMA KeptHolds ==
  ASSUME LauncherTypeOK, Asked, Kept, [Next]_vars
  PROVE  Kept'
<1>t. RelayTypeOK
  BY DEF LauncherTypeOK
<1> USE DEF workerVars, jobVars, windowVars, relayVars
<1>1. ASSUME NEW j \in Jobs[app], Press(j) PROVE Kept'
  <2>1. worker = "none" /\ worker' \notin {"recopying", "rewriting", "spawning", "assigning"}
    BY <1>1, JobNames
    DEF Press, MayRun, FirstStep, LauncherTypeOK, Asked, OneJob, BusyForAJob, OutcomeTypeOK
  <2>2. UNCHANGED <<relay, started, spawned, loose, proc, window, target>>
    BY <1>1 DEF Press
  <2> QED
    BY <2>1, <2>2, KeptLemma
<1>2. CASE Spawn
  BY <1>t, <1>2, SpawnKeeps
<1>3. CASE Assign
  BY <1>3, AssignKeeps
<1>4. CASE WorkerStep /\ UNCHANGED relayVars
  <2>1. CASE Spawn \/ Assign
    BY <1>2, <1>3, <2>1
  <2>2. CASE ~ (Spawn \/ Assign)
    <3>1. UNCHANGED <<relay, started, loose, proc, window, target>>
      BY <1>4, WorkerFrame
    <3>2. /\ worker # "assigning"
          /\ worker' \notin {"assigning"}
          /\ worker' \in {"recopying", "rewriting", "spawning"}
               => worker \in {"recopying", "rewriting"} \/ ~Alive(relay)
      BY <1>4, <2>2, LauncherAssumption
      DEF WorkerStep, Raises, MayRaise, SavesLast, Vanished, Ensure, Preflight, RunScript, CopyFiles,
          WriteIni, LaunchGame, Report, CheckRelay, PollRelay, Download, Compare, Apply, GoesOn,
          JobEnds, WorkerEnds, AfterStart, Alive, Processes
    <3>3. Kept'
      <4>1. NoneYet'
        BY <3>1, <3>2 DEF Kept, NoneYet, Alive
      <4>2. WaitsForRelay' /\ Numbered'
        BY <3>1 DEF Kept, WaitsForRelay, Numbered, Alive
      <4>3. RelayIsKnown'
        BY <3>1, <3>2 DEF Kept, RelayIsKnown, Alive
      <4> QED
        BY <4>1, <4>2, <4>3 DEF Kept
    <3> QED
      BY <3>3
  <2> QED
    BY <2>1, <2>2
<1>5. CASE Poll \/ SaveSettings \/ SaveIni
  <2>1. /\ UNCHANGED <<relay, started, spawned, loose, proc, worker, target>>
        /\ window' \in {window, "ready", "saving"}
    BY <1>5 DEF Poll, SaveSettings, SaveIni
  <2> QED
    BY <2>1, KeptLemma
<1>6. CASE StopRelay \/ OnClose \/ Terminate \/ BeginWait \/ WaitReturns \/ WaitTimesOut
           \/ Destroy \/ Open
  <2>1. \A p \in Processes : proc'[p] \in Held => proc[p] \in Held
    BY <1>t, <1>6, NobodyWakes DEF StoppingStep
  <2>2. UNCHANGED <<started, spawned, loose, worker>>
    BY <1>6, StoppingFrame DEF StoppingStep
  <2>3. relay' = relay
    BY <1>6 DEF StopRelay, OnClose, Terminate, BeginWait, WaitReturns, WaitTimesOut, Destroy, Open
  <2>4. window' \in {"waiting", "waiting again"} => target' = relay
    BY <1>6 DEF StopRelay, OnClose, Terminate, BeginWait, WaitReturns, WaitTimesOut, AfterTimeout,
                Destroy, Open, WindowGoes
  <2>5. window' = "finishing" => window \in {"waiting", "waiting again"} /\ ~Alive(target)
    BY <1>6 DEF StopRelay, OnClose, Terminate, BeginWait, WaitReturns, WaitTimesOut, AfterTimeout,
                Destroy, Open, WindowGoes
  <2> QED
    BY <2>1, <2>2, <2>3, <2>4, <2>5, KeptLemma
<1>7. CASE Finish
  <2>1. /\ UNCHANGED <<started, spawned, loose, proc, worker>>
        /\ window = "finishing" /\ window' \in {"ready", "gone"}
        /\ relay' \in {relay, 0}
    BY <1>7 DEF Finish, WindowGoes
  <2>2. ~Alive(relay) \/ relay \in loose
    BY <2>1 DEF Kept, WaitsForRelay
  <2>3. ~Alive(0)
    BY LauncherAssumption DEF Alive, Processes
  <2>4. NoneYet' /\ Numbered'
    BY <2>1, <2>3 DEF Kept, NoneYet, Numbered, Alive
  <2>5. RelayIsKnown'
    BY <2>1, <2>2 DEF Kept, RelayIsKnown, Alive
  <2> QED
    BY <2>1, <2>4, <2>5 DEF Kept, WaitsForRelay
<1>8. CASE Exit
  BY <1>t, <1>8, NoneKnown DEF Exit
<1>9. ASSUME NEW s \in 1..MaxScripts, KillByName(s) PROVE Kept'
  <2>1. \A p \in Processes : proc'[p] \in Held => proc[p] \in Held
    BY <1>t, <1>9, NobodyWakes
  <2> QED
    BY <1>t, <1>9, <2>1, NoneKnown DEF KillByName
<1>10. ASSUME NEW s \in 1..MaxScripts, Answer(s) \/ Wipe(s) \/ Copy(s) \/ Relaunch(s) PROVE Kept'
  <2>1. /\ UNCHANGED <<relay, started, spawned, loose, proc, worker, target>>
        /\ window' = window \/ window' = "ready"
    BY <1>10, ScriptFrame
  <2> QED
    BY <2>1, KeptLemma
<1>11. ASSUME NEW p \in Processes, ReadConfig(p) PROVE Kept'
  BY <1>11, KeptLemma DEF ReadConfig
<1>12. ASSUME NEW p \in Processes, Ends(p) PROVE Kept'
  <2>1. \A q \in Processes : proc'[q] \in Held => proc[q] \in Held
    BY <1>t, <1>12, NobodyWakes
  <2> QED
    BY <1>12, <2>1, KeptLemma DEF Ends
<1>13. CASE UNCHANGED vars
  BY <1>13, KeptLemma DEF vars
<1> QED
  BY <1>1, <1>2, <1>3, <1>4, <1>5, <1>6, <1>7, <1>8, <1>9, <1>10, <1>11, <1>12, <1>13, WorkerFrame
  DEF Next, ScriptStep, StoppingStep

-----------------------------------------------------------------------------
(* The theorems.                                                           *)

LEMMA InitHolds == Init => LauncherInv
<1> SUFFICES ASSUME Init PROVE LauncherInv
  OBVIOUS
<1>0. MaxStarts \in Nat /\ MaxBuild \in Nat
  BY LauncherAssumption
<1> USE DEF Init
<1>1. WindowTypeOK /\ WorkerTypeOK /\ OutcomeTypeOK
  BY DEF WindowTypeOK, WorkerTypeOK, OutcomeTypeOK
<1>2. RelayTypeOK
  BY <1>0 DEF RelayTypeOK, Fates, Held
<1>3. DiskTypeOK
  BY <1>0 DEF DiskTypeOK
<1>4. Asked
  BY DEF Asked, OneJob, BusyForAJob, Idle, InHand, HostStarts, StartsRelay, SaveCounts, InPlace
<1>5. Kept
  BY DEF Kept, NoneYet, WaitsForRelay, Numbered, RelayIsKnown, Alive, Held, Processes
<1> QED
  BY <1>1, <1>2, <1>3, <1>4, <1>5 DEF LauncherInv, LauncherTypeOK

LEMMA InvHolds == Spec => []LauncherInv
<1>1. LauncherInv /\ [Next]_vars => LauncherInv'
  <2> SUFFICES ASSUME LauncherInv, [Next]_vars PROVE LauncherInv'
    OBVIOUS
  <2>1. LauncherTypeOK /\ Asked /\ Kept /\ OneJob /\ InHand
    BY DEF LauncherInv, Asked
  <2>2. LauncherTypeOK' /\ OneJob'
    BY <2>1, WindowTypes, WorkerTypes, OutcomeTypes, RelayTypes, DiskTypes DEF LauncherTypeOK
  <2>3. Asked'
    BY <2>1, <2>2, AskedHolds DEF Asked
  <2> QED
    BY <2>1, <2>2, <2>3, KeptHolds DEF LauncherInv
<1> QED
  BY InitHolds, <1>1, PTL DEF Spec

\* The launcher's state keeps its types: at most one outcome waits to be polled.
THEOREM LauncherTypes == Spec => []LauncherTypeOK
BY InvHolds, PTL DEF LauncherInv

\* However a job ends, the buttons come back when its outcome is polled, and not
\* before: nothing but that poll and the end of the process frees them.
THEOREM BusyOnlyForAJob == Spec => []BusyForAJob
<1>1. LauncherInv => BusyForAJob
  BY DEF LauncherInv, Asked, OneJob
<1> QED
  BY InvHolds, <1>1, PTL

\* Every living process that a launcher was given is the one self.relay_process
\* names or is about to name, or was started or assigned while the window was
\* stopping a relay.
THEOREM NoRelayIsLost == Spec => []RelayIsKnown
<1>1. LauncherInv => RelayIsKnown
  BY DEF LauncherInv, Kept
<1> QED
  BY InvHolds, <1>1, PTL

\* Whatever launches the game has put its ini in place before, and what a Save
\* Settings wrote meanwhile is all that can lie there instead.
THEOREM GameGetsWhatWasAsked == Spec => []LaunchesAsAsked
<1>1. LauncherInv => LaunchesAsAsked
  BY DEF LauncherInv, Asked, InPlace, IniFits, LaunchesAsAsked
<1> QED
  BY InvHolds, <1>1, PTL
=============================================================================
