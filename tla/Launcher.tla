------------------------------ MODULE Launcher -------------------------------
(***************************************************************************)
(* The two launchers, launcher/joiner_gui.py and launcher/host_gui.py.     *)
(* Both are a window and one background worker with a queue between them;  *)
(* both put the plugin and its ini into the game's folder, launch the game *)
(* and leave a script behind that replaces them by another build.  The     *)
(* host's also keeps a relay process and rewrites the files from its       *)
(* window: its two threads share both without a lock.  A step is what lies *)
(* between two uses of something another thread, a script or a process may *)
(* change.                                                                 *)
(*                                                                         *)
(* What the user has typed is free at any time: whatever reads the form    *)
(* reads any of Values.                                                    *)
(***************************************************************************)
EXTENDS Naturals, Sequences

CONSTANTS
  Apps,       \* the launchers a user may have opened: "joiner", "host"
  Jobs,       \* [app -> the buttons used of those that run in the background]
  Values,     \* what the form may hold, as far as validate_inputs lets it pass
  Packed,     \* the starts of a relay, by number, that find a packed one
  MaxStarts,  \* bound: relay processes ever started
  MaxScripts, \* bound: update scripts ever started
  MaxBuild,   \* bound: builds of the launcher are 1..MaxBuild, in order of time
  Unstamped,  \* builds without a time that parse_build_timestamp can read
  Bare        \* builds that were bundled without the launcher's executable

JobsOf == [joiner |-> {"check", "install", "join", "update"},
           host   |-> {"check", "install", "firewall", "launch", "start", "host", "update"}]

ASSUME LauncherAssumption ==
  /\ Apps \subseteq {"joiner", "host"}
  /\ \A a \in Apps : Jobs[a] \subseteq JobsOf[a]
  /\ "none" \notin Values
  /\ MaxStarts \in Nat
  /\ MaxScripts \in Nat
  /\ MaxBuild \in Nat

VARIABLES
  app,       \* which of the two it is
  window,    \* what the window's thread is doing; "closed" when the process is over
  closing,   \* update_app has told Tk to destroy the window
  goal,      \* "stop" or "close", while it stops a relay
  target,    \* the process it waits for
  typed,     \* the values save_settings_only is writing
  worker,    \* what the worker is doing
  job,       \* the job it runs
  asked,     \* the values the job was started with
  fetched,   \* the build the job has downloaded
  spawned,   \* the relay process the job has started
  served,    \* the values that this relay has read from relay_config.json (history)
  saved,     \* the values that the window has written since the job began (history)
  busy,      \* self.busy
  queue,     \* outcomes the window has not polled yet
  relay,     \* self.relay_process; 0 is None
  started,   \* relay processes started so far
  proc,      \* what has become of each
  loose,     \* those started while the window stopped one, or by a launcher now over (history)
  config,    \* the values in relay_config.json
  ini,       \* the values in the plugin's ini; "none" while it is cut
  installed, \* the launcher's build on disk; 0 when it is not whole
  scripts    \* the update scripts: what each does and the build it brings

windowVars == <<app, window, closing, goal, target, typed>>
jobVars == <<job, asked, fetched, spawned, served, saved>>
workerVars == <<worker, jobVars>>
uiVars == <<busy, queue>>
relayVars == <<relay, started, proc, loose>>
fileVars == <<config, ini>>
updateVars == <<installed, scripts>>
vars == <<windowVars, workerVars, uiVars, relayVars, fileVars, updateVars>>

Processes == 1..MaxStarts

\* A packed relay is two processes: the one-file bootloader that Popen holds, and
\* the relay, its child.  Told to end, the bootloader goes ("leaving") and the
\* relay stays, an orphan.  A relay run by an interpreter is one process.
Held == {"packed", "leaving", "plain", "ending"}
Fates == Held \cup {"none", "orphan", "dead"}

\* "is not None and poll() is None"
Alive(p) == p \in Processes /\ proc[p] \in Held

Stopping == window \in {"terminating", "terminated", "waiting", "killing", "killed",
                        "waiting again", "finishing"}

-----------------------------------------------------------------------------
(* The worker: run_background's runner and the work of each button.        *)

\* A second job may start as soon as the worker is through.
MayRun_slip == worker = "none"

\* run_background refuses while busy.
MayRun == ~busy

\* Jobs that work with the form's values, as they were when the button was pressed.
TakesValues == {"check", "join", "launch", "start", "host"}

\* Where the work of a job begins.
FirstStep(j) ==
  CASE j = "check" -> "preflight"
    [] j \in {"join", "launch", "host"} -> "ensuring"
    [] j = "start" -> "checking"
    [] j \in {"install", "firewall"} -> "scripting"
    [] j = "update" -> "downloading"

\* A button: the inputs are valid, or nothing happens.
Press(j) ==
  /\ window = "ready"
  /\ MayRun
  /\ busy' = TRUE
  /\ job' = j
  /\ \E v \in Values : asked' = IF j \in TakesValues THEN v ELSE "none"
  /\ saved' = {}
  /\ worker' = FirstStep(j)
  /\ UNCHANGED <<windowVars, fetched, spawned, served, queue, relayVars, fileVars, updateVars>>

\* The worker goes on to its next place.
GoesOn(next) ==
  /\ worker' = next
  /\ UNCHANGED <<windowVars, job, asked, spawned, served, saved, uiVars>>

\* The worker's thread is over, and what the job knew is gone.
WorkerEnds ==
  /\ worker' = "none"
  /\ job' = "none" /\ asked' = "none" /\ fetched' = 0 /\ spawned' = 0 /\ served' = "none"
  /\ saved' = {}

\* An error goes unreported.
Outcome_slip(o) == IF o = "error" THEN queue' = queue ELSE queue' = Append(queue, o)

\* The runner puts the outcome of its job into the queue and ends.
Outcome(o) == queue' = Append(queue, o)

JobEnds(o) ==
  /\ Outcome(o)
  /\ WorkerEnds
  /\ UNCHANGED <<windowVars, busy, relayVars, fileVars, updateVars>>

\* Places from which the work may raise: a check fails, a file or a process
\* cannot be had, the download is no bundle, the window is gone.
MayRaise ==
  {"ensuring", "preflight", "scripting", "downloading", "comparing", "applying",
   "copying", "writing", "recopying", "rewriting", "spawning", "launching"}

\* save_settings comes last in a check and in an install.
SavesLast == worker = "reporting" /\ job \in {"check", "install"}

\* poll() of a process that stop_relay has forgotten since it was found.
Vanished == worker = "polling" /\ relay = 0

Raises ==
  /\ worker \in MayRaise \/ SavesLast \/ Vanished
  /\ JobEnds("error")

\* ensure_xobse.
Ensure ==
  /\ worker = "ensuring"
  /\ GoesOn(IF job = "join" THEN "preflight" ELSE "copying")
  /\ UNCHANGED <<fetched, relayVars, fileVars, updateVars>>

\* build_preflight_report: of the joiner, which reaches for the relay, or of the
\* host, whose check also writes the files.
Preflight ==
  /\ worker = "preflight"
  /\ GoesOn(IF app = "joiner" /\ job = "check" THEN "reporting" ELSE "copying")
  /\ UNCHANGED <<fetched, relayVars, fileVars, updateVars>>

\* install_xobse.ps1 or open_firewall_port.ps1.
RunScript ==
  /\ worker = "scripting"
  /\ GoesOn("reporting")
  /\ UNCHANGED <<fetched, relayVars, fileVars, updateVars>>

\* write_runtime_files writes relay_config.json and copies the bundle's files, as
\* deploy_plugin does, which has no relay to configure; then the ini is cut ...
CopyFiles ==
  /\ worker \in {"copying", "recopying"}
  /\ config' = IF app = "host" THEN asked ELSE config
  /\ ini' = "none"
  /\ GoesOn(IF worker = "copying" THEN "writing" ELSE "rewriting")
  /\ UNCHANGED <<fetched, relayVars, updateVars>>

\* What write_text leaves of v.  An ini that is not empty any more was written by
\* the other thread since this one cut it: the two texts lie over each other.
Written(v) == IF ini = "none" THEN {v} ELSE {v, "none"}

\* What the form holds by now.
IniOf_slip == Values

\* What the ini is made from.
IniOf == Written(asked)

\* ... to write it anew; save_settings follows.
WriteIni ==
  /\ worker \in {"writing", "rewriting"}
  /\ ini' \in IniOf
  /\ GoesOn(CASE worker = "rewriting" -> "spawning"
              [] worker = "writing" /\ job = "check" -> "reporting"
              [] worker = "writing" /\ job = "host" -> "checking"
              [] OTHER -> "launching")
  /\ UNCHANGED <<fetched, relayVars, config, updateVars>>

\* launch_game ends the work of its buttons.
LaunchGame ==
  /\ worker = "launching"
  /\ JobEnds("done")

\* The work of the other buttons is done.
Report ==
  /\ worker = "reporting"
  /\ JobEnds("done")

-----------------------------------------------------------------------------
(* start_relay_process, in the host's worker.                              *)

AfterStart == IF job = "host" THEN "launching" ELSE "reporting"

\* self.relay_process is read once ...
CheckRelay ==
  /\ worker = "checking"
  /\ GoesOn(IF relay = 0 THEN "recopying" ELSE "polling")
  /\ UNCHANGED <<fetched, relayVars, fileVars, updateVars>>

\* ... and once more, to be polled.
PollRelay ==
  /\ worker = "polling"
  /\ relay # 0
  /\ GoesOn(IF Alive(relay) THEN AfterStart ELSE "recopying")
  /\ UNCHANGED <<fetched, relayVars, fileVars, updateVars>>

\* A process started or assigned while the window stops one may escape it.
MayEscape(p) == IF Stopping THEN loose \cup {p} ELSE loose

\* Popen: the process runs before it is assigned.
Spawn ==
  /\ worker = "spawning"
  /\ started < MaxStarts
  /\ started' = started + 1
  /\ spawned' = started'
  /\ proc' = [proc EXCEPT ![started'] = IF started' \in Packed THEN "packed" ELSE "plain"]
  /\ loose' = MayEscape(started')
  /\ worker' = "assigning"
  /\ UNCHANGED <<windowVars, job, asked, fetched, served, saved, uiVars, relay, fileVars,
                 updateVars>>

Assign ==
  /\ worker = "assigning"
  /\ relay' = spawned
  /\ loose' = MayEscape(spawned)
  /\ worker' = AfterStart
  /\ UNCHANGED <<windowVars, jobVars, uiVars, started, proc, fileVars, updateVars>>

-----------------------------------------------------------------------------
(* The window's thread.                                                    *)

\* poll_queue takes all there is; done and error both end busy.
Poll ==
  /\ window = "ready"
  /\ queue # <<>>
  /\ queue' = <<>>
  /\ busy' = FALSE
  /\ UNCHANGED <<windowVars, workerVars, relayVars, fileVars, updateVars>>

\* save_settings_only of the host, busy or not: relay_config.json is written, the
\* bundle's files are copied, and the ini is cut ...
SaveSettings ==
  /\ window = "ready"
  /\ app = "host"
  /\ \E v \in Values : typed' = v /\ config' = v
  /\ ini' = "none"
  /\ saved' = IF worker = "none" THEN saved ELSE saved \cup {typed'}
  /\ window' = "saving"
  /\ UNCHANGED <<app, closing, goal, target, worker, job, asked, fetched, spawned, served,
                 uiVars, relayVars, updateVars>>

\* ... and written, unless that fails.
SaveIni ==
  /\ window = "saving"
  /\ ini' \in Written(typed) \cup {ini}
  /\ typed' = "none"
  /\ window' = "ready"
  /\ UNCHANGED <<app, closing, goal, target, workerVars, uiVars, relayVars, config, updateVars>>

\* The window's thread moves to its next place.
WindowGoes(next) ==
  /\ window' = next
  /\ UNCHANGED <<app, closing, typed, workerVars, uiVars, started, loose, fileVars, updateVars>>

\* stop_relay; without a running relay it only says so.
StopRelay ==
  /\ window = "ready"
  /\ Alive(relay)
  /\ goal' = "stop"
  /\ WindowGoes("terminating")
  /\ UNCHANGED <<target, relay, proc>>

\* on_close; without a running relay the window is destroyed at once, as the
\* joiner's always is.
OnClose ==
  /\ window = "ready"
  /\ goal' = "close"
  /\ WindowGoes(IF Alive(relay) THEN "terminating" ELSE "gone")
  /\ UNCHANGED <<target, relay, proc>>

\* What terminate() and kill() make of a process that runs.
Told(fate) == IF fate \in {"packed", "leaving"} THEN "leaving" ELSE "ending"

\* They act on whatever self.relay_process is by then.
Terminate ==
  /\ window \in {"terminating", "killing"}
  /\ proc' = IF Alive(relay) THEN [proc EXCEPT ![relay] = Told(@)] ELSE proc
  /\ WindowGoes(IF window = "terminating" THEN "terminated" ELSE "killed")
  /\ UNCHANGED <<goal, target, relay>>

\* wait(timeout) begins, on whatever self.relay_process is by then.
BeginWait ==
  /\ window \in {"terminated", "killed"}
  /\ target' = relay
  /\ WindowGoes(IF window = "terminated" THEN "waiting" ELSE "waiting again")
  /\ UNCHANGED <<goal, relay, proc>>

WaitReturns ==
  /\ window \in {"waiting", "waiting again"}
  /\ ~Alive(target)
  /\ target' = 0
  /\ WindowGoes("finishing")
  /\ UNCHANGED <<goal, relay, proc>>

\* A relay that takes its time is left alone.
AfterTimeout_slip == "finishing"

\* The first timeout leads to kill(); the second escapes to Tk, which reports it.
AfterTimeout == IF window = "waiting" THEN "killing" ELSE "ready"

WaitTimesOut ==
  /\ window \in {"waiting", "waiting again"}
  /\ Alive(target)
  /\ target' = 0
  /\ WindowGoes(AfterTimeout)
  /\ UNCHANGED <<goal, relay, proc>>

\* stop_relay forgets the process, on_close destroys the window.
Finish ==
  /\ window = "finishing"
  /\ IF goal = "stop"
     THEN relay' = 0 /\ WindowGoes("ready")
     ELSE WindowGoes("gone") /\ UNCHANGED relay
  /\ UNCHANGED <<goal, target, proc>>

\* Tk runs what update_app gave to after(): the window goes, on_close is not asked.
Destroy ==
  /\ window = "ready"
  /\ closing
  /\ WindowGoes("gone")
  /\ UNCHANGED <<goal, target, relay, proc>>

\* What the process held in memory is gone with it, its daemon thread included.
\* Relays that run by now are no longer anybody's.
Forgotten ==
  /\ closing' = FALSE /\ goal' = "stop" /\ target' = 0 /\ typed' = "none"
  /\ WorkerEnds
  /\ busy' = FALSE /\ queue' = <<>>
  /\ relay' = 0 /\ loose' = 1..started

\* main returns.
Exit ==
  /\ window = "gone"
  /\ window' = "closed"
  /\ Forgotten
  /\ UNCHANGED <<app, started, proc, fileVars, updateVars>>

HasExecutable == installed # 0 /\ installed \notin Bare

\* The user opens the launcher again, whatever scripts are about.  Bound: one
\* launcher at a time.
Open ==
  /\ window = "closed"
  /\ HasExecutable
  /\ WindowGoes("ready")
  /\ UNCHANGED <<goal, target, relay, proc>>

-----------------------------------------------------------------------------
(* update_app and the scripts that it leaves behind.                       *)

\* GitHub holds any build.
Download ==
  /\ worker = "downloading"
  /\ fetched' \in 1..MaxBuild
  /\ GoesOn("comparing")
  /\ UNCHANGED <<relayVars, fileVars, updateVars>>

\* The stamp of what is left of a build may be readable or not.
IsReadable(build) == build = 0 \/ build \notin Unstamped
IsUnreadable(build) == build = 0 \/ build \in Unstamped

\* "not newer than the installed one" is an error, if both stamps can be read.
Compare ==
  /\ worker = "comparing"
  /\ \/ /\ IsUnreadable(installed) \/ IsUnreadable(fetched) \/ fetched > installed
        /\ GoesOn("applying")
        /\ UNCHANGED <<fetched, relayVars, fileVars, updateVars>>
     \/ /\ IsReadable(installed) /\ IsReadable(fetched)
        /\ installed = 0 \/ fetched <= installed
        /\ JobEnds("error")

\* launch_update_script, elevated where can_write_to_directory fails.  Other
\* scripts may be about: the launcher can be opened again before its script is
\* let run.
Apply(s) ==
  /\ worker = "applying"
  /\ scripts[s].at = "none"
  /\ \E at \in {"waiting", "asking"} :
       scripts' = [scripts EXCEPT ![s] = [at |-> at, bundle |-> fetched]]
  /\ closing' = TRUE
  /\ worker' = "reporting"
  /\ UNCHANGED <<app, window, goal, target, typed, jobVars, uiVars, relayVars, fileVars, installed>>

\* Script s goes on, and changes nothing but the launcher's files.
ScriptGoes(s, next) == scripts' = [scripts EXCEPT ![s].at = next]

OnDisk == UNCHANGED <<windowVars, workerVars, uiVars, relayVars, fileVars>>

\* The user lets the elevated script run, or declines.
Answer(s) ==
  /\ scripts[s].at = "asking"
  /\ ScriptGoes(s, "waiting") \/ ScriptGoes(s, "over")
  /\ OnDisk
  /\ UNCHANGED installed

\* What is left of a process after those of the launcher's and the packed relay's
\* name were ended.  A plain one has the interpreter's name, unless the launcher
\* is packed and has started itself for an interpreter.
Killed(fate) ==
  CASE fate \in {"packed", "leaving", "orphan"} -> {"dead"}
    [] fate \in {"plain", "ending"} -> {fate, "dead"}
    [] OTHER -> {fate}

\* The launcher has ended, or 30 seconds are over.
KillByName(s) ==
  /\ scripts[s].at = "waiting"
  /\ ScriptGoes(s, "wiping")
  /\ window' = "closed"
  /\ Forgotten
  /\ proc' \in {after \in [Processes -> Fates] : \A p \in Processes : after[p] \in Killed(proc[p])}
  /\ UNCHANGED <<app, started, fileVars, installed>>

Wipe(s) ==
  /\ scripts[s].at = "wiping"
  /\ ScriptGoes(s, "copying")
  /\ installed' = 0
  /\ OnDisk

\* Either robocopy fails and the script throws, or the build is in place: its own,
\* or a mixture with that of another script which has copied at the same time.
Copy(s) ==
  /\ scripts[s].at = "copying"
  /\ \/ ScriptGoes(s, "over") /\ installed' = 0
     \/ ScriptGoes(s, "relaunching") /\ installed' = scripts[s].bundle
     \/ installed # 0 /\ ScriptGoes(s, "relaunching") /\ installed' = 0
  /\ OnDisk

\* The new launcher is left for the user to start.
Relaunch_slip(s) ==
  /\ scripts[s].at = "relaunching"
  /\ ScriptGoes(s, "over")
  /\ OnDisk
  /\ UNCHANGED installed

\* Start-Process, if the executable is there.
Relaunch(s) ==
  /\ scripts[s].at = "relaunching"
  /\ ScriptGoes(s, "over")
  /\ window' = IF HasExecutable /\ window = "closed" THEN "ready" ELSE window
  /\ UNCHANGED <<app, closing, goal, target, typed, workerVars, uiVars, relayVars, fileVars,
                 installed>>

-----------------------------------------------------------------------------
(* The relay processes.                                                    *)

\* A relay reads its configuration once, when it comes up; that of an earlier job's
\* no longer matters.
ReadConfig(p) ==
  /\ p = spawned
  /\ served = "none"
  /\ served' = config
  /\ UNCHANGED <<windowVars, worker, job, asked, fetched, spawned, saved, uiVars, relayVars,
                 fileVars, updateVars>>

\* What may become of it: it ends by itself (its port is taken), or what was told
\* to end does; a bootloader ends without its child.
MayBecome(fate) ==
  CASE fate \in {"packed", "plain", "ending", "orphan"} -> {"dead"}
    [] fate = "leaving" -> {"orphan", "dead"}
    [] OTHER -> {}

Ends(p) ==
  /\ \E fate \in MayBecome(proc[p]) : proc' = [proc EXCEPT ![p] = fate]
  /\ UNCHANGED <<windowVars, workerVars, uiVars, relay, started, loose, fileVars, updateVars>>

Init ==
  /\ app \in Apps
  /\ window = "ready" /\ closing = FALSE /\ goal = "stop" /\ target = 0 /\ typed = "none"
  /\ worker = "none" /\ job = "none" /\ asked = "none" /\ fetched = 0 /\ spawned = 0
  /\ served = "none" /\ saved = {}
  /\ busy = FALSE /\ queue = <<>>
  /\ relay = 0 /\ started = 0 /\ loose = {}
  /\ proc = [p \in Processes |-> "none"]
  /\ config = "none" /\ ini = "none"
  /\ installed \in 1..MaxBuild /\ HasExecutable
  /\ scripts = [s \in 1..MaxScripts |-> [at |-> "none", bundle |-> 0]]

WorkerStep ==
  \/ Raises \/ Ensure \/ Preflight \/ RunScript \/ CopyFiles \/ WriteIni
  \/ LaunchGame \/ Report
  \/ CheckRelay \/ PollRelay \/ Spawn \/ Assign
  \/ Download \/ Compare
  \/ \E s \in 1..MaxScripts : Apply(s)

StoppingStep == Terminate \/ BeginWait \/ WaitReturns \/ WaitTimesOut \/ Finish

ScriptStep(s) == KillByName(s) \/ Wipe(s) \/ Copy(s) \/ Relaunch(s)

Next ==
  \/ \E j \in Jobs[app] : Press(j)
  \/ WorkerStep
  \/ Poll
  \/ SaveSettings
  \/ SaveIni
  \/ StopRelay
  \/ OnClose
  \/ StoppingStep
  \/ Destroy
  \/ Exit
  \/ Open
  \/ \E s \in 1..MaxScripts : Answer(s) \/ ScriptStep(s)
  \/ \E p \in Processes : ReadConfig(p) \/ Ends(p)

Spec == Init /\ [][Next]_vars

-----------------------------------------------------------------------------
(* Fairness.  Both threads run; a wait is over after its timeout at the    *)
(* latest; Tk serves its timers between the user's clicks, however often   *)
(* these find it occupied; the scripts run on.  But a download and an      *)
(* external script are waited for without a limit, nobody has to click or  *)
(* to answer, and no relay has to end in time.                             *)

Unlimited == worker \in {"downloading", "scripting"}

FairSpec ==
  /\ Spec
  /\ WF_vars(~Unlimited /\ WorkerStep)
  /\ WF_vars(SaveIni)
  /\ WF_vars(StoppingStep)
  /\ \A s \in 1..MaxScripts : WF_vars(ScriptStep(s))
  /\ SF_vars(Poll)

-----------------------------------------------------------------------------
(* Properties.                                                             *)

WindowTypeOK ==
  /\ app \in Apps
  /\ window \in {"ready", "saving", "terminating", "terminated", "waiting", "killing", "killed",
                 "waiting again", "finishing", "gone", "closed"}
  /\ closing \in BOOLEAN
  /\ goal \in {"stop", "close"}
  /\ typed \in Values \cup {"none"}

WorkerTypeOK ==
  /\ worker \in MayRaise \cup {"none", "checking", "polling", "assigning", "reporting"}
  /\ job \in JobsOf[app] \cup {"none"}
  /\ asked \in Values \cup {"none"}
  /\ served \in Values \cup {"none"}
  /\ saved \subseteq Values

OutcomeTypeOK ==
  /\ busy \in BOOLEAN
  /\ queue \in {<<>>, <<"done">>, <<"error">>}

RelayTypeOK ==
  /\ target \in 0..started /\ relay \in 0..started /\ spawned \in 0..started
  /\ started \in 0..MaxStarts
  /\ proc \in [Processes -> Fates]
  /\ loose \subseteq 1..started

DiskTypeOK ==
  /\ config \in Values \cup {"none"} /\ ini \in Values \cup {"none"}
  /\ installed \in 0..MaxBuild /\ fetched \in 0..MaxBuild
  /\ scripts \in [1..MaxScripts ->
                    [at : {"none", "asking", "waiting", "wiping", "copying", "relaunching", "over"},
                     bundle : 0..MaxBuild]]

\* The types; at most one outcome waits to be polled.
LauncherTypeOK == WindowTypeOK /\ WorkerTypeOK /\ OutcomeTypeOK /\ RelayTypeOK /\ DiskTypeOK

\* A launcher loses hold of a process that Popen has given it only where a start and
\* a stop cross: every one of its own that is alive is the one self.relay_process
\* names, or is about to name, or was started or assigned while the window was
\* stopping another.  (What outlives its launcher, and the relay that a bootloader
\* leaves behind, is nobody's.)
RelayIsKnown ==
  \A p \in Processes : Alive(p) =>
    p \in loose \/ p = relay \/ (p = spawned /\ worker = "assigning")

\* A game is launched with an ini of the values its button was pressed with,
\* whatever earlier jobs were cut off or failed halfway and whatever was typed
\* since, and a relay that the same button has started has read no others.  Only
\* Save Settings, pressed while the job is at work, can put other values in their
\* place, and leave an ini that is neither.
LaunchesAsAsked ==
  worker = "launching" =>
    /\ ini \in {asked} \cup saved \cup {"none" : v \in saved}
    /\ served \in {"none", asked} \cup saved

\* The buttons are dead exactly while a job is at work or its outcome waits for
\* the poll timer: no way out of a job leaves them dead with nothing left to free
\* them, and none frees them while the worker is still at it.
BusyForAJob == busy <=> worker # "none" \/ queue # <<>>

\* Once past its download or its external script, neither of which has a limit,
\* every job ends and frees the buttons, also one that fails and one whose relay
\* is stopped under its hands.
ButtonsComeBack == busy /\ ~Unlimited ~> ~busy \/ window = "gone"

\* Once a script has begun to wipe the old build it comes to its end, and then
\* either its copy has failed, or there is no executable to start (its bundle had
\* none, or another script is at work), or a launcher is up.
UpdateFinishes ==
  \A s \in 1..MaxScripts :
    scripts[s].at = "wiping" ~> scripts[s].at = "over" /\ (HasExecutable => window # "closed")
=============================================================================
