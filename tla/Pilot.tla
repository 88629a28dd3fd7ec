-------------------------------- MODULE Pilot --------------------------------
(***************************************************************************)
(* One run of scripts/verify-local-pilot.mjs: the preflight of the host,   *)
(* the ten stages, the cleanup stack and the receipt.  The stages make     *)
(* directories (certificate, secrets, worktree), a compose project, mail   *)
(* and child processes; the cleanup must take all of them away again, in   *)
(* an order that never pulls a resource from under its users, whatever     *)
(* failed and whenever the operator interrupted the run.                   *)
(*                                                                         *)
(* A step of Plan is one runCheck of a stage.  The commands the stages run *)
(* are external: each may succeed, fail or be aborted.  An aborted command *)
(* is sent SIGTERM and abandoned at once (execFile rejects on abort), so   *)
(* it may go on acting for a while: the straggler.                         *)
(***************************************************************************)
EXTENDS PilotGates, FiniteSets, SequencesExt

CONSTANTS
    MaxEdits,       \* bound on the operator's edits of the source repository
    MaxCrashes,     \* bound on the children that exit by themselves
    MaxStrangers    \* bound on resources someone else adds to the project

ASSUME PilotBoundsAssumption ==
    MaxEdits \in Nat /\ MaxCrashes \in Nat /\ MaxStrangers \in {0, 1}

VARIABLES
    host,        \* what the preflight inspects
    repo,        \* the source repository: clean, edited
    phase,       \* preflight, stages, cleanup, receipt, ended
    step,        \* the next check of Plan
    failed,      \* failureCode is set
    aborted,     \* no, or the phase in which SIGINT/SIGTERM arrived
    straggler,   \* what an aborted command may still do: none, compose, write
    dirs,        \* the run's directories that exist
    checkout,    \* the checkout in the worktree: clean, dirty
    project,     \* resources that carry the compose project's label
    mail,        \* Mailpit holds messages for this run's recipient
    procs,       \* children: none, running, exited, stopped, orphaned
    gates,       \* gate receipts
    flawed,      \* gates whose suite did not pass completely
    summaries,   \* summary files in the checkout
    registered,  \* CleanupStack entries in the order of registration
    completed,   \* result of each cleanup entry
    receipt,     \* the receipt file: none, passed, failed
    exit,        \* the command's exit: none, pass, fail
    budget       \* edits, crashes and strangers so far

worldVars == <<host, repo, budget>>
ownedVars == <<dirs, checkout, project, mail, procs>>
gateVars == <<gates, flawed, summaries>>
cleanupVars == <<registered, completed>>
endVars == <<receipt, exit>>
flowVars == <<phase, step, failed>>
signalVars == <<aborted, straggler>>
pilotVars == <<worldVars, ownedVars, gateVars, cleanupVars, endVars, flowVars, signalVars>>

Children == <<"fastify", "worker", "next">>
ChildNames == {Children[i] : i \in DOMAIN Children}
Services == {"postgres", "mailpit"}     \* with their volume and network
Stranger == "stranger"
Executables == {"node", "pnpm", "pnpmCli", "python"}
RequiredPorts == {3000, 3001, 55432, 8025, 1025}

Foundations ==
    <<"layout", "root-scripts", "python-lock", "demo-baseline", "contract-generation">>
Builds == <<"typescript", "production-build", "worker-compile", "worker-import">>

\* The checks of the ten stages, in order.
Plan ==
    <<"tls-material", "runtime-material", "detached-worktree",
      "pnpm-frozen-lock", "python-venv", "python-hash-lock",
      "compose-project-absent", "compose-config", "compose-up", "compose-ownership",
      "postgres-18", "mailpit-ready",
      "layout", "root-scripts", "python-lock", "demo-baseline", "contract-generation",
      "generated-drift",
      "typescript", "production-build", "worker-compile", "worker-import",
      "migration",
      "contracts-vitest", "server-vitest", "web-vitest", "pilot-harness-vitest",
      "chaos-vitest", "security-vitest", "worker-python",
      "application-processes", "fastify-ready", "next-https-ready", "application-ready",
      "browser-playwright", "pilot-load", "closed-summary-set">>

CleanupIds ==
    {"final-state", "tls-material", "runtime-material", "disposable-worktree",
     "compose-project", "mailpit-residual", "application-processes"}

\* A faulty variant: the runtime material does not wait for the worktree.
RequiresIfRegisteredLoose(id) ==
    CASE id = "tls-material" -> {"runtime-material"}
      [] id = "disposable-worktree" -> {"compose-project"}
      [] id = "compose-project" -> {"mailpit-residual"}
      [] id = "mailpit-residual" -> {"application-processes"}
      [] OTHER -> {}

\* options.requiresIfRegistered of each registration.
RequiresIfRegistered(id) ==
    CASE id = "tls-material" -> {"runtime-material"}
      [] id = "runtime-material" -> {"disposable-worktree"}
      [] id = "disposable-worktree" -> {"compose-project"}
      [] id = "compose-project" -> {"mailpit-residual"}
      [] id = "mailpit-residual" -> {"application-processes"}
      [] OTHER -> {}

Running == {p \in ChildNames : procs[p] = "running"}

-----------------------------------------------------------------------------
(* The preflight.                                                          *)

\* A workstation in order: the bytes of its tools are those of toolchain "a".
ApprovedHost ==
    [drift |-> FALSE, versions |-> TRUE, bytes |-> [x \in Executables |-> "a"],
     disk |-> TRUE, docker |-> TRUE, busy |-> {}, chromium |-> "managed", lock |-> TRUE,
     pins |-> TRUE, manifest |-> "valid"]

\* Hosts that differ from it in one thing.
Hosts ==
    {ApprovedHost}
    \cup {[ApprovedHost EXCEPT !.bytes = b] : b \in [Executables -> {"a", "b"}]}
    \cup {[ApprovedHost EXCEPT !.busy = {p}] : p \in RequiredPorts}
    \cup {[ApprovedHost EXCEPT !.drift = TRUE], [ApprovedHost EXCEPT !.versions = FALSE],
          [ApprovedHost EXCEPT !.disk = FALSE], [ApprovedHost EXCEPT !.docker = FALSE],
          [ApprovedHost EXCEPT !.lock = FALSE], [ApprovedHost EXCEPT !.pins = FALSE]}
    \cup {[ApprovedHost EXCEPT !.chromium = c] : c \in {"unmanaged", "no-launch"}}
    \cup {[ApprovedHost EXCEPT !.manifest = m] : m \in {"shape", "order", "entrypoint"}}

\* infra/local-pilot/approved-runtimes: two reviewed toolchains.
ApprovedRuntimeToolchains == {[x \in Executables |-> v] : v \in {"a", "b"}}

MismatchedRuntimeNames(bytes, toolchain) == {x \in Executables : bytes[x] # toolchain[x]}

\* The bytes behind node, the pnpm wrapper, the CLI it runs, and python.
ProbeRuntimeExecutableFingerprints == host.bytes

\* The tools must all come from one reviewed toolchain.
AssertRuntimeExecutableFingerprints ==
    \E c \in ApprovedRuntimeToolchains :
        MismatchedRuntimeNames(ProbeRuntimeExecutableFingerprints, c) = {}

AssertRuntimeFingerprints == host.versions
AssertGitSnapshot == repo = "clean" /\ ~host.drift
AssertMinimumFreeBytes == host.disk
AssertRequiredPortsFree == host.busy = {}
AssertManagedChromiumInstall == host.chromium # "unmanaged"
ProbeManagedPlaywrightChromium == AssertManagedChromiumInstall /\ host.chromium # "no-launch"
AssertPythonLockMinor == host.lock
AssertInfrastructurePins == host.pins
ValidateRequiredTestManifest == host.manifest # "shape"
AssertRequiredGateOrder == ValidateRequiredTestManifest /\ host.manifest # "order"
AssertRequiredGateEntrypoints == AssertRequiredGateOrder /\ host.manifest # "entrypoint"

CaptureLocalPilotPreflight ==
    /\ AssertGitSnapshot
    /\ AssertRuntimeFingerprints /\ AssertRuntimeExecutableFingerprints
    /\ AssertMinimumFreeBytes
    /\ host.docker
    /\ AssertRequiredPortsFree
    /\ ProbeManagedPlaywrightChromium

\* Before the identity exists there is nothing to clean and no receipt.
Preflight ==
    /\ phase = "preflight"
    /\ IF /\ CaptureLocalPilotPreflight
          /\ AssertPythonLockMinor /\ AssertInfrastructurePins /\ AssertRequiredGateEntrypoints
       THEN phase' = "stages" /\ UNCHANGED exit
       ELSE phase' = "ended" /\ exit' = "fail"
    /\ UNCHANGED <<worldVars, ownedVars, gateVars, cleanupVars, receipt, step, failed, signalVars>>

-----------------------------------------------------------------------------
(* The stages.                                                             *)

At(c) == phase = "stages" /\ Plan[step] = c

\* The check passed: the next one, or the cleanup after the last.
Advance ==
    /\ step' = step + 1
    /\ phase' = IF step = Len(Plan) THEN "cleanup" ELSE "stages"
    /\ UNCHANGED failed

\* The check failed: no further stage, the cleanup runs.
Abandon == phase' = "cleanup" /\ failed' = TRUE /\ UNCHANGED step

Register(ids) == registered' = registered \o ids

\* execute() with the abort signal: a command that ended, or was aborted and
\* may leave what "then" allows a straggler.
Ended(then) ==
    \/ aborted = "no" /\ Advance /\ UNCHANGED straggler
    \/ aborted = "no" /\ Abandon /\ UNCHANGED straggler
    \/ aborted # "no" /\ Abandon /\ straggler' \in {"none", then}

Command(c) ==
    /\ At(c)
    /\ Ended("write")
    /\ UNCHANGED <<worldVars, ownedVars, gateVars, cleanupVars, endVars, aborted>>

\* Things of the run on disk: made, withdrawn after a failure, or (one of
\* "left") kept because the failure came before or during their own removal.
\* Only what was made completely gets a cleanup.
MakeDirectory(made, left, first, id) ==
    /\ \/ dirs' = dirs \cup made /\ Register(first \o <<id>>) /\ Advance
       \/ \E d \in {{}} \cup left : dirs' = dirs \cup d /\ Register(first) /\ Abandon
    /\ UNCHANGED <<worldVars, checkout, project, mail, procs, gateVars, completed, endVars,
                   signalVars>>

CreateLocalTlsMaterial ==
    At("tls-material") /\ MakeDirectory({"tls"}, {{"tls"}}, <<"final-state">>, "tls-material")

CreateRuntimeMaterial ==
    At("runtime-material") /\ MakeDirectory({"material"}, {{"material"}}, <<>>, "runtime-material")

\* assertSourceSnapshot comes before anything is made.  The run directory is
\* kept when Git's registration of the worktree cannot be proved absent.
CreateDetachedPilotWorktree ==
    /\ At("detached-worktree")
    /\ \/ /\ repo = "clean"
          /\ MakeDirectory({"worktree", "registration"},
                           {{"worktree"}, {"worktree", "registration"}},
                           <<>>, "disposable-worktree")
       \/ /\ repo # "clean" /\ Abandon
          /\ UNCHANGED <<worldVars, ownedVars, gateVars, cleanupVars, endVars, signalVars>>

FrozenDependencies ==
    \E c \in {"pnpm-frozen-lock", "python-venv", "python-hash-lock"} : Command(c)

\* assertComposeProjectAbsent: containers, volumes and networks by label.
ComposeProjectAbsent ==
    /\ At("compose-project-absent")
    /\ \/ project # {} /\ Abandon /\ UNCHANGED straggler
       \/ project = {} /\ Ended("none")
    /\ UNCHANGED <<worldVars, ownedVars, gateVars, cleanupVars, endVars, aborted>>

ComposeConfig == Command("compose-config")

\* The cleanup is registered before the command, which may create a part of
\* the project and then fail.
ComposeUp ==
    /\ At("compose-up")
    /\ Register(<<"compose-project">>)
    /\ Ended("compose")
    /\ \E made \in SUBSET Services :
          /\ phase' # "cleanup" => made = Services
          /\ project' = project \cup made
    /\ UNCHANGED <<worldVars, dirs, checkout, mail, procs, gateVars, completed, endVars, aborted>>

\* inspectComposeOwnership looks at the services it expects and no other.
ComposeOwnership ==
    /\ At("compose-ownership")
    /\ \/ Services \subseteq project /\ Ended("none")
       \/ ~(Services \subseteq project) /\ Abandon /\ UNCHANGED straggler
    /\ UNCHANGED <<worldVars, ownedVars, gateVars, cleanupVars, endVars, aborted>>

Postgres18 == Command("postgres-18")

\* MailpitClient.assertReady: a request of its own, without the abort signal.
MailpitReady ==
    /\ At("mailpit-ready")
    /\ Advance \/ Abandon
    /\ UNCHANGED <<worldVars, ownedVars, gateVars, cleanupVars, endVars, signalVars>>

\* Generating the contracts may change files of the checkout.
ContractGeneration ==
    /\ At("contract-generation")
    /\ Ended("write")
    /\ checkout' \in {checkout, "dirty"}
    /\ UNCHANGED <<worldVars, dirs, project, mail, procs, gateVars, cleanupVars, endVars, aborted>>

GeneratedDrift ==
    /\ At("generated-drift")
    /\ \/ checkout # "clean" /\ Abandon /\ UNCHANGED straggler
       \/ checkout = "clean" /\ Ended("none")
    /\ UNCHANGED <<worldVars, ownedVars, gateVars, cleanupVars, endVars, aborted>>

RepositoryFoundations ==
    \/ \E i \in 1 .. 4 : Command(Foundations[i])
    \/ ContractGeneration
    \/ GeneratedDrift

ProductionBuilds == \E i \in DOMAIN Builds : Command(Builds[i])

Migration == Command("migration")

AssertRunning == Running = ChildNames

WriteSummary(g) == g \notin summaries /\ summaries' = summaries \cup {g}

\* executeRequiredGateSet for one gate: the command, its report, the summary
\* and the receipt.  Any error records a failed receipt and ends the stage.
ExecuteRequiredGate(g) ==
    \/ /\ aborted # "no"
       /\ gates' = [gates EXCEPT ![g] = "failed"]
       /\ Abandon /\ straggler' \in {"none", "write"}
       /\ UNCHANGED <<flawed, summaries>>
    \/ /\ aborted = "no" /\ UNCHANGED straggler
       /\ \E t \in SuiteRuns(g) :
            /\ flawed' = IF AllPassed(g, t) THEN flawed ELSE flawed \cup {g}
            /\ \/ /\ AssertGatePass(g, AdaptRunnerReport(g, t))
                  /\ WriteSummary(g)
                  /\ gates' = [gates EXCEPT ![g] = "passed"]
                  /\ Advance
               \/ /\ gates' = [gates EXCEPT ![g] = "failed"]
                  /\ Abandon
                  /\ UNCHANGED summaries

\* The suites may leave files in the checkout.
RequiredTests ==
    \/ Migration
    \/ \E i \in 1 .. 7 :
         /\ At(GateOrder[i])
         /\ ExecuteRequiredGate(GateOrder[i])
         /\ checkout' \in {checkout, "dirty"}
         /\ UNCHANGED <<worldVars, dirs, project, mail, procs, cleanupVars, endVars, aborted>>

\* buildChildEnvironments: built, or refused.
BuildChildEnvironments == BOOLEAN

\* OwnedProcessSet.start for the children in order, up to the first that
\* cannot be spawned.
Start(n) == procs' = [p \in ChildNames |->
    IF \E i \in 1 .. n : Children[i] = p THEN "running" ELSE procs[p]]

\* Both cleanups are registered before the first child; the environments are
\* built between the two registrations.
ApplicationProcesses ==
    /\ At("application-processes")
    /\ \/ /\ FALSE \in BuildChildEnvironments
          /\ Register(<<"mailpit-residual">>) /\ Abandon /\ UNCHANGED procs
       \/ /\ TRUE \in BuildChildEnvironments
          /\ Register(<<"mailpit-residual", "application-processes">>)
          /\ \/ Start(Len(Children)) /\ Advance
             \/ \E n \in 0 .. Len(Children) - 1 : Start(n) /\ Abandon
    /\ UNCHANGED <<worldVars, dirs, checkout, project, mail, gateVars, completed, endVars,
                   signalVars>>

\* The probe asserts that the children run, and waitForReadiness swallows
\* what it throws: a dead child shows as a timeout.
WaitForReadiness ==
    /\ At("fastify-ready") \/ At("next-https-ready")
    /\ (AssertRunning /\ Advance) \/ Abandon
    /\ UNCHANGED <<worldVars, ownedVars, gateVars, cleanupVars, endVars, signalVars>>

ApplicationReady ==
    /\ At("application-ready")
    /\ (AssertRunning /\ Advance) \/ Abandon
    /\ UNCHANGED <<worldVars, ownedVars, gateVars, cleanupVars, endVars, signalVars>>

\* A gate against the running application, which is asserted to run before it.
ApplicationGate(g) ==
    /\ At(g)
    /\ \/ ~AssertRunning /\ Abandon /\ UNCHANGED <<gateVars, straggler, checkout>>
       \/ AssertRunning /\ ExecuteRequiredGate(g) /\ checkout' \in {checkout, "dirty"}

BrowserVerification ==
    /\ ApplicationGate("browser-playwright")
    /\ mail' \in {mail, AssertRunning /\ "mailpit" \in project}
    /\ UNCHANGED <<worldVars, dirs, project, procs, cleanupVars, endVars, aborted>>

PilotLoad ==
    /\ ApplicationGate("pilot-load")
    /\ UNCHANGED <<worldVars, dirs, project, procs, mail, cleanupVars, endVars, aborted>>

\* verify-required-test-summaries in the checkout.
ManifestVerification ==
    /\ At("closed-summary-set")
    /\ \/ AssertRequiredTestReports(summaries) /\ Ended("none")
       \/ ~AssertRequiredTestReports(summaries) /\ Abandon /\ UNCHANGED straggler
    /\ UNCHANGED <<worldVars, ownedVars, gateVars, cleanupVars, endVars, aborted>>

DisposableWorktree ==
    CreateLocalTlsMaterial \/ CreateRuntimeMaterial \/ CreateDetachedPilotWorktree

IsolatedPostgres ==
    \/ ComposeProjectAbsent \/ ComposeConfig \/ ComposeUp \/ ComposeOwnership
    \/ Postgres18 \/ MailpitReady

ApplicationStartup == ApplicationProcesses \/ WaitForReadiness \/ ApplicationReady

Stage ==
    \/ DisposableWorktree \/ FrozenDependencies \/ IsolatedPostgres
    \/ RepositoryFoundations \/ ProductionBuilds \/ RequiredTests
    \/ ApplicationStartup \/ BrowserVerification \/ PilotLoad \/ ManifestVerification

-----------------------------------------------------------------------------
(* CleanupStack.run: the entries in reverse order of registration.         *)

Pending == {i \in DOMAIN registered : completed[registered[i]] = "none"}
Turn(id) ==
    /\ phase = "cleanup" /\ Pending # {}
    /\ registered[CHOOSE i \in Pending : \A j \in Pending : j <= i] = id

\* An entry whose required entry was registered and did not pass is not run.
Blocked(id) ==
    \E r \in RequiresIfRegistered(id) : Contains(registered, r) /\ completed[r] # "passed"

Completed(id, ok) ==
    completed' = [completed EXCEPT ![id] = IF ok THEN "passed" ELSE "failed"]

CleanupDependencyFailed ==
    \E id \in CleanupIds :
       /\ Turn(id) /\ Blocked(id) /\ Completed(id, FALSE)
       /\ UNCHANGED <<worldVars, ownedVars, gateVars, registered, endVars, flowVars, signalVars>>

Cleaning(id) ==
    /\ Turn(id) /\ ~Blocked(id)
    /\ UNCHANGED <<worldVars, gateVars, registered, endVars, flowVars, signalVars>>

\* stopAll: SIGTERM, then SIGKILL, for every child that has not closed; one
\* that survives both fails the entry but not the others.  A killed next may
\* leave a descendant that holds its port.
StopAll ==
    /\ Cleaning("application-processes")
    /\ \E stuck \in SUBSET Running, orphan \in SUBSET (Running \cap {"next"}) :
          /\ stuck \cap orphan = {}
          /\ procs' = [p \in ChildNames |->
                IF p \in orphan THEN "orphaned"
                ELSE IF p \in Running \ stuck THEN "stopped" ELSE procs[p]]
          /\ Completed("application-processes", stuck = {})
    /\ UNCHANGED <<dirs, checkout, project, mail>>

\* deleteRecipientMessages and assertRecipientEmpty; either request may fail.
MailpitResidual ==
    /\ Cleaning("mailpit-residual")
    /\ \/ "mailpit" \in project /\ mail' = FALSE /\ Completed("mailpit-residual", TRUE)
       \/ mail' \in {mail, FALSE} /\ Completed("mailpit-residual", FALSE)
    /\ UNCHANGED <<dirs, checkout, project, procs>>

\* verifyResourceLabels: every resource is an expected one with our labels.
VerifyResourceLabels(resources) == resources \subseteq Services

\* inspectComposeCleanupOwnership: the capability for "down", or none when
\* there is nothing; anything unknown fails.
CleanupOwnership == project # {} /\ VerifyResourceLabels(project)

\* The marker in the run directory names this run.
AssertOwnedDirectory == "worktree" \in dirs

\* The marker is read from the worktree; then ownership, down, absence.
ComposeProject ==
    /\ Cleaning("compose-project")
    /\ \/ /\ AssertOwnedDirectory
          /\ CleanupOwnership \/ project = {}
          /\ project' = {} /\ mail' = FALSE
          /\ Completed("compose-project", TRUE)
       \/ /\ \/ CleanupOwnership /\ AssertOwnedDirectory /\ project' \in SUBSET project
             \/ UNCHANGED project
          /\ mail' = (mail /\ "mailpit" \in project')
          /\ Completed("compose-project", FALSE)
    /\ UNCHANGED <<dirs, checkout, procs>>

\* git worktree list names the checkout, once and not locked.
RegisteredWorktree == "registration" \in dirs

\* removeDetachedPilotWorktree: the registration first, then the directory
\* that carries the marker.  A checkout that is not clean is removed all the
\* same and the entry fails.
RemoveDetachedPilotWorktree ==
    /\ Cleaning("disposable-worktree")
    /\ \/ /\ AssertOwnedDirectory /\ RegisteredWorktree
          /\ dirs' = dirs \ {"worktree", "registration"}
          /\ Completed("disposable-worktree", checkout = "clean")
       \/ /\ dirs' \in {dirs, dirs \ {"registration"}, dirs \ {"worktree", "registration"}}
          /\ Completed("disposable-worktree", FALSE)
    /\ UNCHANGED <<checkout, project, mail, procs>>

\* The removal refuses a directory that is not exactly the one it made.
RemoveDirectory(id, d) ==
    /\ Cleaning(id)
    /\ \/ d \in dirs /\ dirs' = dirs \ {d} /\ Completed(id, TRUE)
       \/ UNCHANGED dirs /\ Completed(id, FALSE)
    /\ UNCHANGED <<checkout, project, mail, procs>>

RemoveRuntimeMaterial == RemoveDirectory("runtime-material", "material")
RemoveLocalTlsMaterial == RemoveDirectory("tls-material", "tls")

\* state.tls, state.material and state.worktree: what was made completely.
KnownDirs ==
    {d \in {"tls", "material", "worktree"} :
        Contains(registered, CASE d = "tls" -> "tls-material"
                               [] d = "material" -> "runtime-material"
                               [] d = "worktree" -> "disposable-worktree")}

\* checkLoopbackPortFree for the five ports.
PortsReleased ==
    /\ \A p \in {"fastify", "next"} : procs[p] \notin {"running", "orphaned"}
    /\ project \cap Services = {}

\* The evidence files hash to what they did in the preflight.
HashEvidenceSet == repo

AssertFinalRepositoryState == HashEvidenceSet = "clean" /\ PortsReleased

\* A faulty variant: the workflow waits for a cleanup without failures.
CleanupDoneInsistent ==
    /\ phase = "cleanup" /\ Pending = {}
    /\ \A id \in CleanupIds : completed[id] # "failed"
    /\ phase' = "receipt" /\ UNCHANGED failed
    /\ UNCHANGED <<worldVars, ownedVars, gateVars, cleanupVars, endVars, step, signalVars>>

FinalState ==
    /\ Cleaning("final-state")
    /\ \E answered \in BOOLEAN :      \* the commands of the check may fail too
          Completed("final-state",
              answered /\ project = {} /\ KnownDirs \cap dirs = {} /\ AssertFinalRepositoryState)
    /\ UNCHANGED ownedVars

CleanupDone ==
    /\ phase = "cleanup" /\ Pending = {}
    /\ phase' = "receipt"
    /\ failed' = (failed \/ \E id \in CleanupIds : completed[id] = "failed")
    /\ UNCHANGED <<worldVars, ownedVars, gateVars, cleanupVars, endVars, step, signalVars>>

Cleanup ==
    \/ CleanupDependencyFailed \/ StopAll \/ MailpitResidual \/ ComposeProject
    \/ RemoveDetachedPilotWorktree \/ RemoveRuntimeMaterial \/ RemoveLocalTlsMaterial
    \/ FinalState \/ CleanupDone

MakeReceipt == IF failed THEN "failed" ELSE "passed"

\* The receipt is written before PASS is printed; if it cannot be written
\* the command fails.
WriteLocalPilotReceipt ==
    /\ phase = "receipt"
    /\ phase' = "ended"
    /\ \/ /\ receipt' = MakeReceipt
          /\ exit' = IF failed THEN "fail" ELSE "pass"
       \/ exit' = "fail" /\ UNCHANGED receipt
    /\ UNCHANGED <<worldVars, ownedVars, gateVars, cleanupVars, step, failed, signalVars>>

-----------------------------------------------------------------------------
(* The world around the run.                                               *)

\* SIGINT or SIGTERM: onSignal aborts the controller and nothing else.
Signal ==
    /\ aborted = "no" /\ phase \in {"preflight", "stages", "cleanup"}
    /\ aborted' = phase
    /\ UNCHANGED <<worldVars, ownedVars, gateVars, cleanupVars, endVars, flowVars, straggler>>

\* A child exits by itself.
Crash(p) ==
    /\ procs[p] = "running" /\ phase = "stages" /\ budget.crashes < MaxCrashes
    /\ procs' = [procs EXCEPT ![p] = "exited"]
    /\ budget' = [budget EXCEPT !.crashes = @ + 1]
    /\ UNCHANGED <<host, repo, dirs, checkout, project, mail, gateVars, cleanupVars, endVars,
                   flowVars, signalVars>>

\* The operator edits the source repository, or takes the edit back.
Edit ==
    /\ phase # "ended" /\ budget.edits < MaxEdits
    /\ repo' = IF repo = "clean" THEN "edited" ELSE "clean"
    /\ budget' = [budget EXCEPT !.edits = @ + 1]
    /\ UNCHANGED <<host, ownedVars, gateVars, cleanupVars, endVars, flowVars, signalVars>>

\* A resource that is not the run's appears under the project's label.
Intrude ==
    /\ project # {} /\ phase = "stages" /\ budget.strangers < MaxStrangers
    /\ project' = project \cup {Stranger}
    /\ budget' = [budget EXCEPT !.strangers = @ + 1]
    /\ UNCHANGED <<host, repo, dirs, checkout, mail, procs, gateVars, cleanupVars, endVars,
                   flowVars, signalVars>>

\* What an aborted command still does before SIGTERM ends it: compose goes on
\* creating, another command writes into the checkout or uses the application.
Straggle ==
    /\ straggler # "none"
    /\ \/ /\ straggler = "compose"
          /\ \E s \in Services : project' = project \cup {s}
          /\ UNCHANGED <<dirs, mail, straggler>>
       \/ /\ straggler = "write"
          /\ \/ dirs' = dirs \cup {"worktree"} /\ UNCHANGED mail
             \/ "fastify" \in Running /\ "mailpit" \in project /\ mail' = TRUE /\ UNCHANGED dirs
          /\ UNCHANGED <<project, straggler>>
       \/ straggler' = "none" /\ UNCHANGED <<dirs, project, mail>>
    /\ UNCHANGED <<worldVars, checkout, procs, gateVars, cleanupVars, endVars, flowVars, aborted>>

PilotInit ==
    /\ host \in Hosts
    /\ repo = "clean"
    /\ phase = "preflight" /\ step = 1 /\ failed = FALSE
    /\ aborted = "no" /\ straggler = "none"
    /\ dirs = {} /\ checkout = "clean" /\ project = {} /\ mail = FALSE
    /\ procs = [p \in ChildNames |-> "none"]
    /\ gates = [g \in Gates |-> "none"] /\ flawed = {} /\ summaries = {}
    /\ registered = <<>> /\ completed = [id \in CleanupIds |-> "none"]
    /\ receipt = "none" /\ exit = "none"
    /\ budget = [edits |-> 0, crashes |-> 0, strangers |-> 0]

PilotNext ==
    \/ Preflight \/ Stage \/ Cleanup \/ WriteLocalPilotReceipt
    \/ Signal \/ Edit \/ Intrude \/ Straggle
    \/ \E p \in ChildNames : Crash(p)

PilotSpec == PilotInit /\ [][PilotNext]_pilotVars

-----------------------------------------------------------------------------
(* Properties.                                                             *)

\* When the command exits with PASS nothing of the run is left: no child, no
\* port, no container or volume of its own, no directory, no mail.
PassLeavesNothing ==
    exit = "pass" =>
       /\ \A p \in ChildNames : procs[p] \notin {"running", "orphaned"}
       /\ project \cap Services = {} /\ dirs = {} /\ ~mail

\* PASS means what it says: an approved host, every suite of the manifest ran
\* all its tests and passed them, the checkout stayed as it was and the
\* receipt says so.
PassIsEarned ==
    exit = "pass" =>
       /\ host.bytes \in ApprovedRuntimeToolchains /\ host.busy = {}
       /\ flawed = {} /\ \A g \in Gates : gates[g] = "passed"
       /\ checkout = "clean" /\ receipt = "passed"

\* A signal before the last command has ended is never lost: the run fails.
InterruptedNeverPasses == aborted \in {"preflight", "stages"} => exit # "pass"

\* The cleanup never pulls a resource from under its user: while a child
\* runs, its checkout, its keys and certificate and its database are there,
\* and a compose project that could not be removed keeps the marker that
\* proves whose it is, as does a worktree that Git still has registered.
NothingPulledAway ==
    /\ Running # {} => {"tls", "material", "worktree"} \subseteq dirs /\ Services \subseteq project
    /\ completed["compose-project"] = "failed" => "worktree" \in dirs
    /\ "registration" \in dirs => "worktree" \in dirs

\* PASS is earned, clean and uninterrupted, and the cleanup that precedes it pulls
\* nothing away from a running child.
PilotSafe == PassLeavesNothing /\ PassIsEarned /\ InterruptedNeverPasses /\ NothingPulledAway
===============================================================================
