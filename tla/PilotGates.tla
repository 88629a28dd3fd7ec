------------------------------ MODULE PilotGates ------------------------------
(***************************************************************************)
(* The required tests of the local pilot: what a test runner reports, how  *)
(* each runner's report is turned into one summary, and when a summary     *)
(* lets its gate pass.  A run of a suite is the number of its tests that   *)
(* passed, failed, were skipped, ended oddly (a vitest todo, an expected   *)
(* failure of unittest, a flaky test of playwright) or surprised (passed   *)
(* although unittest expected a failure), of the files that could not be   *)
(* loaded at all and of those in which a test is focused (test.only).      *)
(***************************************************************************)
EXTENDS Naturals, Sequences

CONSTANT SuiteTests   \* gate.expectedTests of every gate but the load gate

ASSUME SuiteTestsAssumption == SuiteTests \in Nat \ {0}

GateOrder ==
    <<"contracts-vitest", "server-vitest", "web-vitest", "pilot-harness-vitest",
      "chaos-vitest", "security-vitest", "worker-python", "browser-playwright", "pilot-load">>

Gates == {GateOrder[i] : i \in DOMAIN GateOrder}

Runner(g) ==
    CASE g = "worker-python" -> "python-unittest"
      [] g = "browser-playwright" -> "playwright"
      [] g = "pilot-load" -> "load"
      [] OTHER -> "vitest"

ExpectedTests(g) == IF Runner(g) = "load" THEN 1 ELSE SuiteTests

Counts(n) ==
    [pass : 0 .. n, fail : 0 .. 1, skip : 0 .. 1, odd : 0 .. 1, surprise : 0 .. 1,
     broken : 0 .. 1, focus : 0 .. 1]

Executed(t) == t.pass + t.fail + t.skip + t.odd + t.surprise

\* What a suite may really do.  A file that cannot be loaded hides its tests.
SuiteRuns(g) ==
    {t \in Counts(ExpectedTests(g)) :
        /\ Executed(t) <= ExpectedTests(g)
        /\ Runner(g) # "python-unittest" => t.surprise = 0
        /\ Runner(g) \notin {"vitest", "playwright"} => t.focus = 0
        /\ Runner(g) = "load" => t.pass + t.fail = 1}

AllPassed(g, t) ==
    t = [pass |-> ExpectedTests(g), fail |-> 0, skip |-> 0, odd |-> 0, surprise |-> 0,
         broken |-> 0, focus |-> 0]

\* The reports of the four runners.  Vitest with --allowOnly=false fails a focused
\* file; playwright with forbidOnly runs nothing at all.
VitestReport(t) ==
    [numTotalTests |-> Executed(t), numPassedTests |-> t.pass,
     numFailedTests |-> t.fail, numPendingTests |-> t.skip, numTodoTests |-> t.odd,
     numFailedTestSuites |-> t.broken + t.focus, success |-> t.fail + t.broken + t.focus = 0]
UnittestReport(t) ==
    [testsRun |-> Executed(t), failures |-> t.fail, errors |-> t.broken,
     skipped |-> t.skip, expectedFailures |-> t.odd, unexpectedSuccesses |-> t.surprise,
     focused |-> 0]
PlaywrightReport(t) ==
    LET ran(n) == IF t.focus = 0 THEN n ELSE 0 IN
    [forbidOnly |-> TRUE, expected |-> ran(t.pass), skipped |-> ran(t.skip),
     unexpected |-> ran(t.fail + t.broken), flaky |-> ran(t.odd)]
LoadReport(t) == [ok |-> t.fail + t.broken = 0]

Refused == [expected |-> 0, executed |-> 0, passed |-> 0, failed |-> 0, skipped |-> 0,
            pending |-> 0, focused |-> 0]

\* numFocusedTests is optional, and the runner's JSON reporter does not give it.
AdaptVitestReport(r) ==
    LET bad == r.numFailedTests + r.numFailedTestSuites IN
    [expected |-> r.numTotalTests, executed |-> r.numPassedTests + r.numFailedTests,
     passed |-> r.numPassedTests,
     failed |-> IF bad = 0 /\ ~r.success THEN 1 ELSE bad,
     skipped |-> r.numPendingTests, pending |-> r.numTodoTests, focused |-> 0]

\* An error outside any test is not counted in testsRun: more errors than
\* tests make the difference negative and the report is refused.
AdaptPythonUnittestReport(r) ==
    LET failed == r.failures + r.errors + r.unexpectedSuccesses
        others == failed + r.skipped + r.expectedFailures IN
    IF others > r.testsRun
    THEN Refused
    ELSE [expected |-> r.testsRun, executed |-> r.testsRun - r.skipped,
          passed |-> r.testsRun - others, failed |-> failed,
          skipped |-> r.skipped, pending |-> r.expectedFailures, focused |-> r.focused]

AdaptPlaywrightReport(r) ==
    LET failed == r.unexpected + r.flaky IN
    IF ~r.forbidOnly
    THEN Refused
    ELSE [expected |-> r.expected + r.skipped + failed, executed |-> r.expected + failed,
          passed |-> r.expected, failed |-> failed, skipped |-> r.skipped, pending |-> 0,
          focused |-> 0]

AdaptLoadReport(r) ==
    LET passed == IF r.ok THEN 1 ELSE 0 IN
    [expected |-> 1, executed |-> 1, passed |-> passed, failed |-> 1 - passed,
     skipped |-> 0, pending |-> 0, focused |-> 0]

AdaptRunnerReport(g, t) ==
    CASE Runner(g) = "vitest" -> AdaptVitestReport(VitestReport(t))
      [] Runner(g) = "python-unittest" -> AdaptPythonUnittestReport(UnittestReport(t))
      [] Runner(g) = "playwright" -> AdaptPlaywrightReport(PlaywrightReport(t))
      [] Runner(g) = "load" -> AdaptLoadReport(LoadReport(t))

AssertGatePass(g, s) ==
    /\ s.expected = ExpectedTests(g)
    /\ s.failed = 0 /\ s.skipped = 0 /\ s.pending = 0 /\ s.focused = 0
    /\ s.executed = s.expected
    /\ s.passed = s.executed

\* The closed set of summaries: exactly one for each gate of the manifest.
AssertRequiredTestReports(found) == found = Gates
===============================================================================
