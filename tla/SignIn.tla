------------------------------- MODULE SignIn -------------------------------
(***************************************************************************)
(* A sign-in in progress: its entry in the registry (src/audit/web/        *)
(* local_sign_in.py), the endpoints that drive it (server.py) and its      *)
(* browser session (src/audit/protected/session.py), from "Open browser to *)
(* sign in" until it is cancelled, forgotten, or handed over to a scan     *)
(* whose browser is headless.                                              *)
(*                                                                         *)
(* An action is what one coroutine does between two awaits.  Several are   *)
(* under way at once: the opener, reopen requests, captures of the         *)
(* signed-in state, the scan's task and close(), and the person closes     *)
(* windows whenever they like.  They share the session's fields, so what   *)
(* one of them read before an await may be gone after it.                  *)
(*                                                                         *)
(* CapturedBlindly, EntryOpenedAnyway, EntryClosedUntimed and              *)
(* RefreshUnsynced are wrong on purpose: slips of the definition they      *)
(* precede, kept to show that the properties notice them.                  *)
(***************************************************************************)
EXTENDS FiniteSets

CONSTANTS
  First,    \* the window the sign-in opens with
  Reopen,   \* the reopen requests; each opens a window named after itself
  Headless, \* the scan's own browser
  NoWindow

ASSUME SignInAssumption ==
  /\ {First, Headless, NoWindow} \cap Reopen = {}
  /\ Cardinality({First, Headless, NoWindow}) = 3

Window == {First} \cup Reopen

VARIABLES
  entry,      \* the registry's entry: "none", its status, or how it went
  listed,     \* PendingSignIn.window_open
  clock,      \* "off", "running", or "due" when the limit has passed
  state,      \* ManualAuthState
  context,    \* _context: the window it belongs to
  login,      \* _login_browser
  tabs,       \* _auth_pages: the windows with a tab of the sign-in
  open,       \* _window_open
  restoring,  \* _restoring
  kept,       \* _kept is not None
  windows,    \* the sign-in windows on the screen
  capturing,  \* the contexts that captures under way started from
  opener,     \* where _open_local_sign_in is
  reopener,   \* where each reopen request is
  runner,     \* where the scan's task is
  source,     \* the window the scan takes its sign-in from, or NoWindow
  closer      \* where close() is: "none", "closing", "closed" or "cut"

registry == <<entry, listed, clock>>
fields == <<context, login, tabs>>
session == <<state, fields, open, restoring, kept>>
coroutines == <<opener, reopener, runner, source, closer>>
vars == <<registry, session, windows, capturing, coroutines>>

TypeOK ==
  /\ entry \in {"none", "opening_browser", "awaiting_authentication", "taken", "ended"}
  /\ listed \in BOOLEAN /\ clock \in {"off", "running", "due"}
  /\ state \in {"new", "awaiting", "authenticated", "closed"}
  /\ context \in Window \cup {Headless, NoWindow} /\ login \in Reopen \cup {NoWindow}
  /\ tabs \subseteq Window /\ {open, restoring, kept} \subseteq BOOLEAN
  /\ windows \subseteq Window /\ capturing \subseteq Window
  /\ opener \in {"none", "launching", "loading", "keeping", "failing", "done"}
  /\ reopener \in [Reopen -> {"idle", "launching", "restoring", "loading", "done"}]
  /\ runner \in {"none", "created", "confirmed", "restoring", "retiring", "swapping",
                 "scanning", "closing", "done"}
  /\ source \in Window \cup {NoWindow}
  /\ closer \in {"none", "closing", "closed", "cut"}

Init ==
  /\ entry = "none" /\ listed = FALSE /\ clock = "off"
  /\ state = "new" /\ context = NoWindow /\ login = NoWindow /\ tabs = {}
  /\ open = FALSE /\ restoring = FALSE /\ kept = FALSE
  /\ windows = {} /\ capturing = {}
  /\ opener = "none" /\ reopener = [r \in Reopen |-> "idle"]
  /\ runner = "none" /\ source = NoWindow /\ closer = "none"

-----------------------------------------------------------------------------
(* The registry *)

Waiting == entry \in {"opening_browser", "awaiting_authentication"}

EntryOpenedAnyway ==
  entry' = "awaiting_authentication" /\ listed' = TRUE /\ clock' = "off"

\* window_opened: nothing for a sign-in that is not the current one.
EntryOpened ==
  IF Waiting
  THEN entry' = "awaiting_authentication" /\ listed' = TRUE /\ clock' = "off"
  ELSE UNCHANGED registry

EntryClosedUntimed ==
  IF Waiting THEN listed' = FALSE /\ UNCHANGED <<entry, clock>> ELSE UNCHANGED registry

\* window_closed: the clock starts, once.
EntryClosed ==
  IF Waiting
  THEN listed' = FALSE /\ clock' = (IF clock = "off" THEN "running" ELSE clock) /\ UNCHANGED entry
  ELSE UNCHANGED registry

\* _set_window_open, with the callback that tells the registry.
SetWindowOpen(value) ==
  /\ open' = value
  /\ IF open = value THEN UNCHANGED registry
     ELSE IF value THEN EntryOpened ELSE EntryClosed

-----------------------------------------------------------------------------
(* Closing the session *)

\* close() up to its first await: erase the kept sign-in, drop the references.
BeginClose ==
  /\ state' = "closed" /\ kept' = FALSE /\ open' = FALSE /\ capturing' = {}
  /\ context' = NoWindow /\ login' = NoWindow /\ tabs' = {}
  /\ closer' = "closing" /\ UNCHANGED restoring

\* close(): nothing for a session that is closed, or being closed.
CloseSession ==
  IF state = "closed" THEN UNCHANGED <<session, capturing, closer>> ELSE BeginClose

\* The rest of close(): the browsers, Playwright with all it still runs, and
\* the profile directory.
CloseDone ==
  /\ closer = "closing" /\ closer' = "closed" /\ windows' = {}
  /\ UNCHANGED <<registry, session, capturing, opener, reopener, runner, source>>

\* CancelledError in the midst of close(): what was asked to close does.
CutShort == closer' = "cut" /\ windows' \in SUBSET windows

\* _end, for the sign-in's own close(): cancel the opener, close the session.
End ==
  /\ entry' = "ended" /\ UNCHANGED <<listed, clock>>
  /\ opener' = IF opener = "none" THEN "none" ELSE "done"
  /\ IF opener = "failing" /\ closer = "closing"
     THEN CutShort /\ UNCHANGED <<session, capturing>>
     ELSE CloseSession /\ UNCHANGED windows
  /\ UNCHANGED <<reopener, runner, source>>

-----------------------------------------------------------------------------
(* Opening the window *)

\* POST /api/local-login-scans with none waiting.
Create ==
  /\ entry = "none" /\ entry' = "opening_browser" /\ opener' = "launching"
  /\ UNCHANGED <<listed, clock, session, windows, capturing, reopener, runner, source, closer>>

\* start(): the browser is there, and the page asked for is loading.
Launched ==
  /\ opener = "launching" /\ opener' = "loading"
  /\ state' = "awaiting" /\ context' = First /\ tabs' = {First} /\ windows' = {First}
  /\ UNCHANGED <<registry, login, open, restoring, kept, capturing,
                 reopener, runner, source, closer>>

\* The page is there, whether or not the window still is, which goto may have
\* answered too early to know.
Loaded ==
  /\ opener = "loading" /\ opener' = "keeping" /\ SetWindowOpen(TRUE)
  /\ UNCHANGED <<state, fields, restoring, kept, windows, capturing,
                 reopener, runner, source, closer>>

CapturedBlindly(from) == kept' \in {kept, TRUE}

\* The end of refresh_kept_state: the capture failed, or came too late, or its
\* result replaces the kept sign-in.
Captured(from) ==
  \/ UNCHANGED kept
  \/ state = "awaiting" /\ ~restoring /\ context = from /\ kept' = TRUE

\* The opener's own capture ends, start() returns, the endpoint's task ends.
Opened ==
  /\ opener = "keeping" /\ opener' = "done" /\ Captured(First) /\ EntryOpened
  /\ UNCHANGED <<state, fields, open, restoring, windows, capturing,
                 reopener, runner, source, closer>>

\* start() fails and closes the session; only then is the entry ended.
OpenFails ==
  /\ opener \in {"launching", "loading"} /\ opener' = "failing" /\ CloseSession
  /\ UNCHANGED <<registry, windows, reopener, runner, source>>

OpenFailed ==
  /\ opener = "failing" /\ closer = "closed" /\ opener' = "done"
  /\ entry' = (IF Waiting THEN "ended" ELSE entry)
  /\ UNCHANGED <<listed, clock, session, windows, capturing, reopener, runner, source, closer>>

-----------------------------------------------------------------------------
(* The person and the browser *)

\* A page change, or the five seconds of the keep loop.
CaptureStarts ==
  /\ state = "awaiting" /\ ~restoring /\ tabs # {} /\ context \in Window
  /\ context \notin capturing /\ capturing' = capturing \cup {context}
  /\ UNCHANGED <<registry, session, windows, coroutines>>

CaptureEnds ==
  /\ \E c \in capturing : capturing' = capturing \ {c} /\ Captured(c)
  /\ UNCHANGED <<registry, state, fields, open, restoring, windows, coroutines>>

\* The person closes a window.  When it was the sign-in's last tab, or the
\* current context, the session notices, unless it is busy opening one.
PersonCloses(w) ==
  /\ w \in windows
  /\ IF /\ tabs \ {w} = {} \/ (w = First /\ context = First)
        /\ state = "awaiting" /\ ~restoring /\ open
     THEN /\ context' = NoWindow /\ login' = NoWindow /\ tabs' = {}
          /\ windows' = windows \ {w, context, login} /\ SetWindowOpen(FALSE)
     ELSE /\ tabs' = tabs \ {w} /\ windows' = windows \ {w}
          /\ UNCHANGED <<registry, context, login, open>>
  /\ UNCHANGED <<state, restoring, kept, capturing, coroutines>>

ClockRunsOut ==
  /\ clock = "running" /\ clock' = "due"
  /\ UNCHANGED <<entry, listed, session, windows, capturing, coroutines>>

-----------------------------------------------------------------------------
(* Requests and the expiry loop *)

RefreshUnsynced ==
  /\ entry = "awaiting_authentication" /\ clock = "due" /\ ~listed /\ End

\* _refresh_sign_in: sync with the session's own window, then expire what is
\* due.  The expiry loop does it every few seconds, and so do the requests.
Refresh ==
  /\ entry = "awaiting_authentication"
  /\ \/ /\ open # listed /\ IF open THEN EntryOpened ELSE EntryClosed
        /\ UNCHANGED <<session, windows, capturing, coroutines>>
     \/ open = listed /\ ~listed /\ clock = "due" /\ End

\* A request finds the sign-in waiting, after its refresh.
Refreshed == entry = "awaiting_authentication" /\ open = listed /\ clock # "due"

\* POST .../cancel
CancelSignIn == Waiting /\ End

\* reopening(): the clock stops.
StopClock == clock' = "off"

\* POST .../reopen, up to the launch of the new window's browser.
ReopenWindow(r) ==
  /\ reopener[r] = "idle" /\ Refreshed /\ ~open /\ StopClock
  /\ reopener' = [reopener EXCEPT ![r] = "launching"]
  /\ UNCHANGED <<entry, listed, session, windows, capturing, opener, runner, source, closer>>

\* The browser is there: the session's fields are now about this window.
ReopenLaunched(r) ==
  /\ reopener[r] = "launching" /\ closer # "closed"
  /\ reopener' = [reopener EXCEPT ![r] = "restoring"]
  /\ context' = r /\ login' = r /\ tabs' = tabs \cup {r} /\ restoring' = TRUE
  /\ windows' = windows \cup {r}
  /\ UNCHANGED <<registry, state, open, kept, capturing, opener, runner, source, closer>>

\* Its tab is restored; the last page is loading.
ReopenRestored(r) ==
  /\ reopener[r] = "restoring" /\ reopener' = [reopener EXCEPT ![r] = "loading"]
  /\ restoring' = FALSE /\ SetWindowOpen(TRUE)
  /\ UNCHANGED <<state, fields, kept, windows, capturing, opener, runner, source, closer>>

\* The page has loaded or failed to: the endpoint tells the registry.
ReopenLoaded(r) ==
  /\ reopener[r] = "loading" /\ reopener' = [reopener EXCEPT ![r] = "done"]
  /\ EntryOpened
  /\ UNCHANGED <<session, windows, capturing, opener, runner, source, closer>>

\* The launch fails, or restoring the tab does: the clock starts again.
ReopenFails(r) ==
  /\ reopener' = [reopener EXCEPT ![r] = "done"] /\ EntryClosed
  /\ \/ /\ reopener[r] = "launching"
        /\ UNCHANGED <<session, windows>>
     \/ /\ reopener[r] = "restoring" /\ restoring' = FALSE
        /\ tabs' = {} /\ context' = NoWindow /\ login' = NoWindow
        /\ windows' = windows \ {r}
        /\ UNCHANGED <<state, open, kept>>
  /\ UNCHANGED <<capturing, opener, runner, source, closer>>

-----------------------------------------------------------------------------
(* The scan *)

\* "I'm signed in, start scan": take() and the task that runs the scan.
StartScan ==
  /\ Refreshed /\ entry' = "taken" /\ runner' = "created"
  /\ UNCHANGED <<listed, clock, session, windows, capturing, opener, reopener, source, closer>>

\* The task ends: its finally closes the session.
RunEnds == runner' = "closing" /\ CloseSession

\* enter_scan_mode: there is a tab or a kept sign-in to start from.
Confirm ==
  /\ runner = "created" /\ (tabs # {} \/ kept) /\ runner' = "confirmed"
  /\ state' = "authenticated" /\ capturing' = {}
  /\ UNCHANGED <<registry, fields, open, restoring, kept, windows, opener, reopener, source, closer>>

\* switch_to_headless, when a window being shut has gone: choose the source.
ChooseSource ==
  /\ runner = "confirmed" /\ runner' = "restoring"
  /\ source' = (IF tabs # {} /\ context \in Window THEN context ELSE NoWindow)
  /\ source' # NoWindow \/ kept
  /\ UNCHANGED <<registry, session, windows, capturing, opener, reopener, closer>>

\* The headless browser is signed in: the window it came from is closed,
Restored ==
  /\ runner = "restoring" /\ runner' = "retiring"
  /\ source \in windows \cup {NoWindow}
  /\ windows' = windows \ {source} /\ tabs' = tabs \ {source}
  /\ UNCHANGED <<registry, state, context, login, open, restoring, kept, capturing,
                 opener, reopener, source, closer>>

\* then a reopened window's browser,
RetireLogin ==
  /\ runner = "retiring" /\ runner' = "swapping"
  /\ login' = NoWindow /\ windows' = windows \ {login} /\ tabs' = tabs \ {login}
  /\ UNCHANGED <<registry, state, context, open, restoring, kept, capturing,
                 opener, reopener, source, closer>>

\* and the session is the scan's.
Swap ==
  /\ runner = "swapping" /\ runner' = "scanning"
  /\ context' = Headless /\ tabs' = {} /\ kept' = FALSE
  /\ UNCHANGED <<registry, state, login, open, restoring, windows, capturing,
                 opener, reopener, source, closer>>

\* The hand-over fails, the scan ends, or the scan is stopped.  A task that is
\* cancelled before its first step never gets to its finally.
RunStops ==
  /\ \/ runner \in {"created", "confirmed", "restoring", "retiring", "swapping", "scanning"} /\ RunEnds
     \/ runner = "created" /\ runner' = "done" /\ UNCHANGED <<session, capturing, closer>>
  /\ UNCHANGED <<registry, windows, opener, reopener, source>>

\* The scan is stopped while its task is closing the session.
StopAgain ==
  /\ runner = "closing" /\ closer = "closing" /\ runner' = "done" /\ CutShort
  /\ UNCHANGED <<registry, session, capturing, opener, reopener, source>>

RunDone ==
  /\ runner = "closing" /\ closer # "closing" /\ runner' = "done"
  /\ UNCHANGED <<registry, session, windows, capturing, opener, reopener, source, closer>>

-----------------------------------------------------------------------------
OpenerStep == Launched \/ Loaded \/ Opened \/ OpenFails \/ OpenFailed
ReopenerStep(r) == ReopenLaunched(r) \/ ReopenRestored(r) \/ ReopenLoaded(r) \/ ReopenFails(r)
RunnerStep == Confirm \/ ChooseSource \/ Restored \/ RetireLogin \/ Swap \/ RunStops \/ RunDone

Next ==
  \/ Create \/ OpenerStep \/ CaptureStarts \/ CaptureEnds
  \/ \E w \in Window : PersonCloses(w)
  \/ ClockRunsOut \/ Refresh \/ CancelSignIn \/ StartScan
  \/ \E r \in Reopen : ReopenWindow(r) \/ ReopenerStep(r)
  \/ RunnerStep \/ StopAgain \/ CloseDone

\* Every await of the opener, of a reopen and of close() answers or times out,
\* time passes, and the expiry loop runs while a sign-in waits.
Fairness ==
  /\ WF_vars(OpenerStep) /\ \A r \in Reopen : WF_vars(ReopenerStep(r))
  /\ WF_vars(ClockRunsOut) /\ WF_vars(Refresh) /\ WF_vars(CloseDone)

Spec == Init /\ [][Next]_vars /\ Fairness

-----------------------------------------------------------------------------
(* What a sign-in promises *)

\* No copy of the sign-in is kept for a session that has ended or a scan that
\* has its own browser, whatever captures were under way (session.py close,
\* switch_to_headless, refresh_kept_state).
KeptErased == (state = "closed" \/ runner = "scanning") => ~kept

\* A sign-in that was cancelled, forgotten or taken is not brought back by the
\* window events and requests still on their way (local_sign_in.py _end, take).
GoneStaysGone == [][entry' = entry \/ entry \notin {"taken", "ended"}]_vars

\* A sign-in is not forgotten while its window is open: the clock of a failed
\* reopen may run on beside a window another request opened (_refresh_sign_in).
OpenNotForgotten ==
  [][Refresh /\ entry' = "ended" => ~open]_vars

\* A sign-in whose window the session knows to be closed is opened again,
\* ended, taken or forgotten; no failed, late or overtaken reopen request
\* stops its clock for good (reopening, window_closed, expire_due).
ClosedForgotten ==
  (entry = "awaiting_authentication" /\ ~open) ~> (entry # "awaiting_authentication" \/ open)

\* "session.close() shuts the browsers and deletes the temporary profile."
CleanedUp == state = "closed" ~> closer = "closed"
=============================================================================
