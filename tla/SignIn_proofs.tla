--------------------------- MODULE SignIn_proofs ---------------------------
(***************************************************************************)
(* The safety of a sign-in, for any number of reopen requests.  That an    *)
(* erased sign-in stays erased is not inductive: it needs that the opener  *)
(* cannot make a session wait for its person once it was closed or handed  *)
(* over, and that a task past its confirmation has left the waiting state  *)
(* behind, which is what a capture that comes late looks at.               *)
(***************************************************************************)
EXTENDS SignIn, TLAPS

Requests == [Reopen -> {"idle", "launching", "restoring", "loading", "done"}]

-----------------------------------------------------------------------------
(* Types *)

\* The part of the types that the registry's entry has.
RegistryOK ==
  /\ entry \in {"none", "opening_browser", "awaiting_authentication", "taken", "ended"}
  /\ listed \in BOOLEAN /\ clock \in {"off", "running", "due"}

\* The entry is changed by window events and by the session's window alike.
LEMMA EntryTyped == RegistryOK /\ (EntryOpened \/ EntryClosed) => RegistryOK'
  BY DEF RegistryOK, EntryOpened, EntryClosed, registry

LEMMA WindowTyped ==
  ASSUME NEW value \in BOOLEAN, RegistryOK, SetWindowOpen(value)
  PROVE  RegistryOK' /\ open' \in BOOLEAN
<1>1. RegistryOK /\ UNCHANGED registry => RegistryOK'
  BY DEF RegistryOK, registry
<1> QED
  BY <1>1, EntryTyped DEF SetWindowOpen

LEMMA EndTyped == TypeOK /\ End => TypeOK'
<1> USE DEF TypeOK, Window, session, fields
<1>1. ASSUME TypeOK, End
      PROVE  UNCHANGED <<listed, clock, reopener, runner, source>> /\ entry' = "ended"
             /\ opener' \in {"none", "done"}
  BY <1>1 DEF End
<1>2. ASSUME TypeOK, CutShort, UNCHANGED <<session, capturing>>
      PROVE  windows' \subseteq windows /\ closer' = "cut"
  BY <1>2 DEF CutShort
<1>3. CASE CutShort /\ UNCHANGED <<session, capturing>>
  BY <1>1, <1>2, <1>3
<1>4. CASE CloseSession /\ UNCHANGED windows
  BY <1>1, <1>4 DEF CloseSession, BeginClose
<1> QED
  BY <1>3, <1>4 DEF End

LEMMA OpenerTyped == TypeOK /\ (Create \/ OpenerStep) => TypeOK'
<1> USE DEF TypeOK, Window, registry, session, fields, coroutines
<1>1. TypeOK /\ Create => TypeOK'
  BY DEF Create
<1>2. TypeOK /\ Launched => TypeOK'
  BY DEF Launched
<1>3. TypeOK /\ Loaded => TypeOK'
  BY DEF Loaded, SetWindowOpen, EntryOpened, EntryClosed
<1>4. TypeOK /\ Opened => TypeOK'
  BY DEF Opened, Captured, EntryOpened
<1>5. TypeOK /\ OpenFails => TypeOK'
  BY DEF OpenFails, CloseSession, BeginClose
<1>6. TypeOK /\ OpenFailed => TypeOK'
  BY DEF OpenFailed
<1> HIDE DEF TypeOK
<1> QED
  BY <1>1, <1>2, <1>3, <1>4, <1>5, <1>6 DEF OpenerStep

LEMMA PersonTyped ==
  TypeOK /\ (CaptureStarts \/ CaptureEnds \/ ClockRunsOut \/ \E w \in Window : PersonCloses(w))
    => TypeOK'
<1> USE DEF TypeOK, Window, registry, session, fields, coroutines
<1>1. TypeOK /\ CaptureStarts => TypeOK'
  BY DEF CaptureStarts
<1>2. ASSUME TypeOK, CaptureEnds
      PROVE  TypeOK'
  <2>1. kept' \in BOOLEAN
    BY <1>2 DEF CaptureEnds, Captured
  <2> QED
    BY <1>2, <2>1 DEF CaptureEnds
<1>3. TypeOK /\ ClockRunsOut => TypeOK'
  BY DEF ClockRunsOut
<1>4. ASSUME TypeOK, NEW w \in Window, PersonCloses(w)
      PROVE  TypeOK'
  <2>1. RegistryOK' /\ open' \in BOOLEAN
    BY <1>4, WindowTyped DEF PersonCloses, RegistryOK
  <2>2. UNCHANGED <<state, restoring, kept, capturing, coroutines>>
    BY <1>4 DEF PersonCloses
  <2>3. context' \in {context, NoWindow} /\ login' \in {login, NoWindow}
        /\ tabs' \subseteq tabs /\ windows' \subseteq windows
    BY <1>4 DEF PersonCloses
  <2> QED
    BY <1>4, <2>1, <2>2, <2>3 DEF RegistryOK
<1> HIDE DEF TypeOK
<1> QED
  BY <1>1, <1>2, <1>3, <1>4

LEMMA RequestsTyped ==
  TypeOK /\ (Refresh \/ CancelSignIn \/ StartScan
               \/ \E r \in Reopen : ReopenWindow(r) \/ ReopenerStep(r))
    => TypeOK'
<1> USE DEF TypeOK, Window, registry, session, fields, coroutines
<1>1. ASSUME TypeOK, Refresh
      PROVE  TypeOK'
  <2>1. CASE End
    BY <1>1, <2>1, EndTyped
  <2>2. CASE (EntryOpened \/ EntryClosed) /\ UNCHANGED <<session, windows, capturing, coroutines>>
    <3>1. RegistryOK'
      BY <1>1, <2>2, EntryTyped DEF RegistryOK
    <3> QED
      BY <1>1, <2>2, <3>1 DEF RegistryOK
  <2> QED
    BY <1>1, <2>1, <2>2 DEF Refresh
<1>2. TypeOK /\ CancelSignIn => TypeOK'
  BY EndTyped DEF CancelSignIn
<1>3. TypeOK /\ StartScan => TypeOK'
  BY DEF StartScan
<1>4. TypeOK /\ (\E r \in Reopen : ReopenWindow(r)) => TypeOK'
  BY DEF ReopenWindow, StopClock
<1>5. TypeOK /\ (\E r \in Reopen : ReopenLaunched(r)) => TypeOK'
  BY DEF ReopenLaunched
<1>6. ASSUME TypeOK, NEW r \in Reopen, ReopenRestored(r)
      PROVE  TypeOK'
  <2>1. RegistryOK' /\ open' \in BOOLEAN
    BY <1>6, WindowTyped DEF ReopenRestored, RegistryOK
  <2>2. restoring' \in BOOLEAN /\ reopener' \in Requests
        /\ UNCHANGED <<state, fields, kept, windows, capturing, opener, runner, source, closer>>
    BY <1>6 DEF ReopenRestored, Requests
  <2> QED
    BY <1>6, <2>1, <2>2 DEF RegistryOK, Requests
<1>7. ASSUME TypeOK, NEW r \in Reopen, ReopenLoaded(r)
      PROVE  TypeOK'
  <2>1. RegistryOK'
    BY <1>7, EntryTyped DEF ReopenLoaded, RegistryOK
  <2> QED
    BY <1>7, <2>1 DEF ReopenLoaded, RegistryOK
<1>8. ASSUME TypeOK, NEW r \in Reopen, ReopenFails(r)
      PROVE  TypeOK'
  <2>1. RegistryOK'
    BY <1>8, EntryTyped DEF ReopenFails, RegistryOK
  <2>2. /\ reopener' \in Requests
        /\ UNCHANGED <<state, open, kept, capturing, opener, runner, source, closer>>
    BY <1>8 DEF ReopenFails, Requests
  <2>3. /\ restoring' \in BOOLEAN /\ tabs' \in {tabs, {}} /\ windows' \subseteq windows
        /\ context' \in {context, NoWindow} /\ login' \in {login, NoWindow}
    BY <1>8 DEF ReopenFails
  <2> QED
    BY <1>8, <2>1, <2>2, <2>3 DEF RegistryOK, Requests
<1> HIDE DEF TypeOK
<1> QED
  BY <1>1, <1>2, <1>3, <1>4, <1>5, <1>6, <1>7, <1>8 DEF ReopenerStep

LEMMA RunnerTyped == TypeOK /\ (RunnerStep \/ StopAgain \/ CloseDone) => TypeOK'
<1> USE DEF TypeOK, Window, registry, session, fields, coroutines
<1>1. TypeOK /\ Confirm => TypeOK'
  BY DEF Confirm
<1>2. TypeOK /\ ChooseSource => TypeOK'
  BY DEF ChooseSource
<1>3. TypeOK /\ Restored => TypeOK'
  BY DEF Restored
<1>4. TypeOK /\ RetireLogin => TypeOK'
  BY DEF RetireLogin
<1>5. TypeOK /\ Swap => TypeOK'
  BY DEF Swap
<1>6. TypeOK /\ RunStops => TypeOK'
  BY DEF RunStops, RunEnds, CloseSession, BeginClose
<1>7. TypeOK /\ RunDone => TypeOK'
  BY DEF RunDone
<1>8. TypeOK /\ StopAgain => TypeOK'
  BY DEF StopAgain, CutShort
<1>9. TypeOK /\ CloseDone => TypeOK'
  BY DEF CloseDone
<1> HIDE DEF TypeOK
<1> QED
  BY <1>1, <1>2, <1>3, <1>4, <1>5, <1>6, <1>7, <1>8, <1>9 DEF RunnerStep

-----------------------------------------------------------------------------
(* The inductive invariant *)

\* Until the browser has been launched, nothing else has begun.
Untouched ==
  opener \in {"none", "launching"} =>
    /\ state = "new" /\ runner = "none"
    /\ entry = (IF opener = "none" THEN "none" ELSE "opening_browser")
    /\ \A r \in Reopen : reopener[r] = "idle"

\* A sign-in is created once.
CreatedOnce == entry = "none" => opener = "none"

\* From its confirmation on, the scan's session waits for nobody.
Confirmed ==
  runner \in {"confirmed", "restoring", "retiring", "swapping", "scanning"} =>
    state \in {"authenticated", "closed"}

IInv == reopener \in Requests /\ Untouched /\ CreatedOnce /\ Confirmed /\ KeptErased

LEMMA InitHolds == Init => IInv
  BY DEF Init, IInv, Requests, Untouched, CreatedOnce, Confirmed, KeptErased

-----------------------------------------------------------------------------
(* The parts that several actions are made of *)

\* A window that closes leaves the entry as it is; one that opens does so with
\* an entry that waits, and with no other.
LEMMA EntryEvents ==
  /\ EntryClosed => entry' = entry
  /\ EntryOpened => entry' = (IF Waiting THEN "awaiting_authentication" ELSE entry)
  BY DEF EntryOpened, EntryClosed, Waiting, registry

LEMMA WindowEvents ==
  /\ SetWindowOpen(FALSE) => entry' = entry
  /\ SetWindowOpen(TRUE) => entry' \in {entry, IF Waiting THEN "awaiting_authentication" ELSE entry}
  BY EntryEvents DEF SetWindowOpen, registry

\* Closing erases the kept sign-in, or finds it erased.
LEMMA Closing ==
  ASSUME CloseSession, KeptErased
  PROVE  state' = "closed" /\ ~kept'
  BY DEF CloseSession, BeginClose, KeptErased, session

\* A capture that ends keeps something only for a session that waits.
LEMMA Capturing ==
  ASSUME NEW from, Captured(from)
  PROVE  kept' = kept \/ state = "awaiting"
  BY DEF Captured

LEMMA Ending ==
  ASSUME End, IInv, Waiting
  PROVE  IInv'
<1>1. opener \in {"none"} => FALSE
  BY DEF IInv, Untouched, Waiting
<1>2. opener' = "done" /\ entry' = "ended" /\ UNCHANGED <<reopener, runner>>
  BY <1>1 DEF End
<1>3. (state' = state /\ kept' = kept) \/ (state' = "closed" /\ ~kept')
  BY Closing DEF End, IInv, session
<1> QED
  BY <1>2, <1>3 DEF IInv, Untouched, CreatedOnce, Confirmed, KeptErased

-----------------------------------------------------------------------------
(* Every step *)

LEMMA OpenerKeeps ==
  ASSUME IInv, Create \/ OpenerStep
  PROVE  IInv'
<1>1. CASE Create
  BY <1>1 DEF Create, IInv, Untouched, CreatedOnce, Confirmed, KeptErased, session
<1>2. CASE Launched
  BY <1>2 DEF Launched, IInv, Untouched, CreatedOnce, Confirmed, KeptErased, registry
<1>3. CASE Loaded
  <2>1. entry # "none" /\ entry' # "none"
    BY <1>3, WindowEvents DEF Loaded, IInv, CreatedOnce, Waiting
  <2> QED
    BY <1>3, <2>1 DEF Loaded, IInv, Untouched, CreatedOnce, Confirmed, KeptErased
<1>4. CASE Opened
  <2>1. entry # "none" /\ entry' # "none"
    BY <1>4, EntryEvents DEF Opened, IInv, CreatedOnce, Waiting
  <2>2. kept' = kept \/ state = "awaiting"
    BY <1>4, Capturing DEF Opened
  <2> QED
    BY <1>4, <2>1, <2>2 DEF Opened, IInv, Untouched, CreatedOnce, Confirmed, KeptErased
<1>5. CASE OpenFails
  <2>1. state' = "closed" /\ ~kept'
    BY <1>5, Closing DEF OpenFails, IInv
  <2> QED
    BY <1>5, <2>1 DEF OpenFails, IInv, Untouched, CreatedOnce, Confirmed, KeptErased, registry
<1>6. CASE OpenFailed
  BY <1>6 DEF OpenFailed, Waiting, IInv, Untouched, CreatedOnce, Confirmed, KeptErased, session
<1> QED
  BY <1>1, <1>2, <1>3, <1>4, <1>5, <1>6 DEF OpenerStep

LEMMA PersonKeeps ==
  ASSUME IInv,
         CaptureStarts \/ CaptureEnds \/ (\E w \in Window : PersonCloses(w)) \/ ClockRunsOut
  PROVE  IInv'
<1>1. CASE CaptureStarts
  BY <1>1 DEF CaptureStarts, IInv, Untouched, CreatedOnce, Confirmed, KeptErased,
     registry, session, coroutines
<1>2. CASE CaptureEnds
  <2>1. kept' = kept \/ state = "awaiting"
    BY <1>2, Capturing DEF CaptureEnds
  <2> QED
    BY <1>2, <2>1 DEF CaptureEnds, IInv, Untouched, CreatedOnce, Confirmed, KeptErased,
       registry, coroutines
<1>3. ASSUME NEW w \in Window, PersonCloses(w)
      PROVE  IInv'
  <2>1. UNCHANGED <<state, kept, coroutines>>
    BY <1>3 DEF PersonCloses
  <2>2. entry' = entry
    BY <1>3, WindowEvents DEF PersonCloses, registry
  <2> QED
    BY <2>1, <2>2 DEF IInv, Untouched, CreatedOnce, Confirmed, KeptErased, coroutines
<1>4. CASE ClockRunsOut
  BY <1>4 DEF ClockRunsOut, IInv, Untouched, CreatedOnce, Confirmed, KeptErased,
     session, coroutines
<1> QED
  BY <1>1, <1>2, <1>3, <1>4

\* A request that finds the sign-in waiting finds the opener past its launch.
LEMMA RequestsKeep ==
  ASSUME IInv,
         Refresh \/ CancelSignIn \/ StartScan
           \/ (\E r \in Reopen : ReopenWindow(r) \/ ReopenerStep(r))
  PROVE  IInv'
<1>1. CASE Refresh
  <2>1. CASE End
    BY <1>1, <2>1, Ending DEF Refresh, Waiting
  <2>2. CASE (EntryOpened \/ EntryClosed) /\ UNCHANGED <<session, windows, capturing, coroutines>>
    <3>1. entry' = entry
      BY <1>1, <2>2, EntryEvents DEF Refresh, Waiting
    <3> QED
      BY <2>2, <3>1 DEF IInv, Untouched, CreatedOnce, Confirmed, KeptErased, session, coroutines
  <2> QED
    BY <1>1, <2>1, <2>2 DEF Refresh
<1>2. CASE CancelSignIn
  BY <1>2, Ending DEF CancelSignIn
<1>3. CASE StartScan
  <2>1. opener \notin {"none", "launching"}
    BY <1>3 DEF StartScan, Refreshed, IInv, Untouched
  <2> QED
    BY <1>3, <2>1 DEF StartScan, IInv, Untouched, CreatedOnce, Confirmed, KeptErased, session
<1>4. ASSUME NEW r \in Reopen, ReopenWindow(r)
      PROVE  IInv'
  <2>1. opener \notin {"none", "launching"}
    BY <1>4 DEF ReopenWindow, Refreshed, IInv, Untouched
  <2>2. reopener' \in Requests
    BY <1>4 DEF ReopenWindow, IInv, Requests
  <2> QED
    BY <1>4, <2>1, <2>2 DEF ReopenWindow, IInv, Untouched, CreatedOnce, Confirmed, KeptErased, session
<1>5. ASSUME NEW r \in Reopen, ReopenerStep(r)
      PROVE  IInv'
  <2>1. UNCHANGED <<state, kept, opener, runner>>
    BY <1>5 DEF ReopenerStep, ReopenLaunched, ReopenRestored, ReopenLoaded, ReopenFails, session
  <2>2. reopener' \in Requests
    BY <1>5 DEF ReopenerStep, ReopenLaunched, ReopenRestored, ReopenLoaded, ReopenFails, IInv, Requests
  <2>3. opener \notin {"none", "launching"}
    BY <1>5 DEF ReopenerStep, ReopenLaunched, ReopenRestored, ReopenLoaded, ReopenFails, IInv, Untouched
  <2>4. entry' \in {entry, IF Waiting THEN "awaiting_authentication" ELSE entry}
    BY <1>5, WindowEvents, EntryEvents
    DEF ReopenerStep, ReopenLaunched, ReopenRestored, ReopenLoaded, ReopenFails, registry
  <2> QED
    BY <2>1, <2>2, <2>3, <2>4 DEF IInv, Untouched, CreatedOnce, Confirmed, KeptErased, Waiting
<1> QED
  BY <1>1, <1>2, <1>3, <1>4, <1>5

\* The scan's task begins only after StartScan, when nothing is untouched any more.
LEMMA RunnerKeeps ==
  ASSUME IInv, RunnerStep \/ StopAgain \/ CloseDone
  PROVE  IInv'
<1>1. CASE Confirm
  BY <1>1 DEF Confirm, IInv, Untouched, CreatedOnce, Confirmed, KeptErased, registry
<1>2. CASE ChooseSource
  BY <1>2 DEF ChooseSource, IInv, Untouched, CreatedOnce, Confirmed, KeptErased, registry, session
<1>3. CASE Restored
  BY <1>3 DEF Restored, IInv, Untouched, CreatedOnce, Confirmed, KeptErased, registry
<1>4. CASE RetireLogin
  BY <1>4 DEF RetireLogin, IInv, Untouched, CreatedOnce, Confirmed, KeptErased, registry
<1>5. CASE Swap
  BY <1>5 DEF Swap, IInv, Untouched, CreatedOnce, Confirmed, KeptErased, registry
<1>6. CASE RunStops
  <2>1. CASE RunEnds
    <3>1. state' = "closed" /\ ~kept'
      BY <2>1, Closing DEF RunEnds, IInv
    <3> QED
      BY <1>6, <2>1, <3>1
      DEF RunStops, RunEnds, IInv, Untouched, CreatedOnce, Confirmed, KeptErased, registry
  <2>2. CASE runner = "created" /\ runner' = "done" /\ UNCHANGED <<session, capturing, closer>>
    BY <1>6, <2>2 DEF RunStops, IInv, Untouched, CreatedOnce, Confirmed, KeptErased, registry, session
  <2> QED
    BY <1>6, <2>1, <2>2 DEF RunStops
<1>7. CASE RunDone
  BY <1>7 DEF RunDone, IInv, Untouched, CreatedOnce, Confirmed, KeptErased, registry, session
<1>8. CASE StopAgain
  BY <1>8 DEF StopAgain, IInv, Untouched, CreatedOnce, Confirmed, KeptErased, registry, session
<1>9. CASE CloseDone
  BY <1>9 DEF CloseDone, IInv, Untouched, CreatedOnce, Confirmed, KeptErased, registry, session
<1> QED
  BY <1>1, <1>2, <1>3, <1>4, <1>5, <1>6, <1>7, <1>8, <1>9 DEF RunnerStep

LEMMA NextHolds == IInv /\ [Next]_vars => IInv'
<1>1. ASSUME IInv, UNCHANGED vars
      PROVE  IInv'
  BY <1>1 DEF vars, registry, session, coroutines, IInv, Untouched, CreatedOnce, Confirmed, KeptErased
<1> QED
  BY <1>1, OpenerKeeps, PersonKeeps, RequestsKeep, RunnerKeeps DEF Next

-----------------------------------------------------------------------------
(* The theorems *)

\* Every field of the registry and of the session keeps its type, whatever other
\* coroutines did to it between two awaits of one.
THEOREM TypeCorrect == Spec => []TypeOK
<1>1. Init => TypeOK
  BY SignInAssumption DEF Init, TypeOK, Window
<1>2. TypeOK /\ UNCHANGED vars => TypeOK'
  BY DEF TypeOK, Window, vars, registry, session, fields, coroutines
<1>3. TypeOK /\ [Next]_vars => TypeOK'
  BY <1>2, OpenerTyped, PersonTyped, RequestsTyped, RunnerTyped DEF Next
<1> QED
  BY <1>1, <1>3, PTL DEF Spec

\* No copy of a sign-in outlives its session or the hand-over to the scan's own
\* browser, however captures, windows, requests and close() overlap.
THEOREM KeptErasedCorrect == Spec => []KeptErased
<1>1. IInv => KeptErased
  BY DEF IInv
<1> QED
  BY <1>1, InitHolds, NextHolds, PTL DEF Spec

\* An ended or taken sign-in is gone: no late window event, reopen request or
\* failure brings its entry back or ends it a second time.
THEOREM GoneStaysGoneCorrect == Spec => GoneStaysGone
<1>1. ASSUME Next
      PROVE  entry' = entry \/ entry \notin {"taken", "ended"}
  <2>1. EntryOpened \/ EntryClosed => entry' = entry \/ entry \notin {"taken", "ended"}
    BY EntryEvents DEF Waiting
  <2>2. SetWindowOpen(TRUE) \/ SetWindowOpen(FALSE) => entry' = entry \/ entry \notin {"taken", "ended"}
    BY WindowEvents DEF Waiting
  <2>3. CASE Create \/ OpenerStep
    BY <2>1, <2>2, <2>3
    DEF Create, OpenerStep, Launched, Loaded, Opened, OpenFails, OpenFailed, Waiting, registry
  <2>4. CASE CaptureStarts \/ CaptureEnds \/ ClockRunsOut \/ \E w \in Window : PersonCloses(w)
    BY <2>2, <2>4 DEF CaptureStarts, CaptureEnds, ClockRunsOut, PersonCloses, registry
  <2>5. CASE Refresh \/ CancelSignIn \/ StartScan
    BY <2>1, <2>5 DEF Refresh, CancelSignIn, StartScan, Refreshed, Waiting
  <2>6. CASE \E r \in Reopen : ReopenWindow(r) \/ ReopenerStep(r)
    BY <2>1, <2>2, <2>6
    DEF ReopenWindow, ReopenerStep, ReopenLaunched, ReopenRestored, ReopenLoaded, ReopenFails, registry
  <2>7. CASE RunnerStep \/ StopAgain \/ CloseDone
    BY <2>7 DEF RunnerStep, Confirm, ChooseSource, Restored, RetireLogin, Swap, RunStops, RunDone,
       StopAgain, CloseDone, registry
  <2> QED
    BY <1>1, <2>3, <2>4, <2>5, <2>6, <2>7 DEF Next
<1>2. [Next]_vars => [entry' = entry \/ entry \notin {"taken", "ended"}]_vars
  BY <1>1
<1> QED
  BY <1>2, PTL DEF Spec, GoneStaysGone

\* The expiry loop ends no sign-in whose window the session knows to be open,
\* even when the registry has not heard of it yet.
THEOREM OpenNotForgottenCorrect == Spec => OpenNotForgotten
<1>1. Refresh /\ entry' = "ended" => ~open
  BY EntryEvents DEF Refresh, Waiting
<1>2. [Next]_vars => [Refresh /\ entry' = "ended" => ~open]_vars
  BY <1>1
<1> QED
  BY <1>2, PTL DEF Spec, OpenNotForgotten
=============================================================================
