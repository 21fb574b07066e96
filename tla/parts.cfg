\* The parts that do not interact, side by side.
SPECIFICATION Spec
CONSTANTS
  Axe = {"axe"}
  MadeBy <- FindingsOf
  Control = {"button", "link"}
  Load = "load"
  Search = "search"
  Decision = {"false_positive"}
  MaxAttempts = 2
  MaxDecisions = 1
  Criterion = {"1.1.1"}
  Request = {"r1", "r2"}
  SitePage = {"p1", "p2"}
  Extent = {{"p1"}, {"p1", "p2"}}
  Counted = {"axe", "alfa"}
  Silent = {"axe"}
  Uncounted = {}
  Result = {"failed"}
  MaxDeaths = 1
  Ctl <- PageControls
  Present = {"menu", "row1", "row2"}
  Framed = {"in frame"}
  Reveals <- PageReveals
  Modal = {"dialog"}
  Inside <- DialogControls
  Refused = {"delete"}
  Shape <- ControlShape
  MaxClicks = 3
  MaxDepth = 3
  MaxRepeated = 1
  MaxInert = 1
  MinPopulation = 2
  InFrame = {"in frame"}
  Faulty = {"ok", "in frame"}
  MaxShots = 1
  MaxStates = 1
  InBrowserOnly = {"axe"}
  OtherRow <- RowsOfOthers
  Url = {"u1", "u2"}
  Entry = "u1"
  Lead = {"lead"}
  MaxPages = 1
  MaxRuns = 2
  PScan = {"s1", "s2"}
  Kms = {"k1", "k2"}
  Irrevocable = {"k2"}
  NoKms = "none"
  Fetcher = {"f1", "f2", "f3"}
  Slots = 2
  Burst = 2
  Cost = 2
  MaxClock = 6
  MaxTaken = 4
  Visitor = {"w1", "w2"}
  Address = {"u1", "u2"}
  Tab = {"t1"}
  OwnTab = "own"
  Enabled = {"axe", "interaction", "semantic"}
  Keep = 1
  CheckedRows = 1
  MaxVisits = 2
  MostResults = 2
  MostPages = 2
  LastPage = 2
  Place = {"in", "also in", "out"}
  Visitable = {"in", "also in"}
  Hit = {"h1", "h2"}
  Picture = {"i"}
  Inline = {}
  Sheet = {"q1"}
  Analyst = {"a1", "a2"}
  Label = {"essential"}
  NoLabel = "none"
  Rules <- HintRules
  AnyLabel = "*"
  MaxPasses = 3
  Problem = {"axe", "best practice", "semantic"}
  Barrier = {"axe", "best practice"}
  ExpertLead = {"semantic"}
  Mapped = {"axe", "semantic"}
  Element = {"nav"}
  PageLevel = "page"
  StoredPages = 2
  Verdict = {"in_progress", "false_positive"}
  MaxEvidence = 2
  MaxVerdicts = 1
  Level <- LevelOf
  NoLevel = "none"
  Weight <- WeightOf
  Effort <- EffortOf
  Unrated = "unrated"
  Owner <- OwnerOf
  Hinders <- HinderedBy
  Titled <- TitleOf
  Behind = {"nav"}
  MaxLocations = 1
  MaxSheets = 1
  MaxHotspots = 1
  MaxLeads = 1
  Host = {"site", "www", "sub", "local"}
  Domain <- DomainOf
  Apex <- ApexOf
  Loopback = {"local"}
  Segment = {"a", "f.html"}
  File = {"f.html"}
  Param = {1, 2}
  Version = {"2.1", "2.2"}
  Legacy = "2.2"
  Newest = "2.1"
  Page <- LocalPages
  Home <- HomePage
  Link <- Links
  SessionEnding <- Leaving
  Disallowed <- Leaving
  Body <- Bodies
  Direct = FALSE
  Asked <- Forms
  AskedSignedIn <- LoginForms
  AskedCli <- CommandLines
  MaxLimit = 2
  DefaultLimit = 2
  Boundless = Boundless
  Missing = Missing
  Answer = {"rules"}
  MaxCrawls = 2
  MaxRows = 2
  Focusable = {"e", "frame"}
  Outer = {"frame"}
  Nowhere = "body"
  Document = "html"
  Hop <- SomeHops
  Looks <- Layout
  AxeFinds <- AxeSights
  Overflows = {320}
  Media <- Plays
  Reordered = {TRUE}
  Named <- NamedAs
  TabKept = TRUE
  Stuck = 2
  MaxFocusable = 0
  MaxOffenders = 1
  MaxPictures = 1
  MaxLoads = 2
  Walks <- WalksOf
  NoId = "none"
  Documents <- Texts
  Floored = {"2.4.4"}
  MostSent = 2
  Permits = 1
  MostTries = 2
  MostEntries = 2
  MaxReads = 2
INVARIANTS
  EvidenceIsShown
  ReviewIsHonest
  TotalsAreTrue
  ClicksAreTrue
  
  IndexIsSound
  ErasureIsExact
  HostIsSpared
  VisitsAreTrue
  ChecksAreTrue
  SearchIsHonest
  ImageReportHolds
  PermitsReturn
  OutlinesAreTrue
  NoRowIsLost
  ReportIsTrue
  SettingsHold
PROPERTIES
  RowsOnlyGrow
  LabelsStay
\* Each part may come to its end.
CHECK_DEADLOCK FALSE
