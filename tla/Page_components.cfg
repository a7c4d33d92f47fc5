SPECIFICATION FairSpec
CONSTANTS
    c1 = c1  c2 = c2  s1 = s1  s2 = s2  s3 = s3  s4 = s4  f1 = f1  f2 = f2
    p1 = p1  p2 = p2  p3 = p3
    None = None  NoServer = NoServer
    Files = {f1, f2}
    Chains = {c1, c2}
    Servers = {s1, s2, s3, s4}
    Roster <- Rosters
    Answers <- SomeAnswers
    SignEnvs <- StayingSignEnvs
    MaxAttempts = 2
    Signatures <- SomeSignatures
    VerifyEnvs <- SomeVerifyEnvs
    MaxChecks = 2
    Sites = {c1, c2}
    NoPage = NoPage
    ViewerEnvs <- SomeViewerEnvs
    MaxOpens = 2
    RandomServer = s1
    Interval = 2
    RandomEnvs = {"sound", "failing", "lossy"}
    MaxMounts = 3
    Urls = {p1, p2}
    Base = p1
    Links <- SomeLinks
    MaxChains = 7
    NoUrl = NoUrl  Unsaved = Unsaved
    ModalEnvs <- SomeModalEnvs
    MaxBackdrops = 2
    Panels = 3
    PanelEnvs <- SomePanelEnvs
    Items = 3
    CarouselEnvs <- SomeCarouselEnvs
    MaxWaiting = 2
    TooltipEnvs <- SomeTooltipEnvs
    Tabs = 4
    TabEnvs <- SomeTabEnvs
    MaxQuick = 3
    Menus = {p1, p2, p3}
    MenuItems = 2
    DropdownEnvs <- SomeDropdownEnvs
    Nowhere = Nowhere
\* The tool stops when no chain can be created, and a script that shows a shown
\* modal stops it for good.
CHECK_DEADLOCK FALSE
INVARIANTS ComponentsTypeOK VerdictOfLastPair OneLoopEach SiteIsSound
           ModalSound AccordionSound CarouselSound TooltipSound TabSound DropdownSound
PROPERTIES SignEnds  AsksAgain ChainsAreKept
