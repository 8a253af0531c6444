---------------------------------- MODULE MCLive ----------------------------------
(***************************************************************************)
(* The parts with something that must come about, side by side: the pitch  *)
(* dialog, a game's listeners, the Wine side, the radios of the enabled    *)
(* eye, the updater's buttons, the head model's card, the socket, the tray *)
(* icon and a launch behind a running bridge.  They share no state, so a   *)
(* behaviour is one part's, its variables kept in a pool, and a part's     *)
(* fairness and its promises are asked of that part's behaviours.          *)
(***************************************************************************)
EXTENDS Integers, Sequences

VARIABLES which,   \* the part this behaviour is about
          v1, v2, v3, v4, v5, v6, v7, v8, v9, v10, v11, v12, v13, v14, v15,
          v16, v17, v18, v19, v20, v21, v22

pool == <<v1, v2, v3, v4, v5, v6, v7, v8, v9, v10, v11, v12, v13, v14, v15,
          v16, v17, v18, v19, v20, v21, v22>>
partsVars == <<which, pool>>

-----------------------------------------------------------------------------
(* HubWindow: one monitor, and no flow. *)
HwOne == {{[id |-> {"B"}, width |-> 1000, height |-> 300]}}

(* UpdateFlow: listings with a draft, a release without checksums, one whose  *)
(* version does not parse, pre-releases, an asset of another host; installs   *)
(* in every kind of place; folders under others' directories; checksum lists  *)
(* with a stale and with a missing line.                                     *)
UfAsset(k, t) ==
    [kind |-> k, target |-> t, plain |-> TRUE, url |-> [https |-> TRUE, userinfo |-> FALSE, host |-> "github"]]
UfRelease(n, assets, draft, pre) ==
    [tag |-> [nums |-> n, pre |-> pre], draft |-> draft, prerelease |-> FALSE, assets |-> assets]
UfBase == <<UfAsset("tar.gz", "x"), UfAsset("SHA256SUMS", "any")>>
UfPackage == <<UfAsset("PKGBUILD", "any"), UfAsset("tobii-linux.install", "any")>>
UfElsewhere == [UfAsset("tar.gz", "x") EXCEPT !.url.host = "elsewhere"]
UfPre(n) == <<[stem |-> 1, num |-> n]>>
UfListings ==
    {<<UfRelease(<<1, 2>>, UfBase, FALSE, <<>>), UfRelease(<<2>>, UfBase \o UfPackage, FALSE, <<>>),
       UfRelease(<<9>>, UfBase, TRUE, <<>>)>>,
     <<UfRelease(<<2, 0, 0>>, <<UfAsset("tar.gz", "x")>>, FALSE, <<>>)>>,
     <<UfRelease(<<1, 9, -1>>, UfBase, FALSE, <<>>), UfRelease(<<2>>, UfBase, FALSE, UfPre(2)),
       UfRelease(<<2>>, <<UfElsewhere, UfAsset("SHA256SUMS", "any"), UfAsset("deb", "x")>>, FALSE, UfPre(10))>>,
     <<UfRelease(<<1>>, UfBase, FALSE, <<>>)>>, <<>>}
UfOwned == [m \in {"dpkg", "rpm", "pacman"} |-> "absent"]
UfPlace ==
    [exe_gone |-> FALSE, answers |-> <<UfOwned, UfOwned>>, dir_writable |-> TRUE, binaries_mine |-> TRUE,
     dir_mine |-> TRUE, dir_in_home |-> TRUE, as_root |-> FALSE]
UfPlaces ==
    {UfPlace, [UfPlace EXCEPT !.exe_gone = TRUE],
     [UfPlace EXCEPT !.answers[2] = [UfOwned EXCEPT !["pacman"] = "owned"]],
     [UfPlace EXCEPT !.answers[2] = [UfOwned EXCEPT !["rpm"] = "failed"]],
     [UfPlace EXCEPT !.dir_writable = FALSE], [UfPlace EXCEPT !.binaries_mine = FALSE]}
UfFolder(u, s, o, g) == [uid |-> u, sticky |-> s, other |-> o, group |-> g, is_dir |-> TRUE]
UfChains ==
    {<<UfFolder("me", FALSE, FALSE, "gme"), UfFolder("root", FALSE, FALSE, "none")>>,
     <<UfFolder("root", TRUE, TRUE, "none")>>, <<UfFolder("me", FALSE, FALSE, "gall")>>}
UfAccounts ==
    [accounts |-> {[name |-> "u", uid |-> "me", gid |-> "gme"], [name |-> "v", uid |-> "v", gid |-> "gall"]},
     groups |-> {[gid |-> "gme", members |-> {}], [gid |-> "gall", members |-> {"u"}]}]
UfSum(h, b, d) == [hex |-> h, base |-> b, digest |-> d]
UfSums ==
    {<<UfSum(FALSE, 1, "good"), UfSum(TRUE, 1, "good"), UfSum(TRUE, 2, "good")>>,
     <<UfSum(TRUE, 1, "stale"), UfSum(TRUE, 2, "good")>>, <<UfSum(TRUE, 2, "good")>>}
UfMadeAs == {UfFolder("me", FALSE, FALSE, "none"), UfFolder("other", FALSE, FALSE, "none")}

-----------------------------------------------------------------------------
P == INSTANCE PitchZero WITH
    Others <- {TRUE}, MaxRuns <- 2, MaxLeases <- 0, MaxUnplugs <- 1,
    win <- v1, go <- v2, minted <- v3, sending <- v4, poll <- v5, focus <- v6,
    pc <- v7, rx <- v8, lease <- v9, leases <- v10, reachable <- v11, unplugs <- v12,
    dev <- v13, taken <- v14, status <- v15, idle <- v16, run <- v17, back <- v18,
    outcome <- v19, others <- v20, savedRuns <- v21, dropped <- v22

G == INSTANCE GameSide WITH
    Fields <- {"enabled", "joystick", "keep_awake"}, Strengths <- {1, 2},
    MaxEdits <- 1, MaxEvents <- 2,
    toml <- v1, row <- v2, lastCfg <- v3, joyDev <- v4, joyStatus <- v5, claims <- v6,
    focus <- v7, tracking <- v8, out <- v9, sending <- v10, listener <- v11,
    uinput <- v12, edits <- v13, events <- v14

W == INSTANCE WineFeed WITH
    Dlls <- {"np"}, Yaws <- {200}, DataIdWrap <- 3, SigWrap <- 1, OtherSession <- TRUE,
    MaxTurns <- 1,
    port <- v1, queue <- v2, pc <- v3, ids <- v4, pend <- v5, maps <- v6,
    mutexes <- v7, owner <- v8, heap <- v9, cut <- v10, ready <- v11, started <- v12,
    cached <- v13, told <- v14, sig <- v15, gameId <- v16, game <- v17, turns <- v18

H == INSTANCE HubWindow WITH
    Plugs <- HwOne, Eyes <- {"both", "left"}, DragEnds <- {700}, Background <- FALSE,
    MaxDrops <- 1, MaxClicks <- 1, MaxEdits <- 1,
    app <- v1, hub <- v2, wins <- v3, claim <- v4, conn <- v5, evaluated <- v6,
    forced_open <- v7, button <- v8, banner <- v9, plugged <- v10, saved <- v11,
    eye <- v12, reported <- v13, launched <- v14, drops <- v15, clicks <- v16, edits <- v17,
    forcedFor <- v18

U == INSTANCE UpdateFlow WITH
    Listings <- UfListings, Running <- [num |-> <<1, 2, 0>>, pre |-> <<>>],
    Triple <- "x", Places <- UfPlaces, Chains <- UfChains, Accounts <- UfAccounts,
    Sums <- UfSums, MadeAs <- UfMadeAs, MaxRedirects <- 1, MaxTries <- 2,
    MaxChanges <- 1,
    app <- v1, latest <- v2, placement <- v3, ui <- v4, offer <- v5, job <- v6, mail <- v7,
    hold <- v8, chain <- v9, dir <- v10, onDisk <- v11, sums <- v12, written <- v13,
    tries <- v14, changes <- v15, touched <- v16

M == INSTANCE ModelFile WITH
    Installers <- {"hub"}, Loads <- TRUE, MaxEvents <- 3, MaxCrashes <- 1,
    file <- v1, pc <- v2, got <- v3, at <- v4, published <- v5, queue <- v6, dev <- v7,
    world <- v8, card <- v9, budget <- v10

I == INSTANCE IpcChannel WITH
    Hubs <- {"h1"}, Diagnostic <- {}, StartsTogether <- FALSE, Clients <- {"c1", "c2"},
    Stopped <- {"c2"}, Depth <- 1, Buffer <- 1, MaxSent <- 3,
    path <- v1, hub <- v2, conn <- v3, queue <- v4, writing <- v5, pipe <- v6,
    buf <- v7, handed <- v8, dropped <- v9, alive <- v10, said <- v11

J == INSTANCE IpcChannel WITH
    Hubs <- {"h1", "h2", "h3"}, Diagnostic <- {"h3"}, StartsTogether <- FALSE,
    Clients <- {"c1"}, Stopped <- {}, Depth <- 1, Buffer <- 1, MaxSent <- 1,
    path <- v1, hub <- v2, conn <- v3, queue <- v4, writing <- v5, pipe <- v6,
    buf <- v7, handed <- v8, dropped <- v9, alive <- v10, said <- v11

R == INSTANCE IpcChannel WITH
    Hubs <- {"h1", "h2"}, Diagnostic <- {"h2"}, StartsTogether <- TRUE,
    Clients <- {"c1"}, Stopped <- {}, Depth <- 1, Buffer <- 1, MaxSent <- 1,
    path <- v1, hub <- v2, conn <- v3, queue <- v4, writing <- v5, pipe <- v6,
    buf <- v7, handed <- v8, dropped <- v9, alive <- v10, said <- v11

T == INSTANCE Tray WITH
    Background <- FALSE, EarlyPanel <- FALSE, MaxPanels <- 3,
    watcher <- v1, owned <- v2, matched <- v3, mail <- v4, call <- v5,
    registered <- v6, stage <- v7, have_name <- v8, watcher_up <- v9, launched <- v10,
    hub <- v11, panels <- v12

N == INSTANCE Tray WITH
    Background <- TRUE, EarlyPanel <- FALSE, MaxPanels <- 2,
    watcher <- v1, owned <- v2, matched <- v3, mail <- v4, call <- v5,
    registered <- v6, stage <- v7, have_name <- v8, watcher_up <- v9, launched <- v10,
    hub <- v11, panels <- v12

B == INSTANCE Bridge WITH
    MaxRuns <- 0, MaxVisits <- 0,
    reg <- v1, regFile <- v2, serving <- v3, visitor <- v4, folder <- v5, noted <- v6,
    op <- v7, given <- v8, child <- v9, launch <- v10, runs <- v11, visits <- v12

(* What the proofs take for granted of those values. *)
ASSUME W!WineAssumption /\ U!UpdateAssumption

-----------------------------------------------------------------------------
(* The variables of the pool a part has no use for. *)
Rest22 == v22 = 0
Rest21 == v21 = 0 /\ Rest22
Rest20 == v20 = 0 /\ Rest21
Rest19 == v19 = 0 /\ Rest20
Rest18 == v18 = 0 /\ Rest19
Rest17 == v17 = 0 /\ Rest18
Rest16 == v16 = 0 /\ Rest17
Rest15 == v15 = 0 /\ Rest16
Rest14 == v14 = 0 /\ Rest15
Rest13 == v13 = 0 /\ Rest14
Rest12 == v12 = 0 /\ Rest13
Rest11 == v11 = 0 /\ Rest12
Keep22 == v22' = v22
Keep21 == v21' = v21 /\ Keep22
Keep20 == v20' = v20 /\ Keep21
Keep19 == v19' = v19 /\ Keep20
Keep18 == v18' = v18 /\ Keep19
Keep17 == v17' = v17 /\ Keep18
Keep16 == v16' = v16 /\ Keep17
Keep15 == v15' = v15 /\ Keep16
Keep14 == v14' = v14 /\ Keep15
Keep13 == v13' = v13 /\ Keep14
Keep12 == v12' = v12 /\ Keep13
Keep11 == v11' = v11 /\ Keep12

(* The eyes' radios, in a hub nobody opens a flow in. *)
NoFlow == {w \in v3' : w.kind # "preview"} = {}

PartsInit ==
    \/ which = "pitch" /\ P!PitchInit
    \/ which = "game" /\ G!GameInit /\ Rest15
    \/ which = "wine" /\ W!WineInit /\ Rest19
    \/ which = "eyes" /\ H!HubInit /\ Rest19
    \/ which = "update" /\ U!UpdateInit /\ Rest17
    \/ which = "model" /\ M!ModelInit /\ Rest11
    \/ which = "socket" /\ I!IpcInit /\ Rest12
    \/ which = "hubs" /\ J!IpcInit /\ Rest12
    \/ which = "race" /\ R!IpcInit /\ Rest12
    \/ which = "tray" /\ T!TrayInit /\ Rest13
    \/ which = "login" /\ N!TrayInit /\ Rest13
    \/ which = "launch" /\ B!BridgeInit /\ Rest13

PartsNext ==
    \/ which = "pitch" /\ P!PitchNext /\ which' = which
    \/ which = "game" /\ G!GameNext /\ Keep15 /\ which' = which
    \/ which = "wine" /\ W!WineNext /\ Keep19 /\ which' = which
    \/ which = "eyes" /\ H!HubWindowNext /\ NoFlow /\ Keep19 /\ which' = which
    \/ which = "update" /\ U!UpdateNext /\ Keep17 /\ which' = which
    \/ which = "model" /\ M!ModelNext /\ Keep11 /\ which' = which
    \/ which = "socket" /\ I!IpcNext /\ Keep12 /\ which' = which
    \/ which = "hubs" /\ J!IpcNext /\ Keep12 /\ which' = which
    \/ which = "race" /\ R!IpcNext /\ Keep12 /\ which' = which
    \/ which = "tray" /\ T!TrayNext /\ Keep13 /\ which' = which
    \/ which = "login" /\ N!TrayNext /\ Keep13 /\ which' = which
    \/ which = "launch" /\ B!BridgeNext /\ Keep13 /\ which' = which

(* Every part's fairness is its own module's: the threads run, the timers     *)
(* fire, a worker ends, a killed child is ended.                             *)
PartsFair ==
    /\ WF_(P!pitchVars)(which = "pitch" /\ P!DevStep) /\ WF_(P!pitchVars)(which = "pitch" /\ P!LingerElapses)
    /\ WF_(P!pitchVars)(which = "pitch" /\ P!Send) /\ WF_(P!pitchVars)(which = "pitch" /\ P!Poll)
    /\ WF_(P!pitchVars)(which = "pitch" /\ P!LeaseEnds)
    /\ WF_(G!gameVars)(which = "game" /\ G!GamePoll) /\ WF_(G!gameVars)(which = "game" /\ G!PortPoll)
    /\ WF_(G!gameVars)(which = "game" /\ G!StandsDown)
    /\ SF_(W!wineVars)(which = "wine" /\ W!FeederBinds("np")) /\ WF_(W!wineVars)(which = "wine" /\ W!FeederRetries("np"))
    /\ WF_(W!wineVars)(which = "wine" /\ W!EnsureStarted("np")) /\ WF_(W!wineVars)(which = "wine" /\ W!OpensOnce("np"))
    /\ SF_(W!wineVars)(which = "wine" /\ W!Polls("np"))
    /\ \A p \in {"np", "exe"} :
         /\ WF_(W!wineVars)(which = "wine" /\ W!CreatesMapping(p)) /\ WF_(W!wineVars)(which = "wine" /\ W!CreatesMutex(p))
         /\ WF_(W!wineVars)(which = "wine" /\ W!Receives(p))
         /\ WF_(W!wineVars)(which = "wine" /\ W!CopiesFirst(p)) /\ WF_(W!wineVars)(which = "wine" /\ W!CopiesRest(p))
    /\ WF_(W!wineVars)(which = "wine" /\ W!Sends(200)) /\ WF_(W!wineVars)(which = "wine" /\ W!OtherLeaves)
    /\ WF_(H!hubVars)(which = "eyes" /\ H!Looking)
    /\ WF_(H!hubVars)(which = "eyes" /\ H!TakesEye)
    /\ WF_(U!updateVars)(which = "update" /\ U!UpdateWorks)
    /\ WF_(M!modelVars)(which = "model" /\ M!DeviceSteps) /\ WF_(M!modelVars)(which = "model" /\ M!Tick)
    /\ WF_(M!modelVars)(which = "model" /\ M!Install("hub"))
    /\ \A c \in {"c1", "c2"} :
         /\ WF_(I!ipcVars)(which = "socket" /\ I!Take(c)) /\ WF_(I!ipcVars)(which = "socket" /\ I!Write(c))
         /\ WF_(I!ipcVars)(which = "socket" /\ I!Reads(c))
    /\ WF_(I!ipcVars)(which = "socket" /\ I!SaysAll)
    /\ WF_(T!trayVars)(which = "tray" /\ T!Starts) /\ WF_(T!trayVars)(which = "tray" /\ T!Handle)
    /\ WF_(T!trayVars)(which = "tray" /\ T!Register)
    /\ WF_(N!trayVars)(which = "login" /\ N!Starts) /\ WF_(N!trayVars)(which = "login" /\ N!Handle)
    /\ WF_(N!trayVars)(which = "login" /\ N!Register)
    /\ WF_(B!bridgeVars)(which = "launch" /\ B!BridgeYields) /\ WF_(B!bridgeVars)(which = "launch" /\ B!BridgeStops)
PartsSpec == PartsInit /\ [][PartsNext]_partsVars /\ PartsFair

-----------------------------------------------------------------------------
(* The pitch dialog is answered, also when the tracker cannot be opened (the  *)
(* runs it is asked of: see PitchZero).                                      *)
DialogAnswered == (which = "pitch" /\ P!Waits) ~> (which = "pitch" /\ P!IsAnswered)

(* What one side says of the other is so: a controller called gone is gone    *)
(* (JoystickGone), a game told with the mutex held was told a whole frame     *)
(* (Whole), a panel that runs has the icon (IconIsThere), the socket file     *)
(* leads to the hub that serves (LiveKept, of hubs that do not start in the   *)
(* same instant), a client has whole messages in order (WholeInOrder), and a  *)
(* download called saved is (SavedOrNothing).  ChannelsInv and PathInv are    *)
(* why of two of them.                                                       *)
PartsAgree ==
    /\ which = "game" => G!JoystickGone
    /\ which = "wine" => W!Whole
    /\ which = "tray" => T!IconIsThere
    /\ which = "login" => N!IconIsThere
    /\ which = "socket" => I!WholeInOrder /\ I!ChannelsInv
    /\ which = "hubs" => J!LiveKept /\ J!PathInv /\ J!WholeInOrder
    /\ which = "race" => R!WholeInOrder
    /\ which = "update" => U!SavedOrNothing

(* What is shown comes to be what is: the radios the eye the tracker has      *)
(* (EyesAgree), the card the model that is gone (NoGhost), a panel the icon   *)
(* (IconComes), and a greyed button is given back (ComesBack).               *)
CatchesUp ==
    /\ <>[](which = "eyes" /\ H!Watched) => <>[](which = "eyes" /\ H!EyeIsShown)
    /\ (which = "model" /\ M!Absent) ~> (which = "model" /\ M!Forgot)
    /\ (which = "tray" /\ T!PanelStays) ~> (which = "tray" /\ T!HasIcon)
    /\ (which = "login" /\ N!PanelStays) ~> (which = "login" /\ N!HasIcon)
    /\ (which = "update" /\ U!Greyed) ~> (which = "update" /\ U!GivenBack)

(* Nobody is left waiting, or lit, for ever: a tracker nobody wants goes dark *)
(* (StandsBy), a game's page is written again (Resumes), a client beside one  *)
(* that has stopped reading is told all (Unblocked), and a launch gets past   *)
(* the bridge it waits behind (LaunchNotBlocked).                            *)
Serves ==
    /\ <>[](which = "game" /\ G!Nobody) => <>[](which = "game" /\ G!Dark)
    /\ <>[](which = "wine" /\ W!Fed("np")) => []<><<which = "wine" /\ W!Rewritten>>_(W!wineVars)
    /\ (which = "socket" /\ I!Served("c1")) ~> (which = "socket" /\ I!ToldAll("c1"))
    /\ (which = "launch" /\ B!Waits) ~> (which = "launch" /\ B!Freed)
=============================================================================
