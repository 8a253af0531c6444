---------------------------------- MODULE MCFiles ---------------------------------
(***************************************************************************)
(* The parts that live on disk and in a game's own files, side by side:    *)
(* the updater's swap, the uninstaller, the config store, the head model's *)
(* file, the Wine bridge, the game setup window, and the readers of game   *)
(* settings, Steam's libraries and Wine's registry file.  They share no    *)
(* state, so a behaviour is one part's and the others stay as they began;  *)
(* the parts no proof is about keep their variables in a pool they take    *)
(* turns to use.                                                           *)
(***************************************************************************)
EXTENDS Install, Uninstall, Store, Bridge, GameSetup, Sequences, TLC

VARIABLES which,   \* the part this behaviour is about
          v1, v2, v3, v4, v5, v6, v7, v8, v9, v10

pool == <<v1, v2, v3, v4, v5, v6, v7, v8, v9, v10>>
partsVars == <<which, pool, installVars, uninstallVars, storeVars, bridgeVars, setupVars>>

-----------------------------------------------------------------------------
(* Store: two saves, of two files, of a value that is clamped or of a switch. *)
(* Inodes are as good as one another: a new file takes the least.            *)
StSaves == {<<"blob", "meta">>, <<"text_scale">>, <<"update_check">>}
StInodes == 1..4
LeastInode ==
    \A w \in Writers : writer[w].step = "create" /\ dir[Tmp(w)] = NoInode /\ writer'[w].fd # NoInode =>
        \A i \in Free : writer'[w].fd <= i

(* Uninstall: an install directory of each kind, listed in the manifest or    *)
(* inferred, and a second that is empty, or has the window's program only and *)
(* is listed or not.                                                         *)
UnDirs == {"d1", "d2"}
UnPlain ==
    [listed |-> FALSE, system |-> FALSE, inferred |-> TRUE, tree |-> FALSE, rooted |-> TRUE,
     cargo |-> {}, owner |-> "none", writable |-> TRUE,
     bin |-> [b \in {"tobii", "tobii-gtk"} |-> "ours"]]
UnListed == [UnPlain EXCEPT !.listed = TRUE]
UnAbsent == [UnPlain EXCEPT !.inferred = FALSE, !.bin = [b \in {"tobii", "tobii-gtk"} |-> "absent"]]
UnWindow == [UnPlain EXCEPT !.bin["tobii"] = "absent"]
UnOne ==
    {[UnListed EXCEPT !.bin["tobii-gtk"] = f] :
        f \in {"absent", "hidden", "ours", "stranger", "script", "foreign"}}
    \cup {[UnListed EXCEPT !.owner = o] : o \in {"package", "unknown"}}
    \cup UNION {{[s EXCEPT !.tree = TRUE], [s EXCEPT !.cargo = {"tobii"}]} : s \in {UnPlain, UnListed}}
    \cup {[UnPlain EXCEPT !.rooted = FALSE], UnWindow}
    \cup {[UnListed EXCEPT !.writable = FALSE], [UnPlain EXCEPT !.system = TRUE]}
UnSites ==
    {[d \in UnDirs |-> IF d = "d1" THEN s ELSE UnAbsent] : s \in UnOne} \cup
    {[d \in UnDirs |-> IF d = "d1" THEN UnListed ELSE t] :
        t \in {[UnWindow EXCEPT !.listed = TRUE], [UnWindow EXCEPT !.inferred = FALSE]}}
UnBare == [kind |-> "bare", runs |-> UnDirs \X {"tobii-gtk"}]
UnEntries ==
    {UnBare,
     [kind |-> "path", runs |-> {<<"d1", "tobii-gtk">>}]}

(* GameFiles: two bindings files, both kinds of start file, one attributes    *)
(* file, each with the shapes its reader tells apart.                         *)
GfAttr(n, v) == [name |-> n, value |-> v]
GfOpen(n, as) == [is |-> "start", name |-> n, attrs |-> as, empty |-> FALSE]
GfLeaf(n, as) == [is |-> "start", name |-> n, attrs |-> as, empty |-> TRUE]
GfEnd(n)  == [is |-> "end", name |-> n]
GfSkip(n) == [is |-> "skip", name |-> n]
GfText    == [is |-> "text", name |-> ""]
GfLine(n) == [is |-> "line", name |-> n]
GfRoot(n) == GfOpen("Root", <<GfAttr("PresetName", n)>>)
GfYaw(v)  == GfLeaf("Yaw", <<GfAttr("Value", v)>>)
GfPreset(n, v) == <<GfSkip("utf-8"), GfRoot(n), GfSkip("comment"), GfYaw(v), GfEnd("Root")>>
GfAttributes(row) == <<GfOpen("Attributes", <<>>)>> \o row \o <<GfEnd("Attributes")>>
GfRow(n) == GfLeaf("Attr", <<GfAttr("name", n), GfAttr("value", "On")>>)
GfDocuments ==
    [kind |-> "binds", order |-> 1] :>
        {GfPreset("Pad", "On"),
         <<GfRoot("Pad"), GfOpen("Other", <<>>), GfText, GfEnd("Other"), GfEnd("Root")>>}
    @@ [kind |-> "binds", order |-> 2] :>
        {GfPreset("pad", "on"), <<GfRoot("Keys"), GfYaw("On"), GfYaw("off"), GfEnd("Root")>>, GfPreset("Pad", "&")}
    @@ [kind |-> "start", schema |-> 0] :> {<<GfLine("Pad")>>}
    @@ [kind |-> "start", schema |-> 4] :>
        {<<GfLine("Pad"), GfLine("Pad"), GfLine("Keys")>>, <<GfLine(""), GfLine("/")>>}
    @@ [kind |-> "attributes"] :>
        {GfAttributes(<<GfRow("Yaw"), GfRow("Z")>>), GfAttributes(<<GfRow("Z")>>), <<GfLeaf("Wrong", <<>>)>>}

(* SteamFiles: a library under two names, another on a drive that comes and   *)
(* goes; a title in two builds and under two names.                          *)
StReal == [p \in {"vdf_root", "root", "vdf_alias"} |-> "steam"] @@ [vdf_drive |-> "drive"]
StApp(id, n, b) == [appid |-> id, name |-> n, build |-> b]
StManifests == {StApp(1, 1, {7}), StApp(1, 1, {8}), StApp(1, 2, {7}), StApp(2, 3, {})}
StNeedle(i, f, e, z) == [appid |-> i, fragment |-> f, empty |-> e, namesFile |-> z]
StNeedles ==
    {StNeedle({1}, {}, FALSE, TRUE), StNeedle({2}, {}, FALSE, TRUE), StNeedle({3}, {}, FALSE, FALSE),
     StNeedle({}, {1}, FALSE, FALSE), StNeedle({}, {1, 2}, FALSE, FALSE), StNeedle({}, {1, 2}, TRUE, FALSE)}

(* RegFile: characters that are escaped by their names, by a number whose     *)
(* length the next character decides, and what a person may have typed.       *)
RfValues == {<<"u", "a">>, <<"u", "z">>, <<"bs", "u", "qt">>, <<"z", "nl">>, <<>>}
RfHandMade ==
    {<<"z", "bs">>, <<"bs", "z", "qt">>, <<"bs", "x", "z", "qt">>, <<"bs", "0", "0", "qt">>,
     <<"z", "qt", "z">>, <<"z">>}

-----------------------------------------------------------------------------
(* One command and a game that is launched, beside two and none.              *)
Launched == INSTANCE Bridge WITH MaxRuns <- 1

(* One job and others at the prefixes, beside two jobs and nobody else.       *)
Touched == INSTANCE GameSetup WITH MaxJobs <- 1, MaxOutside <- 1

M == INSTANCE ModelFile WITH
    Installers <- {"cli"}, Loads <- TRUE, MaxEvents <- 3, MaxCrashes <- 1,
    file <- v1, pc <- v2, got <- v3, at <- v4, published <- v5, queue <- v6, dev <- v7,
    world <- v8, card <- v9, budget <- v10

F == INSTANCE GameFiles WITH
    Documents <- GfDocuments, Setting <- "Yaw", Wants <- "On",
    Formats <- {"attributes", "binds", "other"},
    Cases <- {{"On", "on"}, {"Pad", "pad"}}, MaxSaves <- 2, MaxChecks <- 1,
    disk <- v1, saving <- v2, reader <- v3, rows <- v4, saves <- v5, checks <- v6,
    had <- v7

L == INSTANCE SteamFiles WITH
    Paths <- <<"vdf_root", "vdf_alias", "vdf_drive", "root">>, Real <- StReal,
    Roots <- {"root"}, Manifests <- StManifests, Lower <- <<1, 1, 2>>,
    Needles <- StNeedles, MaxChanges <- 4,
    here <- v1, held <- v2, pfx <- v3, listed <- v4, ask <- v5, answer <- v6,
    moved <- v7, changes <- v8

R == INSTANCE RegFile WITH
    Values <- RfValues, HandMade <- RfHandMade, Forms <- {"string", "other"},
    MaxLines <- 3,
    header <- v1, lines <- v2, asked <- v3

-----------------------------------------------------------------------------
(* The variables of the pool a part has no use for. *)
Rest10 == v10 = 0
Rest9 == v9 = 0 /\ Rest10
Rest8 == v8 = 0 /\ Rest9
Rest7 == v7 = 0 /\ Rest8
Rest6 == v6 = 0 /\ Rest7
Rest5 == v5 = 0 /\ Rest6
Rest4 == v4 = 0 /\ Rest5
Rest3 == v3 = 0 /\ Rest4
Rest2 == v2 = 0 /\ Rest3
Rest1 == v1 = 0 /\ Rest2
Keep10 == v10' = v10
Keep9 == v9' = v9 /\ Keep10
Keep8 == v8' = v8 /\ Keep9
Keep7 == v7' = v7 /\ Keep8
Keep6 == v6' = v6 /\ Keep7
Keep5 == v5' = v5 /\ Keep6
Keep4 == v4' = v4 /\ Keep5

(* Nobody updates, uninstalls, saves, touches the prefix or opens the page.   *)
NoUpdate    == InstallInit /\ Installed = Bins
NoUninstall ==
    /\ place = [site |-> [d \in UnDirs |-> IF d = "d1" THEN UnListed ELSE UnAbsent],
                entry |-> [n \in Names |-> UnBare], mode |-> "user", purge |-> FALSE,
                me |-> Nowhere, exe |-> [p \in Procs |-> Nowhere]]
    /\ UninstallInit
NoSave      == StoreInit
NoBridge    == BridgeInit /\ folder.stamp = FALSE /\ regFile = NoReg
NoPage      == pfx = [g \in Games |-> "none"] /\ tobii = TRUE /\ SetupInit
OnlyPool == NoUpdate /\ NoUninstall /\ NoSave /\ NoBridge /\ NoPage
KeptPool == UNCHANGED <<which, installVars, uninstallVars, storeVars, bridgeVars, setupVars>>

PartsInit ==
    \/ which = "install" /\ InstallInit /\ NoUninstall /\ NoSave /\ NoBridge /\ NoPage /\ Rest1
    \/ which = "uninstall" /\ UninstallInit /\ NoUpdate /\ NoSave /\ NoBridge /\ NoPage /\ Rest1
    \/ which = "store" /\ StoreInit /\ NoUpdate /\ NoUninstall /\ NoBridge /\ NoPage /\ Rest1
    \/ which \in {"bridge", "launch"} /\ BridgeInit /\ NoUpdate /\ NoUninstall /\ NoSave /\ NoPage /\ Rest1
    \/ which \in {"setup", "outside"} /\ SetupInit /\ NoUpdate /\ NoUninstall /\ NoSave /\ NoBridge /\ Rest1
    \/ which = "model" /\ M!ModelInit /\ OnlyPool
    \/ which = "gamefiles" /\ F!FilesInit /\ Rest8 /\ OnlyPool
    \/ which = "steam" /\ L!SteamInit /\ Rest9 /\ OnlyPool
    \/ which = "registry" /\ R!RegInit /\ Rest4 /\ OnlyPool

PartsNext ==
    \/ which = "install" /\ InstallNext /\ UNCHANGED <<which, pool, uninstallVars, storeVars, bridgeVars, setupVars>>
    \/ which = "uninstall" /\ UninstallNext /\ UNCHANGED <<which, pool, installVars, storeVars, bridgeVars, setupVars>>
    \/ which = "store" /\ StoreNext /\ LeastInode /\ UNCHANGED <<which, pool, installVars, uninstallVars, bridgeVars, setupVars>>
    \/ /\ \/ which = "bridge" /\ BridgeNext /\ launch' = "none"
          \/ which = "launch" /\ Launched!BridgeNext
       /\ child' = "off"
       /\ UNCHANGED <<which, pool, installVars, uninstallVars, storeVars, setupVars>>
    \/ /\ \/ which = "setup" /\ SetupNext
          \/ which = "outside" /\ Touched!SetupNext
       /\ UNCHANGED <<which, pool, installVars, uninstallVars, storeVars, bridgeVars>>
    \/ which = "model" /\ M!ModelNext /\ KeptPool
    \/ which = "gamefiles" /\ F!FilesNext /\ Keep8 /\ KeptPool
    \/ which = "steam" /\ L!SteamNext /\ Keep9 /\ KeptPool
    \/ which = "registry" /\ R!RegNext /\ Keep4 /\ KeptPool

PartsSpec == PartsInit /\ [][PartsNext]_partsVars

-----------------------------------------------------------------------------
(* What a reader makes of a file was so: of a game's settings at a moment     *)
(* during the read, of Steam's libraries whatever is mounted, of Wine's       *)
(* registry file as Wine reads it; and the head model's file, which a reader  *)
(* may open whatever is killed when, is never half of one.                   *)
ReadsAreTrue ==
    /\ which = "gamefiles" => F!RowsWereTrue
    /\ which = "steam" => L!NotDenied /\ L!OneRowEach /\ L!OwnPrefix
    /\ which = "registry" => R!ReadsWhatWineReads
    /\ which = "model" => M!NeverHalf

ASSUME UninstallAssumption /\ StoreAssumption /\ SetupAssumption
=============================================================================
