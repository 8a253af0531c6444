------------------------------ MODULE SteamFiles ------------------------------
(***************************************************************************)
(* Which games are installed, read from Steam's own files while Steam, the *)
(* user and the drives go on changing them: crates/tobii-steam/src/lib.rs   *)
(* and the `tobii games` commands that name a game by app id or by name     *)
(* (crates/tobii-cli/src/main.rs).                                          *)
(*                                                                          *)
(* A library is a directory; libraryfolders.vdf names libraries by path,    *)
(* several paths may lead to one directory, and a drive that is not plugged *)
(* in leaves a path that leads nowhere.  A manifest says which title, under *)
(* which name and at which build, one library holds.  A command walks the   *)
(* roots once (Steam::at) and reads the manifests afterwards (apps), and    *)
(* the disk may change between the two.                                     *)
(*                                                                          *)
(* A name is a number in alphabetical order, Lower gives its lower-case     *)
(* form, and a fragment the user types is the set of lower-case names that  *)
(* contain it.                                                              *)
(***************************************************************************)
EXTENDS Naturals, Sequences, FiniteSets, SequencesExt

CONSTANTS Paths,      \* the paths the roots and libraryfolders.vdf name, in order
          Real,         \* canonicalize: the directory behind each path
          Roots,        \* those of them that are Steam roots
          Manifests,    \* what a manifest can say: appid, name, build ({} or {b})
          Lower,        \* to_lowercase, on names
          Needles,      \* what the user can type
          MaxChanges    \* how often the disk may change

VARIABLES here,         \* the directories that are there
          held,         \* directory -> the manifests in its steamapps
          pfx,          \* the [dir, appid] that have a pfx/drive_c
          listed,       \* can libraryfolders.vdf be read
          ask,          \* the command under way: {} or {[needle, steam]}
          answer,       \* what the last command answered, {} or one record
          moved,        \* directories whose contents changed since that walk
          changes

steamVars == <<here, held, pfx, listed, ask, answer, moved, changes>>

RootDirs == {Real[Paths[i]] : i \in DOMAIN Paths}

(***************************************************************************)
(* The walk.                                                                *)
(***************************************************************************)
PushLibrary(out, dir) == IF dir \in here /\ ~Contains(out, dir) THEN Append(out, dir) ELSE out

Named(path) == path \in Roots \/ listed

Scan ==
    [ libraries |-> FoldLeft(LAMBDA out, path : IF Named(path) THEN PushLibrary(out, Real[path]) ELSE out,
                             <<>>, Paths),
      missing   |-> {path \in ToSet(Paths) \ Roots : listed /\ Real[path] \notin here} ]

(***************************************************************************)
(* The manifests.                                                           *)
(***************************************************************************)
SortsBefore(a, b) ==
    \/ a.appid < b.appid
    \/ a.appid = b.appid /\ Lower[a.name] < Lower[b.name]
    \/ a.appid = b.appid /\ Lower[a.name] = Lower[b.name] /\ a.name < b.name

\* Vec::dedup_by: a row equal to the last one kept is folded into it
DedupBy(rows, Same(_, _), Folded(_, _)) ==
    FoldLeft(LAMBDA out, row : IF out # <<>> /\ Same(row, Last(out))
                                 THEN Front(out) \o <<Folded(Last(out), row)>>
                                 ELSE Append(out, row),
             <<>>, rows)

SameRow(dropped, kept) == dropped.appid = kept.appid /\ dropped.names = kept.names

SameApp(dropped, kept) == dropped.appid = kept.appid

\* a plain dedup, which keeps the build of whichever copy came first
MutOneBuild(kept, dropped) == kept

OneBuild(kept, dropped) == [kept EXCEPT !.build = IF kept.build = dropped.build THEN @ ELSE {}]

BothNames(kept, dropped) == [OneBuild(kept, dropped) EXCEPT !.names = @ \o dropped.names]

Row(m) == [appid |-> m.appid, names |-> <<m.name>>, build |-> m.build]

\* apps_in, given the manifests in the order read_dir hands them out
AppsFrom(read) ==
    LET sorted == SortSeq(read, SortsBefore)
        rows   == [i \in DOMAIN sorted |-> Row(sorted[i])]
    IN  DedupBy(DedupBy(rows, SameRow, OneBuild), SameApp, BothNames)

\* every order the directories can be read in, library by library
ReadOrders(libraries) ==
    FoldLeft(LAMBDA reads, dir : {r \o s : r \in reads, s \in SetToSeqs(IF dir \in here THEN held[dir] ELSE {})},
             {<<>>}, libraries)

(***************************************************************************)
(* Prefixes.                                                                *)
(***************************************************************************)
\* whichever library comes first is asked first
MutOwners(libraries, appid) == {}

Owners(libraries, appid) ==
    {i \in DOMAIN libraries : libraries[i] \in here /\ \E m \in held[libraries[i]] : m.appid = appid}

PrefixCandidates(libraries, appid) ==
    LET owners == Owners(libraries, appid)
        owner  == {i \in owners : \A j \in owners : i <= j}
        first  == [i \in 1..Cardinality(owner) |-> libraries[CHOOSE j \in owner : TRUE]]
    IN  first \o SelectSeq(libraries, LAMBDA dir : ~Contains(first, dir))

PrefixesOf(libraries, appid) ==
    SelectSeq(PrefixCandidates(libraries, appid),
              LAMBDA dir : dir \in here /\ [dir |-> dir, appid |-> appid] \in pfx)

(***************************************************************************)
(* Picking a game out of the list.                                          *)
(***************************************************************************)
IsAppId(needle) == needle.appid # {}

HasFragment(row, needle) == \E i \in DOMAIN row.names : Lower[row.names[i]] \in needle.fragment

Resolve(apps, needle) ==
    IF IsAppId(needle) THEN SelectSeq(apps, LAMBDA row : row.appid \in needle.appid)
    ELSE SelectSeq(apps, LAMBDA row : HasFragment(row, needle))

\* the missing-library block forgotten
MutHeading(hasPrefix, missing) == IF hasPrefix THEN "uninstalled, or a shortcut" ELSE "not installed"

\* GameRef::heading: what may be said of an app id Steam has no manifest for
Heading(hasPrefix, missing) ==
    IF hasPrefix THEN "uninstalled, or a shortcut"
    ELSE IF missing = {} THEN "not installed" ELSE "not in the libraries here"

NoMatch(missing) == IF missing = {} THEN "not installed" ELSE "not in the libraries here"

\* steam_appid_for, over the list read and the walk it was read out of
SteamAppidFor(needle, steam, apps) ==
    LET hits == Resolve(apps, needle)
        GameRef(row) == [says |-> "a game", rows |-> <<row>>, prefix |-> PrefixesOf(steam.libraries, row.appid)]
    IN  CASE needle.empty                            -> [says |-> "name a game", rows |-> <<>>, prefix |-> <<>>]
          [] ~needle.empty /\ Len(hits) = 1          -> GameRef(hits[1])
          [] ~needle.empty /\ Len(hits) > 1          -> [says |-> "pass the app id", rows |-> hits, prefix |-> <<>>]
          [] ~needle.empty /\ hits = <<>> /\ IsAppId(needle) ->
               IF ~needle.namesFile THEN [says |-> "not a Steam app id", rows |-> <<>>, prefix |-> <<>>]
               ELSE LET at == PrefixesOf(steam.libraries, CHOOSE a \in needle.appid : TRUE)
                    IN  [says |-> Heading(at # <<>>, steam.missing), rows |-> <<>>, prefix |-> at]
          [] ~needle.empty /\ hits = <<>> /\ ~IsAppId(needle) ->
               [says |-> NoMatch(steam.missing), rows |-> <<>>, prefix |-> <<>>]

(***************************************************************************)
(* The steps.                                                               *)
(***************************************************************************)
SteamInit ==
    /\ here = RootDirs
    /\ held = [d \in RootDirs |-> {}]
    /\ pfx = {} /\ listed = TRUE /\ ask = {} /\ answer = {} /\ moved = {} /\ changes = 0

\* Steam::at, and the manifests and the prefixes read after it
Walk(needle) ==
    /\ ask = {}
    /\ ask' = {[needle |-> needle, steam |-> Scan]}
    /\ answer' = {} /\ moved' = {}
    /\ UNCHANGED <<here, held, pfx, listed, changes>>

Answer ==
    \E a \in ask : \E read \in ReadOrders(a.steam.libraries) :
        /\ LET apps == AppsFrom(read)
           IN  answer' = {[needle |-> a.needle, steam |-> a.steam, apps |-> apps,
                           read |-> read, reply |-> SteamAppidFor(a.needle, a.steam, apps)]}
        /\ ask' = {}
        /\ UNCHANGED <<here, held, pfx, listed, moved, changes>>

\* Steam and the user, each change its own step
Change(dirs) ==
    /\ changes < MaxChanges /\ changes' = changes + 1
    /\ moved' = moved \cup dirs
    /\ answer' = {}
    /\ UNCHANGED ask

Plug(dir) ==
    /\ \E p \in ToSet(Paths) \ Roots : Real[p] = dir
    /\ \A p \in Roots : Real[p] # dir
    /\ here' = IF dir \in here THEN here \ {dir} ELSE here \cup {dir}
    /\ Change({dir})
    /\ UNCHANGED <<held, pfx, listed>>

Install(dir, m) ==
    /\ dir \in here
    /\ held' = [held EXCEPT ![dir] = {x \in @ : x.appid # m.appid} \cup {m}]
    /\ held' # held
    /\ Change({dir})
    /\ UNCHANGED <<here, pfx, listed>>

Uninstall(dir, m) ==
    /\ dir \in here /\ m \in held[dir]
    /\ held' = [held EXCEPT ![dir] = @ \ {m}]
    /\ Change({dir})
    /\ UNCHANGED <<here, pfx, listed>>

\* Proton makes the prefix beside the copy that was started
Play(dir, appid) ==
    /\ dir \in here /\ \E m \in held[dir] : m.appid = appid
    /\ pfx' = pfx \cup {[dir |-> dir, appid |-> appid]}
    /\ pfx' # pfx
    /\ Change({dir})
    /\ UNCHANGED <<here, held, listed>>

Unreadable ==
    /\ listed /\ listed' = FALSE
    /\ Change({})
    /\ UNCHANGED <<here, held, pfx>>

SteamNext ==
    \/ \E n \in Needles : Walk(n)
    \/ Answer
    \/ \E d \in RootDirs : Plug(d)
    \/ \E d \in RootDirs, m \in Manifests : Install(d, m) \/ Uninstall(d, m) \/ Play(d, m.appid)
    \/ Unreadable

SteamSpec == SteamInit /\ [][SteamNext]_steamVars

(***************************************************************************)
(* Properties.                                                              *)
(***************************************************************************)
\* "Not installed" is said only of a game no library Steam names holds, as
\* far as libraryfolders.vdf could be read: a title on a drive that is not
\* plugged in is never denied outright, and neither is one that was there
\* when the command read its library (steam_appid_for, GameRef::heading).
NotDenied ==
    \A a \in answer :
        (a.reply.says = "not installed" /\ listed) =>
            \A d \in RootDirs \ moved : \A m \in held[d] :
                IF IsAppId(a.needle) THEN m.appid \notin a.needle.appid
                ELSE Lower[m.name] \notin a.needle.fragment

\* The list has one row per app id, whatever order the directories were read
\* in; the row keeps every name its copies go by, and names a build only when
\* every copy that was read is at that build (apps_in and its two collapses).
OneRowEach ==
    \A a \in answer :
        /\ \A i, j \in DOMAIN a.apps : a.apps[i].appid = a.apps[j].appid => i = j
        /\ {a.apps[i].appid : i \in DOMAIN a.apps} = {m.appid : m \in ToSet(a.read)}
        /\ \A i \in DOMAIN a.apps :
             LET copies == {m \in ToSet(a.read) : m.appid = a.apps[i].appid}
             IN  /\ ToSet(a.apps[i].names) = {m.name : m \in copies}
                 /\ a.apps[i].build # {} => \A m \in copies : m.build = a.apps[i].build

\* The prefix a command works in is the one beside the game when the game has
\* one there: an abandoned prefix in another library is never preferred over
\* the prefix of a library that was the only one to hold the title.
OwnPrefix ==
    \A a \in answer :
        (a.reply.says = "a game" /\ moved = {}) =>
            LET appid  == a.reply.rows[1].appid
                owners == {d \in ToSet(a.steam.libraries) : \E m \in held[d] : m.appid = appid}
            IN  \A d \in owners :
                  (owners = {d} /\ [dir |-> d, appid |-> appid] \in pfx) => Head(a.reply.prefix) = d
================================================================================
