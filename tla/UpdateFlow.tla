----------------------------- MODULE UpdateFlow -----------------------------
(***************************************************************************)
(* The hub's update banner (tobii-gtk, update.rs) with the thread that     *)
(* looks for a release, the one that installs and the one that downloads   *)
(* for somebody else to install (install.rs, net.rs).  The copy's place,   *)
(* the chosen folder and what is in it belong to a machine others use too: *)
(* they change between a question and the act that rests on the answer.    *)
(*                                                                         *)
(* What an install does to the binaries is Install; here it starts, is     *)
(* refused or ends.                                                        *)
(***************************************************************************)
EXTENDS Integers, Sequences, SequencesExt

-----------------------------------------------------------------------------
(* What the updater decides without doing anything (version.rs, release.rs,  *)
(* and the questions install.rs asks of the copy that runs and of the folder *)
(* a download goes to).  A name is its kind: an asset is what it is and for  *)
(* which machine.  An optional value is a set with at most one member.       *)
FirstOf(s, Test(_)) ==
    LET hits == SelectSeq(s, Test) IN IF hits = <<>> THEN {} ELSE {hits[1]}

-----------------------------------------------------------------------------
(* A tag: up to its `-` the numbers, -1 for one that is none, and after it   *)
(* the identifiers, each a stem (0 the empty one, in their order) and the    *)
(* number that ends it, -1 for none.                                         *)
ParseVersion(tag) ==
    IF Len(tag.nums) \in 1..3 /\ \A i \in DOMAIN tag.nums : tag.nums[i] >= 0
    THEN {[num |-> [i \in 1..3 |-> IF i <= Len(tag.nums) THEN tag.nums[i] ELSE 0],
           pre |-> tag.pre]}
    ELSE {}

FirstDifference(a, b) ==
    {i \in DOMAIN a \cap DOMAIN b :
        a[i] # b[i] /\ \A j \in 1..(i - 1) : a[j] = b[j]}
CmpIdent(x, y) == x.stem > y.stem \/ (x.stem = y.stem /\ x.num > y.num)
CmpPre(a, b) ==
    LET d == FirstDifference(a, b) IN
    IF d = {} THEN Len(a) > Len(b) ELSE \A i \in d : CmpIdent(a[i], b[i])

IsNewerThan(v, w) ==
    IF v.num # w.num THEN \A i \in FirstDifference(v.num, w.num) : v.num[i] > w.num[i]
    ELSE IF v.pre = <<>> \/ w.pre = <<>> THEN v.pre = <<>> /\ w.pre # <<>>
    ELSE CmpPre(v.pre, w.pre)

-----------------------------------------------------------------------------
(* An asset has a kind, the machine it is for ("any" for none), a plain file *)
(* name or not, and a URL this program may fetch or not.                     *)
ArchiveFor(r, triple) ==
    FirstOf(r.assets, LAMBDA a : a.kind = "tar.gz" /\ a.target = triple)
Checksums(r) == FirstOf(r.assets, LAMBDA a : a.kind = "SHA256SUMS")
PacmanPackage(r, triple) ==
    FirstOf(r.assets, LAMBDA a : a.kind = "pkg.tar.zst" /\ a.target = triple)
PkgbuildPair(r) ==
    LET named(k) == FirstOf(r.assets, LAMBDA a : a.kind = k)
        p == named("PKGBUILD")
        i == named("tobii-linux.install")
    IN IF p # {} /\ i # {} THEN SetToSeq(p) \o SetToSeq(i) ELSE <<>>

Offer(c, fs) == [channel |-> c, files |-> fs]
OfferFor(r, manager, triple) ==
    LET ending(k) == SelectSeq(r.assets, LAMBDA a : a.kind = k /\ a.target = triple)
        own == CASE manager = "dpkg" -> Offer("Deb", ending("deb"))
                 [] manager = "rpm" -> Offer("Rpm", ending("rpm"))
                 [] manager = "pacman" /\ PacmanPackage(r, triple) # {} ->
                        Offer("Pacman", SetToSeq(PacmanPackage(r, triple)))
                 [] manager = "pacman" -> Offer("Pkgbuild", PkgbuildPair(r))
                 [] OTHER -> Offer("Archive", <<>>)
    IN IF own.files # <<>> THEN {own}
       ELSE {Offer("Archive", <<a>>) : a \in ArchiveFor(r, triple)}

(* The newest release that is neither a draft nor a pre-release and whose tag *)
(* is a version; the first of two that are as new.                           *)
ParseReleases(items) ==
    LET candidates == FlattenSeq([i \in DOMAIN items |->
            IF items[i].draft \/ items[i].prerelease THEN <<>>
            ELSE SetToSeq({[version |-> v, assets |-> items[i].assets] :
                             v \in ParseVersion(items[i].tag)})])
        newer(best, c) ==
            IF best = {} \/ \E b \in best : IsNewerThan(c.version, b.version) THEN {c} ELSE best
    IN FoldLeft(newer, {}, candidates)

Decide(latest, running, triple) ==
    IF \A r \in latest : ~IsNewerThan(r.version, running) THEN "UpToDate"
    ELSE IF \A r \in latest : ArchiveFor(r, triple) = {} THEN "NoBuildForTarget"
    ELSE IF \A r \in latest : Checksums(r) = {} THEN "NoChecksums"
    ELSE "Newer"

(* A line of SHA256SUMS: whether its first word is a digest, the last part of *)
(* the second, and the digest.                                               *)
DigestFor(sums, name) ==
    {l.digest : l \in FirstOf(sums, LAMBDA l : l.base = name /\ l.hex)}

(* Over TLS, nobody in front of the host, and a host of the list. *)
IsTrusted(url) == url.https /\ ~url.userinfo /\ url.host = "github"

-----------------------------------------------------------------------------
(* Who owns a file, asked of each package manager in turn: one that is not   *)
(* here, or does not know the file, leaves it to the next; one that fails,   *)
(* is killed, does not answer in time or cannot be read settles it.          *)
Managers == <<"dpkg", "rpm", "pacman">>
PackageOwner(answers) ==
    {[manager |-> q, sure |-> answers[q] = "owned"] :
        q \in FirstOf(Managers, LAMBDA m : answers[m] \notin {"absent", "no match"})}
OwnershipOf(binaries) ==
    UNION {PackageOwner(answers) :
        answers \in FirstOf(binaries, LAMBDA b : PackageOwner(b) # {})}

(* action_for and refuse_before_download: one decision, made for the banner  *)
(* and made again when an install starts.                                    *)
Packaged(owner) == \E o \in owner : o.sure
Unknown(owner) == \E o \in owner : ~o.sure

ActionFor(p) ==
    IF p.exe_gone THEN "Restart"
    ELSE IF Packaged(p.owner) THEN "DownloadPackage"
    ELSE IF Unknown(p.owner) THEN "Update"
    ELSE IF ~p.dir_writable THEN
        IF p.dir_mine \/ p.dir_in_home THEN "FixFolder" ELSE "DownloadForSystem"
    ELSE IF p.binaries_mine THEN "Update"
    ELSE IF p.dir_mine THEN "DownloadForHome" ELSE "DownloadForSystem"
RefuseBeforeDownload(p) ==
    IF p.exe_gone THEN {"ReplacedWhileRunning"}
    ELSE IF Packaged(p.owner) THEN {"PackageManaged"}
    ELSE IF Unknown(p.owner) THEN {"OwnerUnknown"}
    ELSE IF ~p.dir_writable THEN
        {IF p.dir_mine \/ p.dir_in_home THEN "FolderNotWritable" ELSE "NotWritable"}
    ELSE IF p.binaries_mine THEN {}
    ELSE {IF p.as_root THEN "RunWithoutSudo" ELSE IF p.dir_mine THEN "NotYours" ELSE "NotWritable"}

-----------------------------------------------------------------------------
(* A folder has an owner, may be sticky, and may be written by anyone or by  *)
(* a group; the accounts are [name, uid, gid], the groups [gid, members].    *)
PrivateGroup(db, gid, me) ==
    LET mine == {a.name : a \in {b \in db.accounts : b.uid = me}}
        lists == {g.members : g \in {h \in db.groups : h.gid = gid}}
    IN /\ \E a \in db.accounts : a.uid = me /\ a.gid = gid
       /\ \A a \in db.accounts : a.gid = gid => a.uid = me
       /\ lists # {} /\ \A members \in lists : members \subseteq mine
MayOwn(uid, me) == uid \in {me, "root", "overflow"}
ForeignWriter(f, db, me) ==
    f.other \/ (f.group # "none" /\ ~PrivateGroup(db, f.group, me))

(* The chosen folder comes first, then all those above it, as written and as *)
(* resolved.                                                                 *)
ChosenFolder(chain, db, me) ==
    /\ chain[1].sticky => MayOwn(chain[1].uid, me)
    /\ \A i \in DOMAIN chain :
         MayOwn(chain[i].uid, me) /\ (chain[i].sticky \/ ~ForeignWriter(chain[i], db, me))
PrivateFolder(chain, dir, db, me) ==
    /\ ChosenFolder(chain, db, me)
    /\ \A f \in dir : f.is_dir /\ f.uid = me /\ ~ForeignWriter(f, db, me)

-----------------------------------------------------------------------------
CONSTANTS
    Listings,      \* what the releases page may list
    Running,       \* the version that runs
    Triple,        \* the machine
    Places,        \* how a copy may be placed
    Chains,        \* folders a user may choose, with those above them
    Accounts,      \* the account and group files
    Sums,          \* what SHA256SUMS may say
    MadeAs,        \* what a folder made here may look like afterwards
    MaxRedirects,
    MaxTries,      \* presses of the button
    MaxChanges     \* what others do

VARIABLES
    app,       \* "up", or "gone"
    latest,    \* the release that was found
    placement,     \* how the copy is placed
    ui,        \* the banner: shown, its text, its button, what can be pressed
    offer,     \* what its button was wired to
    job,       \* the worker, and where it is
    mail,      \* what it sent and nobody took yet
    hold,      \* the application's hold
    chain, dir, onDisk, \* the chosen folder, the version's folder in it, its files
    sums, written,    \* locals of download_release_files
    tries, changes,
    touched    \* history: what this download wrote to

uiVars == <<ui, offer>>
folderVars == <<chain, dir, onDisk, sums, written, touched>>
updateVars == <<app, latest, placement, uiVars, job, mail, hold, folderVars, tries, changes>>

Me == "me"
NoJob == [kind |-> "none", at |-> "", i |-> 0, hop |-> 0, made |-> FALSE]
Job(k, at) == [NoJob EXCEPT !.kind = k, !.at = at]
NoOffer == [action |-> "none", wired |-> Offer("none", <<>>)]
FileNames == 1..2
NoFiles == [n \in FileNames |-> "none"]

Placed(p) == [exe_gone |-> p.exe_gone, owner |-> OwnershipOf(p.answers),
              dir_writable |-> p.dir_writable, binaries_mine |-> p.binaries_mine,
              dir_mine |-> p.dir_mine, dir_in_home |-> p.dir_in_home, as_root |-> p.as_root]

UpdateInit ==
    /\ app = "up" /\ latest = {} /\ placement \in Places
    /\ ui = [shown |-> FALSE, text |-> "", button |-> "Update", on |-> TRUE, rest |-> TRUE]
    /\ offer = NoOffer /\ mail = {} /\ hold = FALSE
    /\ job \in {NoJob, Job("check", "fetch")}      \* update_check_enabled
    /\ chain \in Chains /\ dir = {} /\ onDisk = NoFiles /\ sums = <<>> /\ written = {} /\ touched = {}
    /\ tries = 0 /\ changes = 0

(* Faults the properties must notice; the specification uses none of them:   *)
(* the folder is not looked at again once it exists; a file counts as        *)
(* written only once its digest matched; an install that ends leaves the     *)
(* quiet buttons grey.                                                       *)
MutRechecked(f) == TRUE
MutWritten(w, i, matches) == IF matches THEN w \cup {i} ELSE w
MutFinished(u, outcome) ==
    CASE outcome = "Ok" -> [u EXCEPT !.text = "updated", !.button = "none"]
      [] outcome = "ReplacedWhileRunning" ->
            [u EXCEPT !.text = "restart", !.button = "Quit", !.on = TRUE]
      [] OTHER -> [u EXCEPT !.text = "install failed", !.on = TRUE]

-----------------------------------------------------------------------------
Asked(owner) == IF owner = {} THEN "" ELSE (CHOOSE o \in owner : TRUE).manager

(* The check: the newest release, and where this copy is only when there is  *)
(* something to offer.                                                       *)
CheckThread ==
    /\ app = "up" /\ job.kind = "check" /\ job' = NoJob
    /\ \/ /\ mail' = {[what |-> "checked", found |-> "err", action |-> "none", manager |-> ""]}
          /\ UNCHANGED latest
       \/ \E items \in Listings :
            /\ latest' = ParseReleases(items)
            /\ LET found == Decide(latest', Running, Triple) IN
               mail' = {[what |-> "checked", found |-> found,
                         action |-> IF found = "Newer" THEN ActionFor(Placed(placement)) ELSE "none",
                         manager |-> Asked(OwnershipOf(placement.answers))]}
    /\ UNCHANGED <<app, placement, uiVars, hold, folderVars, tries, changes>>

(* wire_download: the file for the manager that answered, or no button. *)
Offered(m) ==
    UNION {OfferFor(r, IF m.action = "DownloadPackage" THEN m.manager ELSE "", Triple) : r \in latest}
(* What the banner says: what is to be done about a copy in such a place. *)
Headline(action) ==
    CASE action = "Restart" -> "restart"
      [] action = "DownloadPackage" -> "a package manager's"
      [] action = "DownloadForSystem" -> "an administrator's"
      [] action = "DownloadForHome" -> "another account's files"
      [] action = "FixFolder" -> "a folder to fix"
      [] OTHER -> "available"

(* The command that installs what was saved. *)
Saved(action, channel) ==
    CASE action = "DownloadForSystem" -> "saved: sudo install.sh --system"
      [] action = "DownloadForHome" -> "saved: install.sh there"
      [] channel = "Deb" -> "saved: apt" [] channel = "Rpm" -> "saved: dnf"
      [] channel = "Pacman" -> "saved: pacman" [] channel = "Pkgbuild" -> "saved: makepkg"
      [] OTHER -> "saved: install.sh"
IsSaved(text) == \E a \in {"DownloadPackage", "DownloadForSystem", "DownloadForHome"},
                     c \in {"Deb", "Rpm", "Pacman", "Pkgbuild", "Archive"} : text = Saved(a, c)

ShowBanner ==
    \E m \in mail :
        /\ app = "up" /\ m.what = "checked" /\ mail' = {}
        /\ ui' = CASE m.found \in {"NoBuildForTarget", "NoChecksums"} ->
                        [ui EXCEPT !.shown = TRUE, !.text = "blocked", !.button = "none"]
                   [] m.action \in {"Restart", "FixFolder"} ->
                        [ui EXCEPT !.shown = TRUE, !.text = Headline(m.action), !.button = "Quit"]
                   [] m.action = "Update" -> [ui EXCEPT !.shown = TRUE, !.text = Headline(m.action)]
                   [] m.action \in {"DownloadPackage", "DownloadForSystem", "DownloadForHome"} ->
                        [ui EXCEPT !.shown = TRUE, !.text = Headline(m.action),
                                   !.button = IF Offered(m) = {} THEN "none" ELSE "Download"]
                   [] OTHER -> ui
        /\ offer' = [action |-> m.action,
                     wired |-> IF ui'.button = "Download" THEN CHOOSE o \in Offered(m) : TRUE
                               ELSE Offer("none", <<>>)]
        /\ UNCHANGED <<app, latest, placement, job, hold, folderVars, tries, changes>>

Dismiss ==
    /\ app = "up" /\ ui.shown /\ ui.rest
    /\ ui' = [ui EXCEPT !.shown = FALSE]
    /\ UNCHANGED <<app, latest, placement, offer, job, mail, hold, folderVars, tries, changes>>

Press(b) == app = "up" /\ ui.shown /\ ui.button = b /\ ui.on

(* The `quit` action, from the button or the tray: g_application_quit ends   *)
(* the loop whatever holds there are, and the workers with the process.      *)
Quit ==
    /\ app = "up" /\ app' = "gone"
    /\ job' = NoJob /\ mail' = {} /\ hold' = FALSE
    /\ UNCHANGED <<latest, placement, uiVars, folderVars, tries, changes>>

-----------------------------------------------------------------------------
(* wire: an install under a hold. *)
PressUpdate ==
    /\ Press("Update") /\ tries < MaxTries /\ tries' = tries + 1
    /\ ui' = [ui EXCEPT !.on = FALSE, !.rest = FALSE, !.text = "installing"]
    /\ hold' = TRUE /\ job' = Job("install", "refuse")
    /\ UNCHANGED <<app, latest, placement, offer, mail, folderVars, changes>>

InstallRefused ==
    /\ job.kind = "install" /\ job.at = "refuse"
    /\ LET archive == UNION {ArchiveFor(r, Triple) : r \in latest}
           why == IF \E a \in archive : ~a.plain THEN {"UnsafeName"}
                  ELSE RefuseBeforeDownload(Placed(placement))
       IN IF why = {} THEN job' = [job EXCEPT !.at = "work"] /\ UNCHANGED mail
          ELSE /\ job' = NoJob
               /\ mail' = {[what |-> "installed", outcome |-> w] : w \in why}
    /\ UNCHANGED <<app, latest, placement, uiVars, hold, folderVars, tries, changes>>
(* What an install may still fail with once it has begun. *)
InstallError == {"NotListed", "Digest", "Download", "Unpack", "NothingToInstall", "Incomplete",
                 "WillNotRun", "RolledBack", "Io"}
InstallEnds ==
    /\ job.kind = "install" /\ job.at = "work"
    /\ job' = NoJob
    /\ \E o \in {"Ok"} \cup InstallError : mail' = {[what |-> "installed", outcome |-> o]}
    /\ UNCHANGED <<app, latest, placement, uiVars, hold, folderVars, tries, changes>>

(* install_finished *)
Finished(u, outcome) ==
    LET back == [u EXCEPT !.rest = TRUE] IN
    CASE outcome = "Ok" -> [back EXCEPT !.text = "updated", !.button = "none"]
      [] outcome = "ReplacedWhileRunning" ->
            [back EXCEPT !.text = "restart", !.button = "Quit", !.on = TRUE]
      [] OTHER -> [back EXCEPT !.text = "install failed", !.on = TRUE]
InstallFinished ==
    \E m \in mail :
        /\ app = "up" /\ m.what = "installed" /\ mail' = {}
        /\ ui' = Finished(ui, m.outcome) /\ hold' = FALSE
        /\ UNCHANGED <<app, latest, placement, offer, job, folderVars, tries, changes>>

-----------------------------------------------------------------------------
(* wire_download: the chooser is put away, cannot be opened, gives a folder  *)
(* without a path, or one to download into.                                  *)
ChooserFails ==
    /\ Press("Download") /\ tries < MaxTries /\ tries' = tries + 1
    /\ \E t \in {ui.text, "no path", "no chooser"} : ui' = [ui EXCEPT !.text = t]
    /\ UNCHANGED <<app, latest, placement, offer, job, mail, hold, folderVars, changes>>
StartDownload ==
    /\ Press("Download") /\ tries < MaxTries /\ tries' = tries + 1
    /\ ui' = [ui EXCEPT !.on = FALSE, !.rest = FALSE, !.button = "Downloading",
                        !.text = "downloading"]
    /\ job' = Job("download", "names") /\ written' = {} /\ touched' = {}
    /\ UNCHANGED <<app, latest, placement, offer, mail, hold, chain, dir, onDisk, sums, changes>>

Fails(kept) == job' = NoJob /\ mail' = {[what |-> "downloaded", outcome |-> kept]}
Goes(at) == job' = [job EXCEPT !.at = at] /\ UNCHANGED mail

(* The refusals that come before anything is fetched. *)
CheckNames ==
    /\ job.kind = "download" /\ job.at = "names"
    /\ IF /\ \A i \in DOMAIN offer.wired.files : offer.wired.files[i].plain
          /\ PrivateFolder(chain, dir, Accounts, Me)
       THEN Goes("sums") ELSE Fails("Err")
    /\ UNCHANGED <<app, latest, placement, uiVars, hold, folderVars, tries, changes>>
FetchSums ==
    /\ job.kind = "download" /\ job.at = "sums"
    /\ \/ Fails("Err") /\ UNCHANGED sums
       \/ \E s \in Sums :
            /\ sums' = s
            /\ IF \A i \in DOMAIN offer.wired.files : DigestFor(s, i) # {} THEN Goes("folder")
               ELSE Fails("Err")
    /\ UNCHANGED <<app, latest, placement, uiVars, hold, chain, dir, onDisk, written, touched, tries, changes>>

(* make_version_folder: made, or taken as it is; then looked at (again). *)
MakeFolder ==
    /\ job.kind = "download" /\ job.at = "folder"
    /\ \/ dir = {} /\ \E f \in MadeAs : dir' = {f}
          /\ job' = [job EXCEPT !.at = "recheck", !.made = TRUE] /\ UNCHANGED mail
       \/ dir # {} /\ UNCHANGED dir /\ Goes("recheck")
       \/ Fails("Err") /\ UNCHANGED dir
    /\ UNCHANGED <<app, latest, placement, uiVars, hold, chain, onDisk, sums, written, touched, tries, changes>>
Rechecked(f) == PrivateFolder(chain, f, Accounts, Me)
Recheck ==
    /\ job.kind = "download" /\ job.at = "recheck"
    /\ IF Rechecked(dir) THEN job' = [job EXCEPT !.at = "fetch", !.i = 1, !.hop = 0] /\ UNCHANGED <<mail, dir>>
       ELSE /\ Fails("Err")
            /\ dir' = IF job.made /\ onDisk = NoFiles THEN {} ELSE dir
    /\ UNCHANGED <<app, latest, placement, uiVars, hold, chain, onDisk, sums, written, touched, tries, changes>>

(* net::fetch of one file: curl follows the redirects itself, wget takes     *)
(* them one at a time and each is asked about before it is followed.         *)
AtFetch == job.kind = "download" /\ job.at = "fetch" /\ job.i \in DOMAIN offer.wired.files
FetchWrites ==
    /\ AtFetch /\ IsTrusted(offer.wired.files[job.i].url)
    /\ onDisk' = [onDisk EXCEPT ![job.i] = "part"] /\ Goes("body")
    /\ touched' = touched \cup {job.i}
    /\ UNCHANGED <<app, latest, placement, uiVars, hold, chain, dir, sums, written, tries, changes>>
Redirected ==
    /\ job.kind = "download" /\ job.at = "body" /\ job.hop < MaxRedirects
    /\ onDisk' = [onDisk EXCEPT ![job.i] = "none"]
    /\ job' = [job EXCEPT !.at = "fetch", !.hop = @ + 1] /\ UNCHANGED mail
    /\ UNCHANGED <<app, latest, placement, uiVars, hold, chain, dir, sums, written, touched, tries, changes>>

(* discard: what was written goes, and the folder when that leaves it empty. *)
Discards(w, d) ==
    /\ onDisk' = [n \in FileNames |-> IF n \in w THEN "none" ELSE d[n]]
    /\ dir' = IF onDisk' = NoFiles THEN {} ELSE dir

(* Not a host of the list, one redirect too many, a transfer that fails or   *)
(* is too large: whatever was written of this file is taken away.            *)
TransferFails ==
    /\ job.kind = "download" /\ job.at \in {"fetch", "body"} /\ job.i \in DOMAIN offer.wired.files
    /\ Fails("Err") /\ Discards(written, [onDisk EXCEPT ![job.i] = IF job.at = "body" THEN "none" ELSE @])
    /\ UNCHANGED <<app, latest, placement, uiVars, hold, chain, sums, written, touched, tries, changes>>

(* fetch_each: counted as written before its digest is compared. *)
Written(w, i, matches) == w \cup {i}
FetchEnds ==
    /\ job.kind = "download" /\ job.at = "body"
    /\ \E got \in {"good", "bad"} :
         LET matches == DigestFor(sums, job.i) = {got}
             w == Written(written, job.i, matches)
             d == [onDisk EXCEPT ![job.i] = got]
         IN IF matches
            THEN /\ job' = [job EXCEPT !.at = "fetch", !.i = @ + 1, !.hop = 0] /\ UNCHANGED mail
                 /\ written' = w /\ onDisk' = d /\ UNCHANGED dir
            ELSE Fails("Err") /\ Discards(w, d) /\ UNCHANGED written
    /\ UNCHANGED <<app, latest, placement, uiVars, hold, chain, sums, touched, tries, changes>>
DownloadEnds ==
    /\ job.kind = "download" /\ job.at = "fetch" /\ job.i \notin DOMAIN offer.wired.files
    /\ Fails("Ok")
    /\ UNCHANGED <<app, latest, placement, uiVars, hold, folderVars, tries, changes>>

(* start_download's timer; ready_again. *)
Downloaded ==
    \E m \in mail :
        /\ app = "up" /\ m.what = "downloaded" /\ mail' = {}
        /\ ui' = IF m.outcome = "Ok"
                 THEN [ui EXCEPT !.text = Saved(offer.action, offer.wired.channel), !.button = "none", !.rest = TRUE]
                 ELSE [ui EXCEPT !.text = IF m.outcome = "Err" THEN "download failed" ELSE "vanished",
                                 !.button = "Download", !.on = TRUE, !.rest = TRUE]
        /\ UNCHANGED <<app, latest, placement, offer, job, hold, folderVars, tries, changes>>

(* A worker that panics sends nothing; the channel closes. *)
WorkerVanishes ==
    /\ app = "up" /\ job.kind \in {"install", "download"} /\ changes < MaxChanges /\ changes' = changes + 1
    /\ job' = NoJob
    /\ mail' = {[what |-> IF job.kind = "install" THEN "installed" ELSE "downloaded",
                 outcome |-> "vanished"]}
    /\ UNCHANGED <<app, latest, placement, uiVars, hold, folderVars, tries>>

-----------------------------------------------------------------------------
(* Others: an administrator moves or replaces the copy; an account that may  *)
(* write the chosen folder makes the version's folder first, and changes     *)
(* what is in a folder it may write.                                         *)
Other == changes < MaxChanges /\ changes' = changes + 1
PlaceChanges ==
    /\ Other /\ app = "up" /\ placement' \in Places \ {placement}
    /\ UNCHANGED <<app, latest, uiVars, job, mail, hold, folderVars, tries>>
OtherMakesFolder ==
    /\ Other /\ dir = {} /\ chain[1].other
    /\ dir' = {[uid |-> "other", is_dir |-> TRUE, other |-> TRUE, group |-> "none"]}
    /\ UNCHANGED <<app, latest, placement, uiVars, job, mail, hold, chain, onDisk, sums, written, touched, tries>>
OtherWrites ==
    /\ Other /\ \E f \in dir : f.uid = "other" \/ f.other
    /\ \E n \in FileNames : onDisk' = [onDisk EXCEPT ![n] = "theirs"]
    /\ UNCHANGED <<app, latest, placement, uiVars, job, mail, hold, chain, dir, sums, written, touched, tries>>

UpdateNext ==
    \/ CheckThread \/ ShowBanner \/ Dismiss \/ Quit
    \/ PressUpdate \/ InstallRefused \/ InstallEnds \/ InstallFinished
    \/ ChooserFails \/ StartDownload \/ CheckNames \/ FetchSums \/ MakeFolder \/ Recheck
    \/ FetchWrites \/ Redirected \/ TransferFails \/ FetchEnds \/ DownloadEnds \/ Downloaded
    \/ WorkerVanishes \/ PlaceChanges \/ OtherMakesFolder \/ OtherWrites

(* The threads run, the transfers are bounded in time, the timers fire. *)
UpdateWorks ==
    \/ CheckThread \/ ShowBanner \/ InstallRefused \/ InstallEnds \/ InstallFinished
    \/ CheckNames \/ FetchSums \/ MakeFolder \/ Recheck
    \/ FetchWrites \/ Redirected \/ TransferFails \/ FetchEnds \/ DownloadEnds \/ Downloaded
UpdateFair == WF_updateVars(UpdateWorks)
UpdateSpec == UpdateInit /\ [][UpdateNext]_updateVars /\ UpdateFair

-----------------------------------------------------------------------------
(* A download the banner calls saved is on disk as its digests name it and   *)
(* stays so, whoever else uses the machine; one it calls failed left nothing *)
(* it fetched: "Nothing from this download was kept".                        *)
SavedOrNothing ==
    /\ IsSaved(ui.text) =>
         \A i \in DOMAIN offer.wired.files : DigestFor(sums, i) = {onDisk[i]}
    /\ ui.text = "download failed" => \A n \in touched : onDisk[n] \in {"none", "theirs"}

(* A button that was greyed out for a worker comes back, or goes away with   *)
(* the word that it is done, and the application's hold with it.             *)
Greyed == ~ui.rest /\ app = "up"
GivenBack == app = "gone" \/ (ui.rest /\ ~hold)
ComesBack == Greyed ~> GivenBack

(* "Closing the window mid-install would otherwise end the process between   *)
(* the two renames": an install that runs is not ended by the application.   *)
InstallOutlivesQuit == [][job.kind = "install" /\ job.at = "work" => app' = "up"]_updateVars

-----------------------------------------------------------------------------
(* Why a download is as it is called.  There is one worker at a time, and     *)
(* its button is grey until what it sent is taken ...                        *)
Checking == job.kind = "check" \/ \E m \in mail : m.what = "checked"
Busy ==
    \/ job.kind \in {"install", "download"}
    \/ \E m \in mail : m.what \in {"installed", "downloaded"}
Ended == IsSaved(ui.text) \/ ui.text = "download failed"
OneWorker ==
    /\ job = NoJob \/ job.kind \in {"check", "install", "download"}
    /\ \A m \in mail : m.what \in {"checked", "installed", "downloaded"}
    /\ mail # {} => job = NoJob
    /\ Checking => ~ui.shown /\ ui.text = "" /\ ui.button = "Update"
    /\ Busy => ~ui.on
    /\ Ended => job = NoJob /\ mail = {}

(* ... a worker past its second look at the folder has it to itself, and has  *)
(* taken each file in turn: those it has done are as named, and of the one it *)
(* is at there is nothing before the transfer ...                            *)
OwnFolder == dir # {} /\ \A f \in dir : f.uid = Me /\ ~f.other
AsNamed(n) == DigestFor(sums, n) = {onDisk[n]}
InTurn ==
    job.kind = "download" =>
        /\ job.at \in {"names", "sums", "folder", "recheck"} => touched = {} /\ written = {}
        /\ job.at = "recheck" => dir # {}
        /\ job.at \in {"fetch", "body"} =>
              /\ OwnFolder /\ job.i >= 1
              /\ written \subseteq 1..(job.i - 1) /\ touched \subseteq written \cup {job.i}
              /\ \A n \in DOMAIN offer.wired.files : n < job.i => AsNamed(n)
        /\ job.at = "body" => job.i \in DOMAIN offer.wired.files
        /\ job.at = "fetch" /\ job.i \in touched => onDisk[job.i] = "none"

(* ... and from then on its folder is as it left it.                         *)
AllAsNamed == OwnFolder /\ \A n \in DOMAIN offer.wired.files : AsNamed(n)
NothingKept == \A n \in touched : onDisk[n] \in {"none", "theirs"}
OutcomeIsSo ==
    /\ \A m \in mail : m.what = "downloaded" =>
          /\ m.outcome = "Ok" => AllAsNamed
          /\ m.outcome = "Err" => NothingKept
    /\ IsSaved(ui.text) => AllAsNamed
    /\ ui.text = "download failed" => NothingKept

Banner(u) ==
    /\ DOMAIN u = {"shown", "text", "button", "on", "rest"}
    /\ u.shown \in BOOLEAN /\ u.on \in BOOLEAN
Worker(j) == DOMAIN j = {"kind", "at", "i", "hop", "made"} /\ j.i \in Nat
Asker(m) == m = "" \/ \E p \in Places : m = Asked(OwnershipOf(p.answers))
UpdateTypes ==
    /\ Banner(ui) /\ Worker(job)
    /\ placement \in Places /\ (latest = {} \/ \E items \in Listings : latest = ParseReleases(items))
    /\ DOMAIN onDisk = FileNames /\ touched \subseteq FileNames
    /\ \A m \in mail : m.what = "checked" => Asker(m.manager) /\ (m.found = "Newer" \/ m.action = "none")
    /\ DOMAIN offer.wired.files \in {1..n : n \in 0..2}
UpdateInv == UpdateTypes /\ OneWorker /\ InTurn /\ OutcomeIsSo

(* No release of the page has more than two files for one manager: a folder   *)
(* has as many names here.                                                   *)
UpdateAssumption ==
    \A items \in Listings : \A r \in ParseReleases(items) : \A p \in Places :
        \A m \in {"", Asked(OwnershipOf(p.answers))} : \A o \in OfferFor(r, m, Triple) :
            DOMAIN o.files \in {1..n : n \in 0..2}
=============================================================================
