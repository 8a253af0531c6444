------------------------------ MODULE Profiles ------------------------------
(***************************************************************************)
(* Game profiles (tobii-config profiles.rs) and the commands that change   *)
(* them (`tobii games profile ...`, tobii-cli main.rs).  A profile is a    *)
(* file people edit by hand: a command reads it, builds the profile it     *)
(* will write, and rewrites the file from that and from the comments it    *)
(* finds in the file a second time.  Somebody may save the file between.   *)
(*                                                                         *)
(* A line is what its parser makes of it: a key, a value, and the comment  *)
(* at its end.  "" is the key of a line that has none.  A check's format,  *)
(* path and setting, which say which check it is, are one key, "id"; its   *)
(* wants and tell are one, "tell".                                         *)
(***************************************************************************)
EXTENDS Naturals, Sequences, FiniteSets, SequencesExt

CONSTANTS
    Texts,        \* files somebody may write, of type Seq(Line)
    Settings,     \* the values this program accepts, per key: [key -> set]
    Ids,          \* what a check may read
    MaxCommands

None   == "none"
Header == "header"
Line(k, v, n) == [key |-> k, val |-> v, note |-> n]

VARIABLES
    file,     \* the profile of one game: a text, or <<>> for no file
    conf,     \* games.toml: [key -> value]
    cmd,      \* the profile the command under way will write
    said,     \* the comments the last write reported
    before,   \* the text the last write replaced
    commands  \* commands run

profileVars == <<file, conf, cmd, said, before, commands>>

-----------------------------------------------------------------------------
(* parse, a line at a time.  `table` is where a key belongs; a profile starts *)
(* with its version, sets nothing twice, and knows every key.                *)
Blank == [ok |-> TRUE, version |-> FALSE, name |-> None, bridge |-> None, table |-> "top",
          open |-> FALSE, settings |-> <<>>, checks |-> <<>>]
Fail(st) == [st EXCEPT !.ok = FALSE]

ParseTop(st, l) ==
    IF l.key = "name" /\ st.name = None THEN [st EXCEPT !.name = l.val]
    ELSE IF l.key = "bridge" /\ st.bridge = None /\ l.val \in {"true", "false"}
    THEN [st EXCEPT !.bridge = l.val]
    ELSE Fail(st)

ParseSetting(st, l) ==
    IF \E i \in DOMAIN st.settings : st.settings[i][1] = l.key THEN Fail(st)
    ELSE [st EXCEPT !.settings = Append(@, <<l.key, l.val>>)]

ParseCheck(st, l) ==
    LET n == Len(st.checks) IN
    IF l.key \in {"id", "tell"} /\ st.checks[n][l.key] = None
    THEN [st EXCEPT !.checks[n][l.key] = l.val]
    ELSE Fail(st)

ParseLine(st, l) ==
    IF ~st.ok \/ l.key = "" THEN st
    ELSE IF ~st.version
    THEN IF l.key = "version" /\ l.val = "1" THEN [st EXCEPT !.version = TRUE] ELSE Fail(st)
    ELSE IF l.key = "[settings]"
    THEN IF st.open THEN Fail(st) ELSE [st EXCEPT !.table = "settings", !.open = TRUE]
    ELSE IF l.key = "[[check]]"
    THEN [st EXCEPT !.table = "check", !.checks = Append(@, [id |-> None, tell |-> None])]
    ELSE IF st.table = "top" THEN ParseTop(st, l)
    ELSE IF st.table = "settings" THEN ParseSetting(st, l)
    ELSE ParseCheck(st, l)

Parsed(text) == FoldLeft(ParseLine, Blank, text)

Readable(text) ==
    LET st == Parsed(text) IN
    st.ok /\ st.version /\ \A i \in DOMAIN st.checks : None \notin {st.checks[i].id, st.checks[i].tell}

Profile(st) == [name |-> st.name, bridge |-> st.bridge, settings |-> st.settings, checks |-> st.checks]
NoProfile   == Profile(Blank)

-----------------------------------------------------------------------------
(* comments_of: each comment is kept with what it is beside: above it, at    *)
(* its end, or below the last line of the file.                              *)
Attached(anchor, lead, trail) == [anchor |-> anchor, lead |-> lead, trail |-> trail, follow |-> <<>>]

(* A fault: a comment is tied to the check after its own. *)
MutAnchorOf(st, l, checks) ==
    CASE l.key = "[[check]]"  -> <<"check", IF st.seen + 1 < Len(checks) THEN checks[st.seen + 2].id ELSE checks[st.seen + 1].id>>
      [] l.key = "[settings]" -> <<"settings">>
      [] OTHER -> IF st.table = "top" THEN <<"top", l.key>>
                  ELSE IF st.table = "settings" THEN <<"setting", l.key>>
                  ELSE <<"of", checks[st.seen].id, l.key>>

AnchorOf(st, l, checks) ==
    CASE l.key = "[[check]]"  -> <<"check", checks[st.seen + 1].id>>
      [] l.key = "[settings]" -> <<"settings">>
      [] OTHER -> IF st.table = "top" THEN <<"top", l.key>>
                  ELSE IF st.table = "settings" THEN <<"setting", l.key>>
                  ELSE <<"of", checks[st.seen].id, l.key>>

CommentsOf(text, checks) ==
    LET Step(st, l) ==
          IF l.key = ""
          THEN IF l.note = None THEN st ELSE [st EXCEPT !.pending = Append(@, l.note)]
          ELSE LET a == AnchorOf(st, l, checks) IN
               [pending |-> <<>>, last |-> a,
                table   |-> IF l.key = "[[check]]" THEN "check"
                            ELSE IF l.key = "[settings]" THEN "settings" ELSE st.table,
                seen    |-> IF l.key = "[[check]]" THEN st.seen + 1 ELSE st.seen,
                tied    |-> st.pending # <<>> \/ l.note # None,
                at      |-> IF st.pending = <<>> /\ l.note = None THEN st.at
                            ELSE Append(st.at, Attached(a, st.pending, l.note))]
        st == FoldLeft(Step, [pending |-> <<>>, last |-> <<>>, table |-> "top", seen |-> 0,
                              tied |-> FALSE, at |-> <<>>], text)
    IN  IF st.pending = <<>> \/ st.last = <<>> THEN st.at
        ELSE IF st.tied THEN [st.at EXCEPT ![Len(st.at)].follow = st.pending]
        ELSE Append(st.at, [Attached(st.last, <<>>, None) EXCEPT !.follow = st.pending])

(* Profile::lines, in the file's order. *)
Lines(p) ==
    <<<<<<"top", "version">>, Line("version", "1", None)>>>>
      \o (IF p.name = None THEN <<>> ELSE <<<<<<"top", "name">>, Line("name", p.name, None)>>>>)
      \o (IF p.bridge = None THEN <<>> ELSE <<<<<<"top", "bridge">>, Line("bridge", p.bridge, None)>>>>)
      \o (IF p.settings = <<>> THEN <<>> ELSE <<<<<<"settings">>, Line("[settings]", "", None)>>>>)
      \o [i \in DOMAIN p.settings |-> <<<<"setting", p.settings[i][1]>>, Line(p.settings[i][1], p.settings[i][2], None)>>]
      \o FlattenSeq([i \in DOMAIN p.checks |->
           LET c == p.checks[i] IN
           <<<<<<"check", c.id>>, Line("[[check]]", "", None)>>,
             <<<<"of", c.id, "id">>, Line("id", c.id, None)>>,
             <<<<"of", c.id, "tell">>, Line("tell", c.tell, None)>>>>])

NoteLines(notes) == [i \in DOMAIN notes |-> Line("", "", notes[i])]
NotHeader(n) == n # Header

(* The first comments of that anchor that are not spoken for. *)
Hit(kept, used, anchor) == {i \in DOMAIN kept \ used : kept[i].anchor = anchor}

(* Profile::render: each line with its comments put back. *)
Render(p, kept) ==
    LET Step(st, al) ==
          LET hits == Hit(kept, st.used, al[1]) IN
          IF hits = {} THEN [st EXCEPT !.text = Append(@, al[2])]
          ELSE LET i == CHOOSE i \in hits : \A j \in hits : i <= j
                   c == kept[i] IN
               [used |-> st.used \cup {i},
                text |-> st.text \o NoteLines(SelectSeq(c.lead, NotHeader))
                           \o <<[al[2] EXCEPT !.note = c.trail]>> \o NoteLines(c.follow)]
    IN  FoldLeft(Step, [used |-> {}, text |-> NoteLines(<<Header>>)], Lines(p))

(* Those whose anchor the profile does not have are handed back. *)
NotesOf(c) == Range(c.lead) \cup ({c.trail} \ {None}) \cup Range(c.follow)
Orphans(kept, used) == UNION {NotesOf(kept[i]) : i \in DOMAIN kept \ used}

NotesIn(text) == {text[i].note : i \in DOMAIN text} \ {None}

(* rewrite_over: a file that cannot be read stops the write if it has a       *)
(* comment to lose.                                                          *)
RefusesOver(text) == text # <<>> /\ ~Readable(text) /\ NotesIn(text) # {}

Kept(text) == IF text = <<>> \/ ~Readable(text) THEN <<>> ELSE CommentsOf(text, Parsed(text).checks)

-----------------------------------------------------------------------------
(* load_from: absent, unreadable, or a profile. *)
Loads(text) == IF text = <<>> THEN NoProfile ELSE Profile(Parsed(text))
MayLoad == file = <<>> \/ Readable(file)

Idle == cmd = <<>>
Start(p) == /\ Idle /\ commands < MaxCommands
            /\ commands' = commands + 1 /\ cmd' = <<p>> /\ said' = {}
            /\ UNCHANGED <<file, conf, before>>

(* captured_settings: games.toml as it stands. *)
Captured == SetToSeq({<<k, conf[k]>> : k \in DOMAIN conf})

(* profile_save: this machine's settings; the rest as the profile has it, and *)
(* the game's name if it had none.                                           *)
Save ==
    /\ MayLoad
    /\ LET p == Loads(file) IN
       Start([p EXCEPT !.settings = Captured, !.name = IF @ = None THEN "game" ELSE @])

(* profile_check_add: not one that is there already. *)
CheckAdd(id) ==
    /\ MayLoad
    /\ \A i \in DOMAIN Loads(file).checks : Loads(file).checks[i].id # id
    /\ Start([Loads(file) EXCEPT !.checks = Append(@, [id |-> id, tell |-> "new"])])

(* profile_check_remove, by its number. *)
CheckRemove(n) ==
    /\ MayLoad /\ file # <<>> /\ n \in DOMAIN Loads(file).checks
    /\ Start([Loads(file) EXCEPT !.checks = RemoveAt(@, n)])

(* save_to: the file is read again, and rewritten or refused. *)
Write ==
    /\ cmd # <<>> /\ ~RefusesOver(file)
    /\ LET r == Render(cmd[1], Kept(file)) IN
       file' = r.text /\ said' = Orphans(Kept(file), r.used)
    /\ before' = file /\ cmd' = <<>>
    /\ UNCHANGED <<conf, commands>>

WriteRefused ==
    /\ cmd # <<>> /\ RefusesOver(file)
    /\ cmd' = <<>>
    /\ UNCHANGED <<file, conf, said, before, commands>>

(* profile_forget *)
Forget ==
    /\ Idle /\ file # <<>> /\ commands < MaxCommands
    /\ file' = <<>> /\ commands' = commands + 1 /\ said' = {} /\ before' = <<>>
    /\ UNCHANGED <<conf, cmd>>

(* A fault: only unknown keys are refused. *)
MutUnusable(p) == {i \in DOMAIN p.settings : p.settings[i][1] \notin DOMAIN Settings}

(* unusable_settings: what apply_key refuses. *)
Unusable(p) ==
    {i \in DOMAIN p.settings :
        p.settings[i][1] \notin DOMAIN Settings \/ p.settings[i][2] \notin Settings[p.settings[i][1]]}

(* profile_apply: a profile in whole, or not at all. *)
ApplyKey(c, kv) == IF kv[1] \in DOMAIN c /\ kv[2] \in Settings[kv[1]] THEN [c EXCEPT ![kv[1]] = kv[2]] ELSE c
Apply ==
    /\ Idle /\ commands < MaxCommands /\ MayLoad /\ file # <<>>
    /\ Unusable(Loads(file)) = {}
    /\ conf' = FoldLeft(ApplyKey, conf, Loads(file).settings)
    /\ commands' = commands + 1
    /\ UNCHANGED <<file, cmd, said, before>>

(* `tobii games set`, or the hub's switches. *)
Set(k, v) ==
    /\ Idle /\ v \in Settings[k] /\ commands < MaxCommands
    /\ conf' = [conf EXCEPT ![k] = v] /\ commands' = commands + 1
    /\ UNCHANGED <<file, cmd, said, before>>

(* Somebody saves the file in an editor, between a command's read and write. *)
Edit(t) ==
    /\ cmd # <<>> /\ file = before
    /\ file' = t
    /\ UNCHANGED <<conf, cmd, said, before, commands>>

ProfilesNext ==
    \/ Save \/ (\E id \in Ids : CheckAdd(id)) \/ (\E n \in 1..2 : CheckRemove(n))
    \/ Write \/ WriteRefused \/ Forget \/ Apply
    \/ (\E k \in DOMAIN Settings : \E v \in Settings[k] : Set(k, v))
    \/ (\E t \in Texts : Edit(t))

ProfilesInit ==
    /\ file \in Texts /\ before = file
    /\ conf \in {c \in [DOMAIN Settings -> UNION {Settings[k] : k \in DOMAIN Settings}] :
                   \A k \in DOMAIN Settings : c[k] \in Settings[k]}
    /\ cmd = <<>> /\ said = {} /\ commands = 0

ProfilesSpec == ProfilesInit /\ [][ProfilesNext]_profileVars

-----------------------------------------------------------------------------
(* What a comment is kept with, by the file's own reading of it. *)
Places(text) ==
    LET c == IF Readable(text) THEN CommentsOf(text, Parsed(text).checks) ELSE <<>> IN
    UNION {{<<c[i].anchor, n>> : n \in NotesOf(c[i]) \ {Header}} : i \in DOMAIN c}

(* What it is next to: on its line, or the nearest line above or below it. *)
Near(text) ==
    LET checks == Parsed(text).checks
        Keys(i, j) == {k \in i..j : text[k].key # ""}
        Anchor(k) ==
            LET opened == {j \in 1..(k-1) : text[j].key = "[[check]]"}
                table  == IF opened # {} THEN "check"
                          ELSE IF \E j \in 1..(k-1) : text[j].key = "[settings]" THEN "settings" ELSE "top"
            IN  AnchorOf([seen |-> Cardinality(opened), table |-> table], text[k], checks)
        Next1(i) == {k \in Keys(i, Len(text)) : Keys(i, k - 1) = {}}
        Prev1(i) == {k \in Keys(1, i) : Keys(k + 1, i) = {}}
    IN  UNION {{<<Anchor(k), text[i].note>> : k \in Next1(i) \cup Prev1(i)} :
                 i \in {i \in DOMAIN text : text[i].note # None}}

(* "Writing a profile back does not lose what somebody wrote in it", also     *)
(* when they wrote it after the command had read the file: each comment is    *)
(* afterwards next to the same thing or reported, and what is written reads   *)
(* back as the profile.                                                      *)
CommentsAccounted ==
    Write => /\ Readable(file') /\ Profile(Parsed(file')) = cmd[1]
             /\ NotesIn(file) \ {Header} \subseteq NotesIn(file') \cup said'
             /\ \A p \in Places(file) : p[2] \in said' \/ p \in Near(file')

(* "Each note either finds its own check or finds nothing": what a comment is *)
(* about is the same after a write.  It does not hold, see README.           *)
NoteKeepsItsCheck ==
    [][Write => \A p \in Places(file) : p[2] \in said' \/ p \in Places(file')]_profileVars

(* "Half a profile is worse than none of it": after an apply every setting    *)
(* the profile has is in force, and saving a profile and applying it changes  *)
(* nothing.                                                                  *)
AppliedWhole ==
    Apply => \A i \in DOMAIN Loads(file).settings :
                 conf'[Loads(file).settings[i][1]] = Loads(file).settings[i][2]

(* What no step of a command does to a profile. *)
ProfileKept == CommentsAccounted /\ AppliedWhole
=============================================================================
