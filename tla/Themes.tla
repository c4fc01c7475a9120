------------------------------- MODULE Themes -------------------------------
(***************************************************************************)
(* The chosen theme, the files it was read from, and the watch that reads  *)
(* them again: apply_theme, install_theme, start_theme_watch and           *)
(* reload_theme of the window, over Theme::load and Palette::load.         *)
(*                                                                         *)
(* A theme is a theme.toml that may extend a palette file. Other programs  *)
(* edit both at any time; a load reads the first, then the second, and     *)
(* only then asks the file system how new they are.  Colours are           *)
(* abstracted to the edit they were read from.                             *)
(***************************************************************************)
EXTENDS Integers, FiniteSetsExt

CONSTANT MaxEdits   \* edits made to the two files

ASSUME ThemeBounds == MaxEdits \in Nat

ThemeFiles == {"theme", "palette"}

VARIABLES
    disk,         \* each file: its last edit (which is its mtime), state, and
                  \* whether it was edited while a load was reading
    extends,      \* the theme.toml on disk extends the palette
    edits,        \* the clock: edits so far
    theme,        \* the installed theme: its files and the edits read of them
    path,         \* theme_path: the file the theme is loaded from, or "none"
    themeMtime,   \* theme_mtime
    chosen,       \* settings.theme names a theme
    watching,     \* theme_task is running
    load,         \* the load in progress
    tried         \* each file: the clock when the last load began, or read it

themeVars == <<disk, extends, edits, theme, path, themeMtime, chosen, watching, load, tried>>

BuiltIn == [files |-> {}, read |-> [f \in ThemeFiles |-> 0]]
Idle == [at |-> "idle", from |-> "none", apply |-> FALSE, theme |-> BuiltIn]
Loading(file, apply) == [at |-> file, from |-> file, apply |-> apply, theme |-> BuiltIn]

\* resolve_theme and theme_file: a theme's folder is read from its theme.toml,
\* and from its palette when it has no theme.toml.
Resolve == {f \in ThemeFiles : /\ disk[f].state # "gone"
                              /\ f = "palette" => disk["theme"].state = "gone"}

\* Mutant: only the theme's own file is asked.
NewestOfFirst(files) == Max({0} \cup {disk[f].edit : f \in {g \in files \cap {"theme"} : disk[g].state # "gone"}})

\* newest_mtime: the newest of the files that can be asked, or none (0).
Newest(files) == Max({0} \cup {disk[f].edit : f \in {g \in files : disk[g].state # "gone"}})

ThemesInit ==
    /\ disk = [f \in ThemeFiles |-> [edit |-> 0, state |-> "good", raced |-> FALSE]]
    /\ extends \in BOOLEAN
    /\ edits = 0
    /\ theme = BuiltIn /\ path = "none" /\ themeMtime = 0 /\ chosen = FALSE
    /\ watching = FALSE
    /\ load = Idle
    /\ tried = [f \in ThemeFiles |-> 0]

\* Another program writes, breaks or removes one of the files.
EditFile ==
    /\ edits < MaxEdits
    /\ edits' = edits + 1
    /\ \E f \in ThemeFiles, state \in {"good", "bad", "gone"} :
          /\ disk' = [disk EXCEPT ![f] = [edit |-> edits + 1, state |-> state,
                                         raced |-> load.at # "idle"]]
          /\ extends' \in IF f = "theme" THEN BOOLEAN ELSE {extends}
    /\ UNCHANGED <<theme, path, themeMtime, chosen, watching, load, tried>>

\* apply_theme with a reference: resolve_theme must find a file, then the load
\* begins; at the start of the program new() does this for the saved theme.
ApplyTheme ==
    /\ load.at = "idle"
    /\ \E f \in Resolve : load' = Loading(f, TRUE)
    /\ tried' = [f \in ThemeFiles |-> edits]
    /\ UNCHANGED <<disk, extends, edits, theme, path, themeMtime, chosen, watching>>

\* A load that fails leaves the installed theme alone.
LoadFails ==
    /\ load' = Idle
    /\ UNCHANGED <<theme, path, themeMtime, chosen, watching>>

\* Theme::load and Theme::parse: theme.toml is read; a bad value is an error,
\* and a palette it extends is read next.
ReadTheme ==
    /\ load.at = "theme"
    /\ tried' = [tried EXCEPT !["theme"] = edits]
    /\ IF disk["theme"].state = "good"
       THEN /\ load' = [load EXCEPT !.at = IF extends THEN "palette" ELSE "mtime",
                                    !.theme.files = {"theme"},
                                    !.theme.read["theme"] = disk["theme"].edit]
            /\ UNCHANGED <<theme, path, themeMtime, chosen, watching>>
       ELSE LoadFails
    /\ UNCHANGED <<disk, extends, edits>>

\* Palette::load and Palette::parse, for the palette a theme extends or for a
\* folder that holds nothing else: a missing key or a bad value is an error.
ReadPalette ==
    /\ load.at = "palette"
    /\ tried' = [tried EXCEPT !["palette"] = edits]
    /\ IF disk["palette"].state = "good"
       THEN /\ load' = [load EXCEPT !.at = "mtime",
                                    !.theme.files = @ \cup {"palette"},
                                    !.theme.read["palette"] = disk["palette"].edit]
            /\ UNCHANGED <<theme, path, themeMtime, chosen, watching>>
       ELSE LoadFails
    /\ UNCHANGED <<disk, extends, edits>>

\* install_theme, and for a theme that is applied start_theme_watch, which
\* replaces the watch that was running.
InstallTheme ==
    /\ load.at = "mtime"
    /\ theme' = load.theme
    /\ path' = load.from
    /\ themeMtime' = Newest(load.theme.files)
    /\ chosen' = TRUE
    /\ watching' = (watching \/ load.apply)
    /\ load' = Idle
    /\ UNCHANGED <<disk, extends, edits, tried>>

\* apply_theme with no reference, from the Theme command, the picker's built-in
\* rows and set_builtin. The watch is not stopped: it sees that no theme is
\* installed and ends by itself.
RemoveTheme ==
    /\ load.at = "idle"
    /\ theme # BuiltIn \/ chosen
    /\ theme' = BuiltIn /\ path' = "none" /\ themeMtime' = 0 /\ chosen' = FALSE
    /\ UNCHANGED <<disk, extends, edits, watching, load, tried>>

\* One turn of the watch, every two seconds, with reload_theme.
WatchTick ==
    /\ watching /\ load.at = "idle"
    /\ IF theme = BuiltIn
       THEN /\ watching' = FALSE
            /\ UNCHANGED <<themeMtime, load, tried>>
       ELSE /\ Newest(theme.files) \notin {0, themeMtime}
            /\ themeMtime' = Newest(theme.files)
            /\ load' = Loading(path, FALSE)
            /\ tried' = [f \in ThemeFiles |-> edits]
            /\ UNCHANGED watching
    /\ UNCHANGED <<disk, extends, edits, theme, path, chosen>>

ThemesNext ==
    \/ EditFile \/ ApplyTheme \/ ReadTheme \/ ReadPalette
    \/ InstallTheme \/ RemoveTheme \/ WatchTick

ThemesSpec == ThemesInit /\ [][ThemesNext]_themeVars

-----------------------------------------------------------------------------
(* Properties.                                                             *)

\* A theme on the screen is being watched, and every edit of a file it was
\* read from has been followed by a load or will be noticed by the next turn
\* of the watch: theme_mtime is compared with the newest file only, is stored
\* before the load it causes, and stays when that load fails. An edit that
\* falls between the read of its file and newest_mtime is excepted: it counts
\* as loaded although it was not.
EditsAreNoticed ==
    theme # BuiltIn =>
        /\ watching
        /\ load.at = "idle" /\ Newest(theme.files) = themeMtime
              => \A f \in theme.files : \/ disk[f].edit <= tried[f]
                                        \/ disk[f].state = "gone" \/ disk[f].raced

ThemeType == [files : SUBSET ThemeFiles, read : [ThemeFiles -> Nat]]

\* The inductive form of EditsAreNoticed: an edit made while a load reads is
\* marked, any other one is older than the load, and one made since no load reads
\* is newer than theme_mtime. A load of the watch has a watch.
ThemesInv ==
    /\ edits \in Nat /\ themeMtime \in 0 .. edits
    /\ watching \in BOOLEAN
    /\ disk \in [ThemeFiles -> [edit : 0 .. edits, state : {"good", "bad", "gone"}, raced : BOOLEAN]]
    /\ tried \in [ThemeFiles -> Nat]
    /\ theme \in ThemeType
    /\ load \in [at : {"idle", "theme", "palette", "mtime"}, from : ThemeFiles \cup {"none"},
                 apply : BOOLEAN, theme : ThemeType]
    /\ path \in ThemeFiles \cup {"none"}
    /\ theme # BuiltIn => watching /\ path # "none"
    /\ load.at # "idle" => load.apply \/ watching
    /\ load.at # "idle" => load.from # "none"
    /\ load.at # "idle" => \A f \in ThemeFiles : disk[f].edit <= tried[f] \/ disk[f].raced
    /\ load.at = "idle" => \A f \in theme.files :
          \/ disk[f].edit <= tried[f] \/ disk[f].edit > themeMtime
          \/ disk[f].state = "gone" \/ disk[f].raced
=============================================================================
