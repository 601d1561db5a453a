------------------------------- MODULE Config --------------------------------
(* config.py, command/remote.py and command/config.py: the configuration of  *)
(* remotes in files of four levels, each shadowing those before it, and the  *)
(* commands that edit one level after another.                               *)
(*                                                                           *)
(* A file has a default remote, core.remote, as it was written, and sections *)
(* of remotes, whose names are read in lower case.                           *)
EXTENDS Naturals, FiniteSets

CONSTANTS Name, None,
          Lower,    \* [Name -> Name]: the name in lower case
          Allowed   \* for each URL, the options that remotes of its kind may have

System == 1
Global == 2
Repo == 3
Local == 4
LEVELS == System..Local

InRepo(level) == level \in {Repo, Local}

-----------------------------------------------------------------------------
(* Config.                                                                   *)

(* load_config_to_level and merge: the levels up to one. Of an option in     *)
(* several levels the last stays.                                            *)
Names(files, level) == UNION {DOMAIN files[k].remote : k \in System..level}
OptionsOf(files, level, n) ==
    UNION {DOMAIN files[k].remote[n] : k \in {k \in System..level : n \in DOMAIN files[k].remote}}
LevelOf(files, level, n, o) ==
    CHOOSE k \in System..level :
        /\ n \in DOMAIN files[k].remote /\ o \in DOMAIN files[k].remote[n]
        /\ \A j \in (k + 1)..level :
               ~(n \in DOMAIN files[j].remote /\ o \in DOMAIN files[j].remote[n])
Section(files, level, n) ==
    [o \in OptionsOf(files, level, n) |-> files[LevelOf(files, level, n, o)].remote[n][o]]

Default(files) ==
    IF \A k \in LEVELS : files[k].core = None THEN None
    ELSE Lower[files[CHOOSE k \in LEVELS : /\ files[k].core # None
                                           /\ \A j \in (k + 1)..Local : files[j].core = None].core]

(* ByUrl and validate: a remote has a URL and only options of its kind.      *)
Accepted(section) == "url" \in DOMAIN section /\ DOMAIN section \subseteq Allowed[section["url"]]
Valid(files, level) == \A n \in Names(files, level) : Accepted(Section(files, level, n))

(* Config.edit: what is written was validated with the levels it shadows,    *)
(* then all levels are loaded, and validated, again.                         *)
Edit(s, level, conf) ==
    LET after == [s.files EXCEPT ![level] = conf]
    IN IF ~s.ok THEN s
       ELSE IF (InRepo(level) /\ ~s.inside) \/ ~Valid(after, level) THEN [s EXCEPT !.ok = FALSE]
       ELSE [s EXCEPT !.files = after, !.ok = Valid(after, Local)]

Reject(s) == [s EXCEPT !.ok = FALSE]
Begin(files, inside) == [files |-> files, inside |-> inside, ok |-> TRUE]

-----------------------------------------------------------------------------
(* The commands. A name was put in lower case, the new name of rename was    *)
(* not.                                                                      *)

WithRemote(conf, n, section) ==
    [conf EXCEPT !.remote = [m \in DOMAIN @ \cup {n} |-> IF m = n THEN section ELSE @[m]]]
WithoutRemote(conf, n) == [conf EXCEPT !.remote = [m \in DOMAIN @ \ {n} |-> @[m]]]

(* CmdRemoteAdd.                                                             *)
RemoteAdd(s, level, n, url, force, default) ==
    LET conf == WithRemote(s.files[level], n, [o \in {"url"} |-> url])
    IN IF n \in DOMAIN s.files[level].remote /\ ~force THEN Reject(s)
       ELSE Edit(s, level, IF default THEN [conf EXCEPT !.core = n] ELSE conf)

(* CmdRemoteModify, with a value or with --unset.                            *)
SectionAt(conf, n) == IF n \in DOMAIN conf.remote THEN conf.remote[n] ELSE [o \in {} |-> None]

RemoteModify(s, level, n, option, value) ==
    IF n \notin Names(s.files, level) THEN Reject(s)
    ELSE LET old == SectionAt(s.files[level], n)
         IN Edit(s, level, WithRemote(s.files[level], n,
                     [o \in DOMAIN old \cup {option} |-> IF o = option THEN value ELSE old[o]]))

RemoteUnset(s, level, n, option) ==
    IF n \notin Names(s.files, level) THEN Reject(s)
    ELSE LET old == SectionAt(s.files[level], n)
         IN Edit(s, level, WithRemote(s.files[level], n, [o \in DOMAIN old \ {option} |-> old[o]]))

(* CmdRemoteDefault, None being --unset.                                     *)
RemoteDefault(s, level, n) ==
    IF n # None /\ n \notin Names(s.files, level) THEN Reject(s)
    ELSE Edit(s, level, [s.files[level] EXCEPT !.core = n])

(* CmdRemoteRemove: the section, then the references in the levels above,    *)
(* from the last one down to its own.                                        *)
ForgetDefault(s, level, n) ==
    LET conf == s.files[level]
    IN Edit(s, level, IF conf.core = n THEN [conf EXCEPT !.core = None] ELSE conf)

RemoveSection(s, level, n) ==
    IF n \notin DOMAIN s.files[level].remote THEN Reject(s)
    ELSE Edit(s, level, WithoutRemote(s.files[level], n))

ForgetAt(t, k, n, level, down) ==
    IF k >= level /\ k >= down THEN ForgetDefault(t, k, n) ELSE t

Removing(s, level, n, down) ==
    LET at(t, k) == ForgetAt(t, k, n, level, down)
    IN at(at(at(at(RemoveSection(s, level, n), Local), Repo), Global), System)

RemoteRemove(s, level, n) == Removing(s, level, n, System)

(* CmdRemoteRename: the section and the reference beside it, then those of   *)
(* the levels above.                                                         *)
RenameDefault(conf, n, new) == IF conf.core = n THEN [conf EXCEPT !.core = new] ELSE conf

RenameSection(s, level, n, new) ==
    IF new \in Names(s.files, Local) \/ n \notin DOMAIN s.files[level].remote THEN Reject(s)
    ELSE LET conf == s.files[level]
             moved == WithRemote(WithoutRemote(conf, n), Lower[new], conf.remote[n])
         IN Edit(s, level, RenameDefault(moved, n, new))

RenameAt(t, k, n, new, level, down) ==
    IF k > level /\ k >= down THEN Edit(t, k, RenameDefault(t.files[k], n, new)) ELSE t

Renaming(s, level, n, new, down) ==
    LET at(t, k) == RenameAt(t, k, n, new, level, down)
    IN at(at(at(RenameSection(s, level, n, new), Local), Repo), Global)

RemoteRename(s, level, n, new) == Renaming(s, level, n, new, System)

(* CmdConfig, for core.remote: any name, None being --unset.                 *)
ConfigRemote(s, level, n) ==
    IF n = None /\ s.files[level].core = None THEN Reject(s)
    ELSE Edit(s, level, [s.files[level] EXCEPT !.core = n])

-----------------------------------------------------------------------------
(* What a user of the commands relies on.                                    *)

(* The default of every level is a remote of it or of a level it shadows.    *)
DefaultsDefined(files) ==
    \A k \in LEVELS : files[k].core # None => Lower[files[k].core] \in Names(files, k)

InLowerCase(files) == \A k \in LEVELS : files[k].core # None => Lower[files[k].core] = files[k].core

(* A command on remotes that reports success leaves no default undefined     *)
(* (CmdRemoteDefault: "default remote must be present in remote list").      *)
KeepsDefaults(files, t) ==
    DefaultsDefined(files) /\ InLowerCase(files) /\ t.ok => DefaultsDefined(t.files)

(* No level above has a section for the remote.                              *)
NotShadowed(files, level, n) == \A k \in (level + 1)..Local : n \notin DOMAIN files[k].remote

(* Where no level above has a section for its remote, and inside a           *)
(* repository, a command that fails has changed nothing, and one that is     *)
(* killed between two edits leaves a configuration that can be loaded.       *)
FailsClean(files, level, n, t) ==
    t.inside /\ NotShadowed(files, level, n) /\ Valid(files, Local) =>
        /\ ~t.ok => t.files = files
        /\ Valid(t.files, Local)

(* Renaming a remote that one level defines gives it the new name, everywhere*)
(* it is used, and leaves the others alone.                                  *)
RenamesOne(files, level, n, new, t) ==
    LET renamed(m) == IF m = n THEN new ELSE m
        was == Names(files, Local)
    IN /\ DefaultsDefined(files) /\ InLowerCase(files) /\ Lower[new] = new
       /\ \A k \in LEVELS : n \in DOMAIN files[k].remote => k = level
       /\ t.ok
       => /\ Names(t.files, Local) = {renamed(m) : m \in was}
          /\ \A m \in was : Section(t.files, Local, renamed(m)) = Section(files, Local, m)
          /\ Default(t.files) = renamed(Default(files))
=============================================================================
