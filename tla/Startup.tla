------------------------------- MODULE Startup -------------------------------
(***************************************************************************)
(* A start of the daemon up to its sockets: the configuration is read line *)
(* by line and validated (config.c), the audit log's path is compared with *)
(* the agent's writable roots and the log is opened                        *)
(* (anything_audit_validate_startup); then the daemon serves and writes    *)
(* events, which is the subject of AuditFile, until it dies and is started *)
(* again.                                                                  *)
(*                                                                         *)
(* Files of any length are read: only the configuration so far is kept.    *)
(* Section headers other than [[paths]] and keys that have no bearing on   *)
(* whether the daemon starts change nothing here, as in the code.          *)
(***************************************************************************)
EXTENDS AuditFile, SequencesExt

CONSTANTS LogPaths,   \* the values audit_log is given
          RootPaths,  \* those path is given in [[paths]] rules
          DefaultLog, \* its default
          Ids,        \* users and groups that are listed as admins
          MaxRules    \* ANYTHING_MAX_PATH_RULES

\* A path is a sequence of names and slashes, no two of which are in a row, as realpath
\* leaves none.  /link leads to the directory /d, the log is a file of /d, and /x does
\* not exist.
ASSUME PathsAssumption == /\ LogPaths \cup RootPaths \subseteq Seq(STRING)
                          /\ \A path \in RootPaths : \A i \in 1..(Len(path) - 1) :
                                path[i] = "/" => path[i + 1] # "/"
                          /\ DefaultLog \in LogPaths
                          /\ Ids \subseteq Nat /\ MaxRules \in Nat

VARIABLES phase,   \* "off", "read", "reread", "audit" or "serving"
          insecure,  \* allow_dev_insecure_admin
          config,  \* of anything_config what startup depends on; while the daemon is
                   \* off, what its file says
          kind,    \* what is at the log's place: "absent", "regular", "symlink" or
           \* "other" (a directory, say)
          fresh,   \* history: this start has created the log
          listed,  \* history: the admins on lines that are no comments
          split    \* history: a comment longer than the line buffer was read

bootVars == <<phase, insecure, config, kind, fresh, listed, split>>
allVars == <<vars, bootVars>>

Kinds == {"absent", "regular", "symlink", "other"}
IdKeys == {"allowed_uids", "allowed_gids"}
Rules == [path : {<<>>} \cup RootPaths, writable : BOOLEAN]

\* sane: validation has nothing against the socket paths and the limits.
Configs == [audit : LogPaths, sane : BOOLEAN, required : BOOLEAN,
            admins : SUBSET (IdKeys \X Ids), rules : UNION {[1..n -> Rules] : n \in 0..MaxRules}]

\* anything_config_init
Defaults == [audit |-> DefaultLog, sane |-> TRUE, required |-> TRUE,
             admins |-> {}, rules |-> <<>>]

\* Events are written by a daemon that serves.
BootTypeOK == /\ TypeOK
              /\ phase \in {"off", "read", "reread", "audit", "serving"}
              /\ insecure \in BOOLEAN /\ fresh \in BOOLEAN /\ split \in BOOLEAN
              /\ config \in Configs /\ kind \in Kinds
              /\ listed \subseteq IdKeys \X Ids
              /\ pc # "idle" => phase = "serving"
-----------------------------------------------------------------------------
(* Reading *)

\* allowed_uids or allowed_gids: the list replaces what was listed before.
SetIds(c, key, ids) ==
    [c EXCEPT !.admins = {a \in @ : a[1] # key} \cup ({key} \X ids)]

\* path or mode: of the last rule, in whatever section; without a rule it is passed over.
SetRule(c, field, value) ==
    IF c.rules = <<>> THEN c ELSE [c EXCEPT !.rules[Len(c.rules)][field] = value]

AddRuleUnbounded(c) == {[c EXCEPT !.rules = Append(@, [path |-> <<>>, writable |-> FALSE])]}

\* [[paths]]; one too many ends the start.
AddRule(c) == {d \in AddRuleUnbounded(c) : Len(c.rules) < MaxRules}

\* What one line may make of the configuration.
Entries(c) ==
    {[c EXCEPT !.audit = path] : path \in LogPaths}
    \cup {[c EXCEPT !.sane = sane] : sane \in BOOLEAN}
    \cup {[c EXCEPT !.required = required] : required \in BOOLEAN}
    \cup {SetIds(c, key, ids) : key \in IdKeys, ids \in SUBSET Ids}
    \cup {SetRule(c, "path", path) : path \in RootPaths}
    \cup {SetRule(c, "writable", writable) : writable \in BOOLEAN}
    \cup AddRule(c)

Boot == Init /\ phase = "off" /\ insecure = FALSE /\ config = Defaults
        /\ kind \in Kinds
        /\ fresh = FALSE /\ listed = {} /\ split = FALSE

\* Bound: the file is edited before the first event only.
Load == /\ phase = "off" /\ event = 0 /\ phase' = "read"
        /\ insecure' \in BOOLEAN
        /\ config' = Defaults /\ listed' = {} /\ split' = FALSE /\ fresh' = FALSE
        /\ UNCHANGED <<vars, kind>>

\* The same file is read, with the same result.
LoadAgain == /\ phase = "off" /\ phase' = "reread"
             /\ insecure' \in BOOLEAN /\ fresh' = FALSE
             /\ UNCHANGED <<vars, config, kind, listed, split>>

ReadEntry == /\ phase = "read"
             /\ config' \in Entries(config)
             /\ listed' = listed \cup config'.admins
             /\ UNCHANGED <<vars, phase, insecure, kind, fresh, split>>

\* fgets returns a line in pieces of the size of its buffer, and a # hides only the
\* rest of its own piece: what follows in a long comment counts.
ReadTail == /\ phase = "read"
            /\ config' \in Entries(config) /\ split' = TRUE
            /\ UNCHANGED <<vars, phase, insecure, kind, fresh, listed>>

\* A value that does not parse ends the start. (The file is not remembered.)
BadLine == /\ phase = "read" /\ phase' = "off"
           /\ config' = Defaults /\ listed' = {} /\ split' = FALSE
           /\ UNCHANGED <<vars, insecure, kind, fresh>>
-----------------------------------------------------------------------------
(* Validation *)

\* path_is_under and audit_path_under: a prefix that ends where a name ends.
Under(path, root) == /\ root # <<>> /\ IsPrefix(root, path)
                     /\ \/ Len(path) = Len(root)
                        \/ path[Len(root) + 1] = "/"

\* realpath of a root
Canonical(path) ==
    LET trimmed == IF Len(path) > 1 /\ Last(path) = "/" THEN Front(path) ELSE path
    IN IF IsPrefix(<<"/", "link">>, trimmed)
       THEN <<"/", "d">> \o SubSeq(trimmed, 3, Len(trimmed))
       ELSE trimmed
RealLog == <<"/", "d", "/", "log">>
LeadsToLog(path) == Canonical(path) = RealLog

CanonicalUnderTextual(path, root) == Under(path, root)

\* realpath fails for what does not exist; a link in the log's place leads to /e.
CanonicalUnder(path, root) ==
    IF ~LeadsToLog(path) \/ kind = "absent" \/ root = <<>> THEN Under(path, root)
    ELSE IF kind = "symlink" THEN Under(<<"/", "e", "/", "log">>, Canonical(root))
    ELSE Under(Canonical(path), Canonical(root))

WritableRoots == {config.rules[i].path : i \in {j \in DOMAIN config.rules : config.rules[j].writable}}

AcceptableUnflagged == /\ config.sane /\ config.audit # <<>>
                       /\ config.required => config.admins # {}
                       /\ \A root \in WritableRoots : ~Under(config.audit, root)

\* anything_config_validate_with_options
Acceptable == /\ config.sane /\ config.audit # <<>>
              /\ config.required \/ insecure
              /\ config.required => config.admins # {}
              /\ \A root \in WritableRoots : ~Under(config.audit, root)

Validate == /\ phase \in {"read", "reread"}
            /\ phase' = IF Acceptable THEN "audit" ELSE "off"
            /\ UNCHANGED <<vars, insecure, config, kind, fresh, listed, split>>

OpensFollowing == LeadsToLog(config.audit) /\ kind # "other"

\* open_audit_fd: the parent directory exists, and the log is none or a regular file.
Opens == LeadsToLog(config.audit) /\ kind \in {"absent", "regular"}

\* anything_audit_validate_startup, after which the sockets are set up
CheckLog == /\ phase = "audit"
            /\ IF Opens /\ \A root \in WritableRoots : ~CanonicalUnder(config.audit, root)
               THEN /\ phase' = "serving"
                    /\ fresh' = (kind = "absent")
                    /\ kind' = IF kind = "absent" THEN "regular" ELSE kind
               ELSE phase' = "off" /\ UNCHANGED <<fresh, kind>>
            /\ UNCHANGED <<vars, insecure, config, listed, split>>

Serve == phase = "serving" /\ Next /\ UNCHANGED bootVars

\* The process ends, with or without a signal, be it in the middle of an event.
End == /\ phase = "serving" /\ phase' = "off"
       /\ IF pc = "idle" THEN UNCHANGED vars ELSE Abandon
       /\ UNCHANGED <<insecure, config, kind, fresh, listed, split>>

BootNext == \/ Load \/ LoadAgain \/ ReadEntry \/ ReadTail \/ BadLine
            \/ Validate \/ CheckLog \/ Serve \/ End

BootSpec == Boot /\ [][BootNext]_allVars

IsAdminOfEither(uid, gid) ==
    ~config.required \/ \E a \in config.admins : a[2] \in {uid, gid}

\* anything_config_identity_is_admin
IsAdmin(uid, gid) == \/ ~config.required
                     \/ <<"allowed_uids", uid>> \in config.admins
                     \/ <<"allowed_gids", gid>> \in config.admins
-----------------------------------------------------------------------------
(* Properties *)

\* Without --dev-insecure-admin nobody is an admin who was not listed as one, whatever
\* else the file says, lines in any order and number, on lines that are no comments; a
\* comment longer than the line buffer may list admins (config.c:116-121, 160-164).
AdminsAreListed ==
    phase = "serving" /\ ~insecure /\ ~split =>
        \A uid \in Ids \cup {0}, gid \in Ids \cup {0} : IsAdmin(uid, gid) =>
            <<"allowed_uids", uid>> \in listed \/ <<"allowed_gids", gid>> \in listed

\* A root contains the log's directory.
HoldsLog(root) == root # <<>> /\ IsPrefix(Canonical(root), RealLog)

\* A daemon that found its log in place does not serve while an agent may write there,
\* links and trailing slashes notwithstanding, unless the root is / itself
\* (canonical_path_under, audit.c:52-59).
ExistingLogIsOutside ==
    phase = "serving" /\ ~fresh => \A root \in WritableRoots \ {<<"/">>} : ~HoldsLog(root)

\* The documents say so of every start.
LogIsOutside == phase = "serving" => \A root \in WritableRoots : ~HoldsLog(root)

\* What serves has its own log: a regular file, there before the sockets and not reached
\* through a link in its place (audit.c:61-78, 91-105).
LogIsThere == phase = "serving" => kind = "regular" /\ LeadsToLog(config.audit)
=============================================================================
