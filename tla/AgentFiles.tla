----------------------------- MODULE AgentFiles -----------------------------
(***************************************************************************)
(* The files the CLI keeps in a project for git and for coding agents: the *)
(* git hooks (packages/virage-cli/src/cli/install-hooks.ts) and the skills *)
(* copied from @vivantel/virage-skills (skills.ts).                        *)
(*                                                                         *)
(* A hook is the sequence of its paragraphs: the shebang alone, the user's *)
(* lines, ours, or ours with lines the user appended to them.  A skill file *)
(* is the version of its content: 0 if there is none, Broken if a kill cut *)
(* the write.  The package's content of a file never returns to an earlier *)
(* version.                                                                *)
(***************************************************************************)
EXTENDS Naturals, Sequences

CONSTANTS
    Skills,     \* paths of skill files
    MaxContent, \* versions of a skill's content: 1..MaxContent
    MaxBlocks   \* paragraphs of a hook

ASSUME AgentAssumption == MaxContent \in Nat \ {0} /\ MaxBlocks \in Nat

VARIABLES
    ghook,      \* the hook files, <<>> if there is none
    hookRun,    \* the hooks install-hooks has still to visit
    package,    \* the skills package: content of each file, 0 if not in it
    newest,     \* the newest content published so far
    disk,       \* the skills directory
    manifest,   \* .manifest.json: the content recorded for each file
    sync,       \* the syncSkills that runs
    fresh,      \* history: a sync completed with this package
    cut         \* history: some sync was killed

hookVars  == <<ghook, hookRun>>
skillVars == <<package, newest, disk, manifest, sync, fresh, cut>>
agentVars == <<hookVars, skillVars>>

HOOKS == {"post-merge", "post-checkout"}

Broken == MaxContent + 1
Nothing == [f \in Skills |-> 0]

NoSync == [at |-> "idle", mem |-> Nothing, todo |-> {}]

AgentInit ==
    /\ ghook \in [HOOKS -> {<<>>, <<"shebang">>, <<"shebang", "user">>}]
    /\ hookRun = [task |-> "none", todo |-> {}]
    /\ package = [f \in Skills |-> 1]
    /\ newest = 1
    /\ disk = Nothing
    /\ manifest = Nothing
    /\ sync = NoSync
    /\ fresh = FALSE
    /\ cut = FALSE

-----------------------------------------------------------------------------
(* Git hooks.                                                              *)

HasMarker(blocks) == \E n \in 1..Len(blocks) : blocks[n] \in {"ours", "mixed"}

InstallHook(blocks) == IF HasMarker(blocks) THEN blocks ELSE Append(blocks, "ours")

\* Faulty variant: a hook with the marker is removed as a whole.
UninstallHookFile(blocks) == IF HasMarker(blocks) THEN <<>> ELSE blocks

\* Paragraphs with the marker go; a file with nothing but the shebang is removed.
UninstallHook(blocks) ==
    LET without == SelectSeq(blocks, LAMBDA b : b \notin {"ours", "mixed"})
    IN  IF HasMarker(blocks) /\ without = <<"shebang">> THEN <<>> ELSE without

StartHooks ==
    /\ hookRun.task = "none"
    /\ \E task \in {"install", "uninstall"} : hookRun' = [task |-> task, todo |-> HOOKS]
    /\ UNCHANGED <<ghook, skillVars>>

RunInstallHooks ==
    \E h \in hookRun.todo :
        /\ ghook' = [ghook EXCEPT ![h] = IF hookRun.task = "install"
                                         THEN InstallHook(@)
                                         ELSE UninstallHook(@)]
        /\ hookRun' = IF hookRun.todo = {h}
                      THEN [task |-> "none", todo |-> {}]
                      ELSE [hookRun EXCEPT !.todo = @ \ {h}]
        /\ UNCHANGED skillVars

KillHooks ==
    /\ hookRun.task # "none"
    /\ hookRun' = [task |-> "none", todo |-> {}]
    /\ UNCHANGED <<ghook, skillVars>>

\* The user adds a paragraph to a hook, or lines right below its last one.
EditHook ==
    /\ hookRun.task = "none"
    /\ \E h \in HOOKS :
        \/ /\ Len(ghook[h]) < MaxBlocks
           /\ ghook' = [ghook EXCEPT ![h] = Append(@, "user")]
        \/ /\ ghook[h] # <<>>
           /\ ghook[h][Len(ghook[h])] = "ours"
           /\ ghook' = [ghook EXCEPT ![h][Len(ghook[h])] = "mixed"]
    /\ UNCHANGED <<hookRun, skillVars>>

-----------------------------------------------------------------------------
(* Skills.                                                                 *)

\* A new package: files get new content, appear or disappear.
PublishSkills ==
    /\ sync.at = "idle"
    /\ newest < MaxContent
    /\ newest' = newest + 1
    /\ \E changed, removed \in SUBSET Skills :
        package' = [f \in Skills |-> IF f \in changed THEN newest'
                                     ELSE IF f \in removed THEN 0 ELSE package[f]]
    /\ fresh' = FALSE
    /\ UNCHANGED <<disk, manifest, sync, cut, hookVars>>

\* An unreadable manifest counts as none.
SyncStart ==
    /\ sync.at = "idle"
    /\ sync' = [at |-> "copy", todo |-> {f \in Skills : package[f] # 0},
                mem |-> IF \E f \in Skills : manifest[f] = Broken
                        THEN Nothing ELSE manifest]
    /\ UNCHANGED <<package, newest, disk, manifest, fresh, cut, hookVars>>

\* Faulty variant: a file the manifest knows is not compared.
SyncCopyNewOnly ==
    /\ sync.at = "copy"
    /\ disk' = [f \in Skills |-> IF sync.mem[f] = 0 THEN package[f] ELSE disk[f]]
    /\ sync' = [sync EXCEPT !.at = "delete", !.mem = package, !.todo = {}]
    /\ UNCHANGED <<package, newest, manifest, fresh, cut, hookVars>>

\* A file the manifest does not have, or has with another hash, is written.
SyncCopy ==
    /\ sync.at = "copy"
    /\ \/ \E f \in sync.todo :
            /\ disk' = IF sync.mem[f] # package[f]
                       THEN [disk EXCEPT ![f] = package[f]]
                       ELSE disk
            /\ sync' = [sync EXCEPT !.mem[f] = package[f], !.todo = @ \ {f}]
       \/ /\ sync.todo = {}
          /\ disk' = disk
          /\ sync' = [sync EXCEPT !.at = "delete",
                                  !.todo = {f \in Skills : package[f] = 0 /\ sync.mem[f] # 0}]
    /\ UNCHANGED <<package, newest, manifest, fresh, cut, hookVars>>

\* A file the manifest has and the package has not is deleted.
SyncDelete ==
    /\ sync.at = "delete"
    /\ \/ \E f \in sync.todo :
            /\ disk' = [disk EXCEPT ![f] = 0]
            /\ sync' = [sync EXCEPT !.mem[f] = 0, !.todo = @ \ {f}]
       \/ /\ sync.todo = {}
          /\ disk' = disk
          /\ sync' = [sync EXCEPT !.at = "manifest"]
    /\ UNCHANGED <<package, newest, manifest, fresh, cut, hookVars>>

\* writeManifest, the last thing syncSkills does.
SyncEnd ==
    /\ sync.at = "manifest"
    /\ manifest' = sync.mem
    /\ sync' = NoSync
    /\ fresh' = TRUE
    /\ UNCHANGED <<package, newest, disk, cut, hookVars>>

\* A kill, which can cut the write that was going on.
KillSync ==
    /\ sync.at # "idle"
    /\ \/ UNCHANGED <<disk, manifest>>
       \/ /\ sync.at = "copy"
          /\ \E f \in sync.todo :
                /\ sync.mem[f] # package[f]
                /\ disk' = [disk EXCEPT ![f] = Broken]
          /\ manifest' = manifest
       \/ /\ sync.at = "manifest"
          /\ manifest' = [f \in Skills |-> Broken]
          /\ disk' = disk
    /\ sync' = NoSync
    /\ cut' = TRUE
    /\ fresh' = FALSE
    /\ UNCHANGED <<package, newest, hookVars>>

HooksNext == StartHooks \/ RunInstallHooks \/ KillHooks \/ EditHook
SkillsNext ==
    \/ PublishSkills \/ SyncStart \/ SyncCopy \/ SyncDelete \/ SyncEnd \/ KillSync

AgentSpec == AgentInit /\ [][HooksNext \/ SkillsNext]_agentVars

-----------------------------------------------------------------------------
(* Properties.                                                             *)

AgentTypeOK ==
    /\ \A h \in HOOKS : \A n \in 1..Len(ghook[h]) :
            ghook[h][n] \in {"shebang", "user", "ours", "mixed"}
    /\ disk \in [Skills -> 0..Broken]
    /\ manifest \in [Skills -> 0..Broken]
    /\ sync.mem \in [Skills -> 0..MaxContent]

\* Installing twice, also after a run that was killed between the two hooks,
\* never indexes twice per git operation.
HookOnce ==
    \A h \in HOOKS : \A m, n \in 1..Len(ghook[h]) :
        (ghook[h][m] \in {"ours", "mixed"} /\ ghook[h][n] \in {"ours", "mixed"}) => m = n

Paragraphs(blocks) == SelectSeq(blocks, LAMBDA b : b = "user")

\* Installing and uninstalling the hooks keep the user's own paragraphs.
UserParagraphsKept ==
    [][RunInstallHooks => \A h \in HOOKS :
            Paragraphs(ghook'[h]) = Paragraphs(ghook[h])]_agentVars

\* A sync that completes leaves every skill of the package with its current
\* content, whatever syncs were killed before it and wherever.
SkillsCurrent ==
    fresh => \A f \in Skills : package[f] # 0 => disk[f] = package[f]

\* A skill that left the package is gone after a sync, unless some sync was
\* killed: what that one had written is in no manifest.
NoLeftoverSkill ==
    (fresh /\ ~cut) => \A f \in Skills : package[f] = 0 => disk[f] = 0
=============================================================================
