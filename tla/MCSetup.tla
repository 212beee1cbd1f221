------------------------------ MODULE MCSetup ------------------------------
(***************************************************************************)
(* What the CLI and the agent plugin do around the pipelines: the          *)
(* configuration and its backups, the installed plugins and what they      *)
(* configure, the git hooks, the skills and the context hook's session     *)
(* file, the git scan, the prompts and the live display.  The components   *)
(* share no state, so a behaviour follows one of them while the others     *)
(* stay where they began: the states add up and do not multiply.           *)
(***************************************************************************)
EXTENDS ConfigFile, PluginUpdate, AgentFiles, ContextInjection, GitSource, MenuPrompt,
        ProgressDisplay

VARIABLE focus

runVars == <<gitVars, menuVars, displayVars>>
vars    == <<focus, configVars, pluginVars, agentVars, injectVars, runVars>>

\* A short chunk and one that is cut.
MCText == [c \in Chunks |-> IF c = "c1" THEN 100 ELSE 9000]

MCBars == <<"embed">>

\* Separators at an end and inside, entries that are disabled; a plain list.
MCLists ==
    LET separator == [separator |-> TRUE, disabled |-> FALSE, checked |-> FALSE]
        item(d, c) == [separator |-> FALSE, disabled |-> d, checked |-> c]
    IN  {<<separator, item(FALSE, TRUE), separator, item(TRUE, TRUE), item(FALSE, FALSE)>>,
         <<item(TRUE, FALSE), separator>>, <<separator, separator>>,
         <<item(FALSE, FALSE), item(FALSE, FALSE), item(FALSE, FALSE)>>}

Parked ==
    /\ focus # "config"  => config = Absent
    /\ focus # "plugins" => ~packageJson /\ inst = [p \in Place |-> 0] /\ settings = <<>> /\ mcp = {}
    /\ focus # "hooks"   => ghook = [h \in HOOKS |-> <<>>]
    /\ focus # "git"     => repository = "cli" /\ work = [p \in Paths |-> NoFile]
    /\ focus # "menu"    => prompt = "checkbox" /\ Len(items) = 2 /\ IsNavigable(1)
    /\ focus # "display" => tty /\ wide = {"model"}

Init ==
    /\ focus \in {"config", "plugins", "hooks", "skills", "inject", "git", "menu", "display"}
    /\ ConfigInit /\ PluginInit /\ AgentInit /\ InjectInit
    /\ GitInit /\ MenuInit /\ DisplayInit
    /\ Parked

Next ==
    \/ /\ focus = "config" /\ ConfigNext
       /\ UNCHANGED <<focus, pluginVars, agentVars, injectVars, runVars>>
    \/ /\ focus = "plugins" /\ PluginNext
       /\ UNCHANGED <<focus, configVars, agentVars, injectVars, runVars>>
    \/ /\ focus = "hooks" /\ HooksNext
       /\ UNCHANGED <<focus, configVars, pluginVars, injectVars, runVars>>
    \/ /\ focus = "skills" /\ SkillsNext
       /\ UNCHANGED <<focus, configVars, pluginVars, injectVars, runVars>>
    \/ /\ focus = "inject" /\ InjectNext
       /\ UNCHANGED <<focus, configVars, pluginVars, agentVars, runVars>>
    \/ /\ focus = "git" /\ GitNext
       /\ UNCHANGED <<focus, configVars, pluginVars, agentVars, injectVars, menuVars, displayVars>>
    \/ /\ focus = "menu" /\ MenuNext
       /\ UNCHANGED <<focus, configVars, pluginVars, agentVars, injectVars, gitVars, displayVars>>
    \/ /\ focus = "display" /\ DisplayNext
       /\ UNCHANGED <<focus, configVars, pluginVars, agentVars, injectVars, gitVars, menuVars>>

Spec == Init /\ [][Next]_vars

\* No command of the CLI or of an agent plugin touches what the user wrote into
\* the files it shares with us: matchers in the settings, paragraphs of a hook.
UserTextKept == UserHooksKept /\ UserParagraphsKept

\* Whatever was installed, killed, updated and edited before, the parts we own
\* are there once and current: one matcher, one marker per git hook, the skills
\* of the package and none it dropped.
InstalledParts ==
    /\ PluginTypeOK /\ OneHook
    /\ AgentTypeOK /\ HookOnce /\ SkillsCurrent /\ NoLeftoverSkill

\* What the terminal shows is so: the prompts take what they show ticked, and the
\* display writes every message once and leaves no part of an old table behind, but
\* for what MessagesKept and NoLeftovers name: messages that wait when a run ends
\* that shows one line or is interrupted, and rows of one line that wraps.
TerminalSound == MenuSound /\ DisplaySound

=============================================================================
