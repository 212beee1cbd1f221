---------------------------- MODULE PluginUpdate ----------------------------
(***************************************************************************)
(* `virage update`, `virage uninstall` and what an agent plugin configures *)
(* (packages/virage-cli/src/cli: update.ts, uninstall.ts, agent-plugin.ts, *)
(* pkg-manager.ts; packages/virage-agent-claude/src/plugin.ts), for one    *)
(* package, the Claude agent plugin, that can be installed in several      *)
(* places at once.  The registry publishes new versions at any time, its   *)
(* answers can fail, an install can fail, and the command can be killed    *)
(* between any two steps.                                                  *)
(***************************************************************************)
EXTENDS Naturals, Sequences

CONSTANTS
    MaxVersion  \* versions the registry ever publishes: 1..MaxVersion

ASSUME VersionAssumption == MaxVersion \in Nat \ {0}

VARIABLES
    packageJson,    \* the project has a package.json
    latest,     \* the version the registry calls latest
    inst,       \* the version installed in each place, 0 if none
    pin,        \* pluginVersions of the configuration: 0 if it has none
    update,     \* the running `virage update`
    settings,   \* hooks of .claude/settings.json: a matcher is User or our version
    mcp         \* the servers of .mcp.json

pluginVars == <<packageJson, latest, inst, pin, update, settings, mcp>>

\* Where a package is looked for, and in this order.
Places == <<"local-plugin", "global-plugin", "node_modules", "global-npm">>
Place  == {Places[n] : n \in 1..Len(Places)}

\* "~unknown", which update writes when the registry did not answer.
Unknown == MaxVersion + 1

\* getPackageInstallLocation and getCurrentVersion look in the same order.
InstallLocation(i) ==
    IF \E n \in 1..3 : i[Places[n]] # 0
    THEN Places[CHOOSE n \in 1..3 : /\ i[Places[n]] # 0
                                    /\ \A k \in 1..(n - 1) : i[Places[k]] = 0]
    ELSE "global-npm"

CurrentVersion(i) == i[InstallLocation(i)]

\* discoverAgentPlugins: the plugin whose configure() runs; npm's global
\* directory is not searched.
AgentPluginVersion(i) == IF InstallLocation(i) = "global-npm" THEN 0 ELSE CurrentVersion(i)

\* A matcher of the settings that is not ours.
User == 0
UserMatchers(s) == SelectSeq(s, LAMBDA m : m = User)

NoUpdate == [at |-> "idle", seen |-> 0, loc |-> "global-npm", base |-> 0]

PluginInit ==
    /\ latest = 1
    /\ inst \in [Place -> {0, 1}]
    /\ packageJson \in BOOLEAN
    /\ packageJson \/ inst["node_modules"] = 0
    /\ pin = 0
    /\ update = NoUpdate
    /\ settings \in {<<>>, <<User>>}
    /\ mcp \in {{}, {"user"}, {"virage-agent"}, {"user", "virage-agent"}}

Publish ==
    /\ latest < MaxVersion
    /\ latest' = latest + 1
    /\ UNCHANGED <<packageJson, inst, pin, update, settings, mcp>>

-----------------------------------------------------------------------------
(* virage update                                                           *)

\* The versions and places are looked up; `npm view` can fail.  The user picks
\* this package, or does not.
UpdateStart ==
    /\ update.at = "idle"
    /\ \E seen \in {latest, Unknown}, pick \in BOOLEAN :
        update' = [at |-> IF pick THEN "install" ELSE "configure", seen |-> seen,
                   loc |-> InstallLocation(inst), base |-> latest]
    /\ UNCHANGED <<packageJson, latest, inst, pin, settings, mcp>>

\* Faulty variant: the plugin directories are forgotten.
InstallTargetProject == IF packageJson THEN "node_modules" ELSE "global-npm"

\* Each group of packages is installed at @latest where it is; a package of
\* the last two groups with the project's package manager, or globally when
\* there is no package.json.
InstallTarget ==
    IF update.loc \in {"local-plugin", "global-plugin"}
    THEN update.loc
    ELSE IF packageJson THEN "node_modules" ELSE "global-npm"

UpdateInstall ==
    /\ update.at = "install"
    /\ \/ /\ inst' = [inst EXCEPT ![InstallTarget] = latest]
          /\ update' = [update EXCEPT !.at = "pin"]
       \/ /\ inst' = inst           \* reported, and no pin is rewritten
          /\ update' = [update EXCEPT !.at = "configure"]
    /\ UNCHANGED <<packageJson, latest, pin, settings, mcp>>

UpdatePin ==
    /\ update.at = "pin"
    /\ pin' = IF update.loc \in {"local-plugin", "global-plugin"} \/ pin # 0
              THEN update.seen
              ELSE pin
    /\ update' = [update EXCEPT !.at = "configure"]
    /\ UNCHANGED <<packageJson, latest, inst, settings, mcp>>

\* mergeMcpServer: nothing to do if the entry is there and the old name is not;
\* otherwise `claude mcp add`, or the file is edited when that fails.
MergeMcpServer ==
    \/ /\ "virage" \in mcp /\ "virage-agent" \notin mcp
       /\ mcp' = mcp
    \/ /\ "virage" \notin mcp \/ "virage-agent" \in mcp
       /\ \/ mcp' = mcp \cup {"virage"}
          \/ mcp' = (mcp \ {"virage-agent"}) \cup {"virage"}

\* mergeHooks: every matcher of ours is dropped, and the current one added.
MergeHooks(version) ==
    settings' = Append(UserMatchers(settings), version)

\* configure() of the agent plugin that is found among the copies i.
Configure(i) ==
    /\ AgentPluginVersion(i) # 0
    /\ MergeMcpServer
    /\ MergeHooks(AgentPluginVersion(i))

\* It is run for every plugin that is found.
UpdateConfigure ==
    /\ update.at = "configure"
    /\ \/ Configure(inst)
       \/ /\ AgentPluginVersion(inst) = 0
          /\ UNCHANGED <<settings, mcp>>
    /\ update' = NoUpdate
    /\ UNCHANGED <<packageJson, latest, inst, pin>>

KillUpdate ==
    /\ update.at # "idle"
    /\ update' = NoUpdate
    /\ UNCHANGED <<packageJson, latest, inst, pin, settings, mcp>>

-----------------------------------------------------------------------------
(* The rest of a package's life.                                           *)

\* virage init installs into the plugin directory of the scope chosen, which can
\* fail, looks the plugins up again and configures the one it finds if its agent
\* was chosen; the configuration with the versions is written last.  It can be
\* killed after each of the three.
InitInstall ==
    /\ update.at = "idle"
    /\ \E p \in {"local-plugin", "global-plugin"} : inst' \in {inst, [inst EXCEPT ![p] = latest]}
    /\ Configure(inst') \/ UNCHANGED <<settings, mcp>>
    /\ pin' \in {pin, latest, Unknown}
    /\ UNCHANGED <<packageJson, latest, update>>

\* virage uninstall asks for each part: .virage, with the embeddings, contains
\* the local plugin directory.  The hooks and .mcp.json stay.
UninstallPlugins ==
    /\ update.at = "idle"
    /\ \E yes \in SUBSET {"local", "global", "database", "config"} :
        /\ inst' = [inst EXCEPT
                        !["local-plugin"] = IF yes \cap {"local", "database"} # {} THEN 0 ELSE @,
                        !["global-plugin"] = IF "global" \in yes THEN 0 ELSE @]
        /\ pin' = IF "config" \in yes THEN 0 ELSE pin
    /\ UNCHANGED <<packageJson, latest, update, settings, mcp>>

\* The user edits .claude/settings.json.
AddUserHook ==
    /\ update.at = "idle"
    /\ Len(settings) < 2
    /\ settings' = Append(settings, User)
    /\ UNCHANGED <<packageJson, latest, inst, pin, update, mcp>>

PluginNext ==
    \/ Publish \/ UpdateStart \/ UpdateInstall \/ UpdatePin \/ UpdateConfigure
    \/ KillUpdate \/ InitInstall \/ UninstallPlugins \/ AddUserHook

PluginSpec == PluginInit /\ [][PluginNext]_pluginVars

-----------------------------------------------------------------------------
(* Properties.                                                             *)

PluginTypeOK ==
    /\ latest \in 1..MaxVersion
    /\ inst \in [Place -> 0..MaxVersion]
    /\ pin \in 0..Unknown
    /\ update.at \in {"idle", "install", "pin", "configure"}
    /\ mcp \subseteq {"user", "virage", "virage-agent"}

\* A successful update reaches the copy that is in use: with copies in several
\* places, the one found first afterwards is at least as new as the registry's
\* latest when the command began.
UpdateReachesTheCopyInUse ==
    update.at = "pin" => CurrentVersion(inst) >= update.base

\* Over any history of updates, kills, uninstalls and edits there is never more
\* than one matcher of ours in the settings, so a prompt is never given its
\* context twice.
OneHook ==
    \A m, n \in 1..Len(settings) :
        (settings[m] # User /\ settings[n] # User) => m = n

\* A step of ours leaves the user's own matchers as they are, and in order.
UserHooksKept ==
    [][~AddUserHook => UserMatchers(settings') = UserMatchers(settings)]_pluginVars
=============================================================================
