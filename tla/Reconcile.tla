------------------------------- MODULE Reconcile -------------------------------
(***************************************************************************)
(* The reconciler: what a launch does to the plugin cache, to Grafana's    *)
(* plugins directory and to its provisioning files so that Grafana serves  *)
(* the plugins the launch resolved (grafana.rs: reconcile, and             *)
(* reconcile/mod.rs, download.rs, provision.rs, dashboards.rs).            *)
(*                                                                         *)
(* One step per change of the file system: the shell may be killed between *)
(* any two of them, and any of them may fail.  Publishers release new      *)
(* versions and re-publish old ones meanwhile.  Launches run one after     *)
(* another.                                                                *)
(***************************************************************************)
EXTENDS Naturals

CONSTANTS
  Plugin,
  Required,
  App,           \* the plugins of type "app"; the others are data sources
  Title,         \* the display name in each plugin.json
  Version,       \* Version[p][r]: the version of plugin p's r-th release
  MaxRelease,
  MaxFault,      \* bound: failed downloads and file operations
  MaxKill        \* bound: kills of the shell

ASSUME ReconcileAssumption ==
  /\ Required \subseteq Plugin /\ App \subseteq Plugin
  /\ MaxRelease \in Nat \ {0} /\ MaxFault \in Nat /\ MaxKill \in Nat

VARIABLES
  release,    \* the newest release of each plugin
  dir,        \* plugin-cache/<plugin>/<version>
  link,       \* instance/plugins/<slug>: a link into the cache, or the user's own
  yaml,       \* the provisioning document of each plugin
  unsigned,   \* provisioning/unsigned-plugins
  dash,       \* provisioning/dashboards/plugins/<title>
  run,        \* the launch
  faults, kills

vars == <<release, dir, link, yaml, unsigned, dash, run, faults, kills>>
files == <<dir, link, yaml, unsigned, dash>>

(***************************************************************************)
(* State                                                                   *)
(***************************************************************************)

Release == 1..MaxRelease
Versions == UNION {{Version[p][r] : r \in Release} : p \in Plugin}
None == 0

\* st "part": some of the files; rel: the release they are of; mark: the release
\* whose digest the marker holds.
Dir == [st : {"none", "part", "whole"}, rel : Release \cup {None},
        mark : Release \cup {None}]
NoDir == [st |-> "none", rel |-> None, mark |-> None]

\* A wished plugin has a release, or no artifact for this platform (None).  todo:
\* what the step under way has still to do; ok: the provisionable plugins.
Run == [pc : {"idle", "install", "download", "unpack", "remove", "exec",
              "mark", "link", "symlink", "prune", "stale", "render", "unsigned",
              "tidy", "copy", "up", "failed"},
        wish : UNION {[W -> Release \cup {None}] : W \in SUBSET Plugin},
        todo : SUBSET Plugin, cur : Plugin \cup {None}, ok : SUBSET Plugin]

Idle == [pc |-> "idle", wish |-> [p \in {} |-> None], todo |-> {}, cur |-> None,
         ok |-> {}]

TypeOK ==
  /\ release \in [Plugin -> Release]
  /\ dir \in [Plugin \X Versions -> Dir]
  /\ link \in [Plugin -> Versions \cup {"none", "user"}]
  /\ yaml \in [Plugin -> {"none", "old", "new"}]
  /\ unsigned \in SUBSET Plugin
  /\ dash \in [{Title[p] : p \in Plugin} -> {<<>>} \cup (App \X Release)]
  /\ run \in Run
  /\ faults \in 0..MaxFault /\ kills \in 0..MaxKill

Init ==
  /\ release = [p \in Plugin |-> 1]
  /\ dir = [d \in Plugin \X Versions |-> NoDir]
  /\ link \in [Plugin -> {"none", "user"}]
  /\ yaml = [p \in Plugin |-> "none"]
  /\ unsigned = {}
  /\ dash = [t \in {Title[p] : p \in Plugin} |-> <<>>]
  /\ run = Idle
  /\ faults = 0 /\ kills = 0

Wished == DOMAIN run.wish
\* The directory of the plugin being installed, and the release it is to hold.
Want == run.wish[run.cur]
Cur == <<run.cur, Version[run.cur][Want]>>

Goto(pc) == run' = [run EXCEPT !.pc = pc]
GotoFor(pc, todo) == run' = [run EXCEPT !.pc = pc, !.todo = todo]

NoFault == UNCHANGED <<release, faults, kills>>
Fault == faults < MaxFault /\ faults' = faults + 1 /\ UNCHANGED <<release, kills>>

(***************************************************************************)
(* The wish                                                                *)
(***************************************************************************)

\* build_resolved_plugins.  Plugins whose manifest, OCI manifest or footprint
\* cannot be had are not wished for, or wished for under no slug, which install
\* and prune skip alike; a digest that cannot be had is no artifact.
Resolve ==
  /\ run.pc \in {"idle", "up", "failed"}
  /\ \E W \in SUBSET Plugin, N \in SUBSET Plugin :
       /\ N \subseteq W
       /\ IF W = Plugin /\ N = {} THEN NoFault ELSE Fault
       /\ run' = [Idle EXCEPT !.pc = "install", !.todo = W,
                    !.wish = [p \in W |-> IF p \in N THEN None ELSE release[p]]]
  /\ yaml' = [p \in Plugin |-> IF yaml[p] = "new" THEN "old" ELSE yaml[p]]
  /\ UNCHANGED <<dir, link, unsigned, dash>>

\* A publisher releases a plugin; the version may be one it had before.
Publish(p) ==
  /\ release[p] < MaxRelease
  /\ release' = [release EXCEPT ![p] = @ + 1]
  /\ UNCHANGED <<files, run, faults, kills>>

(***************************************************************************)
(* install_all: the required plugins first                                 *)
(***************************************************************************)

Done(p, ok) ==
  run' = [run EXCEPT !.pc = "install", !.todo = @ \ {p}, !.cur = None,
                     !.ok = IF ok THEN @ \cup {p} ELSE @]

\* Mutant: no failure is fatal.
Failed_warns(p) == Done(p, FALSE)

\* A plugin that cannot be installed stops the launch if it is required and is
\* left out otherwise.
Failed(p) == IF p \in Required THEN run' = [Idle EXCEPT !.pc = "failed"]
             ELSE Done(p, FALSE)

FailCur == Fault /\ Failed(run.cur) /\ UNCHANGED files

\* Mutant: any marker will do.
cache_valid_any(d, r) == dir[d].mark # None

cache_valid(d, r) == dir[d].mark = r

install_all ==
  /\ run.pc = "install"
  /\ \/ /\ run.todo = {} /\ GotoFor("prune", Plugin)
     \/ \E p \in run.todo :
          /\ run.todo \cap Required # {} => p \in Required
          /\ IF run.wish[p] = None THEN Failed(p)
             ELSE run' = [run EXCEPT !.cur = p, !.pc =
                    IF cache_valid(<<p, Version[p][run.wish[p]]>>, run.wish[p])
                    THEN "exec" ELSE "download"]
  /\ NoFault /\ UNCHANGED files

\* To a temporary file, with the digest the manifest names.
download_artifact ==
  /\ run.pc = "download"
  /\ \/ Goto("unpack") /\ NoFault /\ UNCHANGED files
     \/ FailCur

\* To a staging directory, which a failure removes.
untar ==
  /\ run.pc = "unpack"
  /\ \/ Goto("remove") /\ NoFault /\ UNCHANGED files
     \/ FailCur

SetDir(d) == dir' = [dir EXCEPT ![Cur] = d] /\ UNCHANGED <<link, yaml, unsigned, dash>>

\* Mutant: nothing is removed, and a directory is not renamed onto another.
extract_into_once ==
  \/ /\ run.pc = "remove" /\ dir[Cur].st # "none"
     /\ NoFault /\ Failed(run.cur) /\ UNCHANGED files
  \/ /\ run.pc = "remove" /\ dir[Cur].st = "none"
     /\ SetDir([st |-> "whole", rel |-> Want, mark |-> None])
     /\ Goto("exec") /\ NoFault
  \/ run.pc = "remove" /\ FailCur

\* Removes what is there, file by file and the marker at any time, then renames
\* the staging directory.
extract_into ==
  \/ /\ run.pc = "remove" /\ dir[Cur].st # "none"
     /\ \/ SetDir(NoDir)
        \/ \E m \in {dir[Cur].mark, None} :
             SetDir([dir[Cur] EXCEPT !.st = "part", !.mark = m])
     /\ \/ Goto("remove") /\ NoFault
        \/ Fault /\ Failed(run.cur)
  \/ /\ run.pc = "remove" /\ dir[Cur].st = "none"
     /\ SetDir([st |-> "whole", rel |-> Want, mark |-> None])
     /\ Goto("exec") /\ NoFault
  \/ run.pc = "remove" /\ FailCur

ensure_backend_executable ==
  /\ run.pc = "exec"
  /\ \/ /\ Goto(IF cache_valid(Cur, Want) THEN "link" ELSE "mark")
        /\ NoFault /\ UNCHANGED files
     \/ FailCur

WriteMark ==
  /\ run.pc = "mark"
  /\ \/ SetDir([dir[Cur] EXCEPT !.mark = Want]) /\ Goto("link") /\ NoFault
     \/ FailCur

SetLink(p, to) ==
  link' = [link EXCEPT ![p] = to] /\ UNCHANGED <<dir, yaml, unsigned, dash>>

\* Whatever has the plugin's name is removed: a link to another version, or the
\* user's own directory.
link_plugin ==
  \/ /\ run.pc = "link"
     /\ IF link[run.cur] = Cur[2]
        THEN Done(run.cur, TRUE) /\ UNCHANGED files
        ELSE SetLink(run.cur, "none") /\ Goto("symlink")
     /\ NoFault
  \/ /\ run.pc = "symlink"
     /\ \/ SetLink(run.cur, Cur[2]) /\ Done(run.cur, TRUE) /\ NoFault
        \/ FailCur

install == \/ download_artifact \/ untar \/ extract_into
           \/ ensure_backend_executable \/ WriteMark \/ link_plugin

(***************************************************************************)
(* prune, render and dashboards; a failure stops the launch                *)
(***************************************************************************)

FailRun == Fault /\ run' = [Idle EXCEPT !.pc = "failed"] /\ UNCHANGED files

\* Mutant: what is not wished for goes, whoever put it there.
prune_all ==
  /\ run.pc = "prune"
  /\ \/ /\ run.todo # {}
        /\ \E p \in run.todo :
             /\ GotoFor("prune", run.todo \ {p})
             /\ SetLink(p, IF p \in Wished THEN link[p] ELSE "none")
        /\ NoFault
     \/ run.todo = {} /\ Goto("stale") /\ NoFault /\ UNCHANGED files
     \/ FailRun

\* Every link into the cache goes that is not wished for.
prune ==
  /\ run.pc = "prune"
  /\ \/ /\ run.todo # {}
        /\ \E p \in run.todo :
             /\ GotoFor("prune", run.todo \ {p})
             /\ SetLink(p, IF link[p] = "user" \/ p \in Wished THEN link[p] ELSE "none")
        /\ NoFault
     \/ run.todo = {} /\ Goto("stale") /\ NoFault /\ UNCHANGED files
     \/ FailRun

SetYaml(y) == yaml' = y /\ UNCHANGED <<dir, link, unsigned, dash>>

\* Mutant: what was wished for stays, installed or not.
prune_provisioning_wished ==
  /\ run.pc = "stale"
  /\ \/ /\ SetYaml([p \in Plugin |-> IF p \in App \ Wished THEN "none" ELSE yaml[p]])
        /\ GotoFor("render", run.ok) /\ NoFault
     \/ FailRun

\* Only in the directory of the apps: documents of data sources are never removed.
prune_provisioning ==
  /\ run.pc = "stale"
  /\ \/ /\ SetYaml([p \in Plugin |-> IF p \in App \ run.ok THEN "none" ELSE yaml[p]])
        /\ GotoFor("render", run.ok) /\ NoFault
     \/ FailRun

\* An app's or a data source's document, stamped with the ports of this launch.
RenderOne(p) ==
  /\ run.pc = "render" /\ p \in run.todo
  /\ SetYaml([yaml EXCEPT ![p] = "new"])
  /\ GotoFor("render", run.todo \ {p}) /\ NoFault

render_app(p) == p \in App /\ RenderOne(p)
render_datasource(p) == p \notin App /\ RenderOne(p)

render ==
  /\ run.pc = "render"
  /\ \/ \E p \in run.todo : render_app(p) \/ render_datasource(p)
     \/ run.todo = {} /\ Goto("unsigned") /\ NoFault /\ UNCHANGED files
     \/ FailRun

write_unsigned_plugins_list ==
  /\ run.pc = "unsigned"
  /\ \/ /\ unsigned' = run.ok /\ UNCHANGED <<dir, link, yaml, dash>>
        /\ Goto("tidy") /\ NoFault
     \/ FailRun

SetDash(d) == dash' = d /\ UNCHANGED <<dir, link, yaml, unsigned>>

prune_dashboard_dirs ==
  /\ run.pc = "tidy"
  /\ \/ /\ SetDash([t \in DOMAIN dash |->
              IF t \in {Title[p] : p \in run.ok \cap App} THEN dash[t] ELSE <<>>])
        /\ GotoFor("copy", run.ok \cap App) /\ NoFault
     \/ FailRun

\* A title's directory is cleared and filled: of two plugins with one title the
\* later has it.  The files come through the link.
provision_dashboards ==
  /\ run.pc = "copy"
  /\ \/ \E p \in run.todo :
          /\ SetDash([dash EXCEPT ![Title[p]] = <<p, dir[<<p, link[p]>>].rel>>])
          /\ GotoFor("copy", run.todo \ {p}) /\ NoFault
     \/ run.todo = {} /\ Goto("up") /\ NoFault /\ UNCHANGED files
     \/ FailRun

reconcile ==
  \/ install_all \/ install \/ prune
  \/ prune_provisioning \/ render \/ write_unsigned_plugins_list
  \/ prune_dashboard_dirs \/ provision_dashboards

(***************************************************************************)
(* Specification                                                           *)
(***************************************************************************)

Kill ==
  /\ kills < MaxKill /\ kills' = kills + 1
  /\ run' = Idle
  /\ UNCHANGED <<release, files, faults>>

Next == Resolve \/ (\E p \in Plugin : Publish(p)) \/ reconcile \/ Kill

Spec == Init /\ [][Next]_vars

\* A launch goes on until it is up or fails, and the user launches again.
FairSpec == Spec /\ WF_vars(reconcile) /\ WF_vars(Resolve)

(***************************************************************************)
(* Properties                                                              *)
(***************************************************************************)

Up == run.pc = "up"

\* Whatever was killed, failed or re-published before, the plugins a launch
\* provisions are the ones it resolved: Grafana's link leads to a whole directory
\* of the release whose digest the catalog gave.
ServedIsResolved ==
  Up => \A p \in run.ok :
          LET r == run.wish[p] IN
          /\ link[p] = Version[p][r]
          /\ dir[<<p, link[p]>>].st = "whole" /\ dir[<<p, link[p]>>].rel = r

\* No launch comes up without a required plugin the catalog knew about.
RequiredIfKnown == Up => Required \cap Wished \subseteq run.ok

\* Grafana is told of the plugins that were installed by this launch and of no
\* other app: every provisioned one has this launch's ports, may load unsigned,
\* and no document is left of an app that is gone or could not be installed.
ProvisionedIsInstalled ==
  Up => /\ unsigned = run.ok
        /\ \A p \in run.ok : yaml[p] = "new"
        /\ \A p \in App \ run.ok : yaml[p] = "none"

\* Dashboards are those of an app this launch installed, in the release it
\* installed, and every such app's title has some.
DashboardsAreCurrent ==
  Up => \A t \in DOMAIN dash :
          LET owners == {p \in run.ok \cap App : Title[p] = t} IN
          IF owners = {} THEN dash[t] = <<>>
          ELSE dash[t] \in {<<p, run.wish[p]>> : p \in owners}

\* What Grafana reads when it starts has its types and is that of this launch.
RenderedIsCurrent == TypeOK /\ ProvisionedIsInstalled /\ DashboardsAreCurrent

\* What the user put in the plugins directory is removed only to make room for a
\* plugin of that name that is ready to be linked.
UserEntriesKept ==
  [][\A p \in Plugin :
       link[p] = "user" /\ link'[p] # "user"
         => run.cur = p /\ dir[Cur].st = "whole"]_vars

\* When publishers, faults and kills are done, some launch comes up with every
\* plugin in its newest release, and so do all after it.
ReconcileSettles ==
  <>[](Up => run.ok = Plugin /\ run.wish = release) /\ []<>Up

\* "Required plugins are always installed at launch regardless" (kinde.rs:500),
\* "Runtime is fully offline" (README.md:6): Grafana is not started without a
\* required plugin that is whole and marked in the cache.
RequiredServed ==
  Up => \A p \in Required :
          (\E v \in Versions : dir[<<p, v>>].st = "whole" /\ dir[<<p, v>>].mark # None)
            => link[p] \in Versions
================================================================================
