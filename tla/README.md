# A TLA+ verification of kubernetes-pvc-viewer

kubernetes-pvc-viewer lets a browser look into PersistentVolumeClaims. A *backend* reads a
configuration file, selects claims, and keeps *agents* (a Pod and a Service each) in the
cluster that mount the claims and serve their files; the backend forwards requests of the UI
to them. Four things in it are hard to test: the upkeep of the agents, where several
unsynchronised goroutines reconcile the same cluster through an API whose calls fail and whose
deletions are graceful; the configuration file, which is edited while it is watched and
loaded; the agents' files, which concurrent requests read, replace and remove; and the
UI, whose listings arrive when something else may be selected. This directory models these
parts, checks them with TLC and proves their main invariants with TLAPS.

Contents: [inventory](#1-inventory) ·
[modules](#2-modules-and-the-code) · [abstractions](#3-abstractions) ·
[properties and runs](#4-properties-and-runs) · [findings](#5-what-the-violated-properties-say) ·
[proofs](#6-proofs) · [what is left out](#7-not-modelled) · [plan](#8-plan)

## 1. Inventory

| part | state | operations | talks to |
|---|---|---|---|
| configuration (`internal/config`) | the `Config` in force, in an `atomic.Value` | `Load`, `WatchFile`, `ApplyNewConfig`, `Current` | file system events in; the callback in `main.go` out |
| discovery and matcher (`discovery.go`, `internal/matcher`) | none | `BuildTargets`, `BuildTargetsForNamespace`, `Match` | lists namespaces, claims; gets volumes |
| security profiles (`security.go`, parts of both reconcilers) | none | three resolvers of the effective settings, two merges, the profile key, two spec hashes, two Pod templates | called by the reconcilers and by routing |
| reconciler, agent-per-pvc (`reconciler.go`) | `Defaults`, `Overrides` (plain fields), `Disabled` (atomic) | `Reconcile`, `ensureAgent` | Pods and Services |
| reconciler, agent-per-namespace (`reconciler_namespace.go`) | the same | `EnsureNamespaceAgent`, `GCPerPVCAll`, `GCNamespaceAgents` | Pods, Services, claims, volumes |
| controller (`controller.go`) | a goroutine per load, a ticker | `OnConfigChange`, `reconcilePerNamespace`, `StartPeriodic` | discovery, reconciler |
| backend process (`cmd/backend/main.go`) | the above, HTTP requests | the reload callback, `POST /api/v1/gc`, the shutdown clean-up, `computeRouting`, proxied handlers | all of the above; agents through `proxy.go` |
| agent (`cmd/agent`, `internal/agent`, `internal/fsutil`) | the mounted files, the read-only flag; per request an open file, a resolved path, a list of names | list, download with ranges and tags, delete, upload, empty a directory; `JoinSecure` | the backend's proxy |
| UI (`ui/src`) | `App`: selection, PVC lists per namespace; `FilePanel`: path, offset, listing, total, a tick | fetches, aborts, uploads, deletions | the backend's API, by paths that the listings contain |
| status and read APIs (`status.go`, `api_list.go`) | none | `GetStatus`, namespaces, claims | Pods, discovery |
| not behaviour of its own | | `auth` (no caller), `kube`, `metrics`, `version`, `reconciler_mountinbackend.go` (a placeholder), the Helm chart | |

How they interact: the watcher goroutine runs the callback of `main.go:46-51`, which stores
the configuration, then writes `Recon.Defaults`, then `Recon.Overrides`, without a lock, and
starts a goroutine that sleeps 200 ms and reconciles with *that* configuration's targets but
with whatever the two fields hold *then*. A ticker reconciles once a minute, `POST
/api/v1/gc` and the clean-up after SIGTERM delete all agents. Nothing excludes any of these
from another but the flag `Disabled`, which only the agent-per-pvc pass tests, at two places.

Hard behaviours, and the properties that make each part correct:

- *Overlapping passes.* Whatever overlaps, an agent's Pod must come from loads that were
  applied and mount only PVCs they watch (`AgentsFromAppliedConfig`), a reload must not stop
  agents it does not concern (`SteadyAgentsKept`), each agent name goes through one simple life
  cycle (`ImplementsFleet`), and once things are quiet the agents must
  be those the configuration asks for (`PvcFleetConverges`, `NamespaceFleetConverges`).
- *Failing calls.* Errors of Create and Delete are dropped, a failed Get of a Pod counts as
  "no Pod", of a claim as "no storage class", of a volume in discovery as "not watched".
- *Graceful deletion.* Delete followed by Create of the same name usually fails, and it takes
  another pass to replace the agent.
- *Switching reconciliation off* (`DisabledOnlyDuringGc`, `PvcFleetConverges`, `NoAgentCreatedDuringGc`).
- *The spec hash.* A pass learns only from the hash stored on a Pod whether its settings are
  outdated (`EditReachesAgent`, `NoNeedlessRestart`, `ReadOnlyDefaultHolds`), and that hash is
  computed from fields that are read again for the Pod (`HashDetectsChanges`).
- *Duplicate derivations.* Routing and the reconciler derive a PVC's group independently
  (`RoutedToOwnGroup`, `MountedOnce`); three resolvers read the overrides, which the documentation
  describes once (`RunsDocumentedSettings`).
- *Edits during a load.* The file may change again, or be half written, before the watch is
  added, during the 200 ms, the load or the callback; notifications are merged and dropped
  (`NothingForgotten`, `ImplementsRegister`).
- *Requests that overlap on files.* An upload truncates and then copies, emptying a directory
  lists and then removes, a download takes a tag and then reads; calls fail in between and the
  Pod may be killed (`UploadsWhole`, `TagNamesContents`, `OnlyAskedChanges`).
- *Links.* `JoinSecure` follows one link per segment, the kernel those that are left when the path
  is used (`OnlyAskedChanges`).
- *Paths that go in a circle.* The panel sends back paths that routing has prefixed before
  (`PanelShowsItsDirectory`).
- *Late answers.* Listings and PVC lists arrive after the selection has changed
  (`ShownBelongsToSelection`, `QuietShowsSelection`).

`PROJECT.json` lists every hazard at its line.

## 2. Modules and the code

```
SecurityProfile ── Discovery ── SecurityReload ── MCSecurityReload
                        │              └───────── SecurityReloadProofs ── Induction
                        └ (INSTANCE) ───────────────────┐
KubeApi ── Reconciler ─┬─ PerPvc ───────┬─ Controller ── ControllerProperties ── MCController
                       └─ PerNamespace ─┘                     │       └── ControllerProofs ── SteadyAgentProofs
                                           AgentFleet ── (INSTANCE)
ConfigRegister ── (INSTANCE) ── ConfigWatch ── ConfigWatchProofs
Routing ── AgentFiles ─┬─ MCAgentFiles              Panel ─┬─ MCPanel
                       └─ AgentFilesProofs                 └─ PanelProofs
                              └── AgentTreeProofs ── Induction
```

**SecurityProfile** – pure operators: the storage class of a claim as discovery sees it
(`DiscoveredClass`) and as the other two callers see it (`LookedUpClass`: an empty class
that is not nil does not fall back to the volume), the three resolvers
(`BuildSecuritySpec`, `GroupEffective`, `ResolveSecurityForStorageClass`: the last compares
classes for equality, the others match globs), `MergeSecurity`, `MergeSupplemental`,
`ProfileKey`, the two hashes and the two Pod templates (`PvcPod`, `GroupPod`).

**Discovery** – `Matches` (internal/matcher) and `BuildTargets`.

**SecurityReload** – one namespace, passes as single steps: `Reload` (any other
configuration), `PerPvcPass`, `PerNamespacePass`. `agents` and `groups` map PVCs and profile
keys to the Pod that runs and the hash it carries. It asks one question: are hashes and keys
good enough?

**KubeApi** – the API server and the kubelet, external to the repository: claims, Pods
(absent, up, failed, terminating), Services; the calls, each of which can fail; terminations
that end on their own, Pods that fail, claims that come and go unless a Pod uses them.

**Reconciler** – the fields of `Reconciler`, one record of local variables per goroutine
(`wk[w]`, with a program counter `pc`), the delete loops, `GCPerPVCAll` and `GCNamespaceAgents`.

**PerPvc** – `Reconcile` and `ensureAgent` step by step, in the order of the source:

| step | code | |
|---|---|---|
| `CheckDisabled` | reconciler.go:38 | |
| `ListAgents` | 41-59 | an error ends the pass |
| `EnsureAgent` | 84-86 | the test of `Disabled`, per target |
| `EnsureService` | 94-108, 205 | and the first read of `r.Defaults` |
| `ResolveSecurity` | 206 | the read of `r.Overrides` |
| `GetAgent` | 113-142 | the second read of `r.Defaults`, the hash, `Pods.Get` |
| `DeleteAgent` | 143 | errors dropped |
| `CreateAgent` | 145-181 | the third read of `r.Defaults`, for the Pod; errors dropped |
| `SweepPod`, `SweepService` | 69-79 | agents listed before and not wanted |

**PerNamespace** – `EnsureNamespaceAgent` the same way: delete the legacy agent, look up the
class of each PVC, classify it, then ensure the Service and Pod of each group (`r.Defaults` is
read for the hash, and again for the Pod), then list and sweep the groups nobody asks for. A Pod
of the model is its phase and its `spec`: the hash it is annotated with and what it `runs` with.

**Controller** – the callback's three writes (`ApplyNewConfig`, `SetDefaults`,
`SetOverrides`), the sleeping goroutine (`OnConfigChange`), the ticker (`Tick`), `/gc`
(`GcRequest`, `GcCancelled`, the deferred `Enable`), SIGTERM and restart.

**AgentFleet** – what the controller promises about agents, without goroutines and calls: a name is
free, runs an agent made from loads applied by then, has one that failed, or has one that is going away
(`Create`, `Fail`, `Stop`, `Gone`); an agent that all loads so far agree on is stopped only while somebody
collects agents. `loads`, `fleet` and `collecting` are Controller's `cfg`, `pods` and "some /gc request or
clean-up is under way".

**ControllerProperties** states its properties; **MCController** and **MCSecurityReload**
give the constants small values. MCController's loads are real configurations: its hashes,
keys and targets are computed by SecurityProfile and Discovery, tabulated once.

**ConfigRegister** – what a reloaded file promises to its user: the value in force is a version
of the file that can be loaded, it never goes back while the process lives, and the newest
version, once announced, comes into force (`Write`, `Read`, `Restart`, `CatchesUp`).

**ConfigWatch** – `WatchFile` (config.go:72-114) against a file that others edit: `InitialLoad`,
`AddWatch`, `Receive`, `Load` (the read after the 200 ms), `OnChange` (the swap of `State.cfg`),
`Stop`, and as environment `Edit` (write in place, rename, ConfigMap publication) and `Restart`.
It instantiates ConfigRegister, whose `written` is `file`. Controller takes over where
`OnChange` ends: its loads are the callback's.

**Routing** – pure operators: `Rewrite` and `Routed` (computeRouting and the agents' mounts),
`EntryPath` and `Page` (handleTree), `ParseRange` (with the limit of an int64, `MaxInt`), the panel's `Breadcrumbs` and `PanelOffsets`,
with `NamedBytes`, `RangeExact` and `PagesCover` as what they should do.

**AgentFiles** – volumes as a tree of paths and inodes, requests as records with a program counter,
one step per system call that matters:

| step | code | |
|---|---|---|
| `AskEntry`, `AskDirectory` | FilePanel.tsx, main.go:94-158 | a request with a path the panel holds |
| `MkdirAll`, `OpenFile`, `Copy`, `Close`, `Created` | http_handlers.go:216-274 | an upload, its files one by one, each truncated first |
| `ResolveDelete`, `RemoveAll` | 194-214 | entries go one by one |
| `ReadDir`, `Empty` | 289-321 | names read once, errors dropped |
| `Open`, `NotModified`, `SendHeader`, `Send`, `Sent` | 130-192 | the tag first, the contents chunk by chunk |
| `Forbidden`, `Fail`, `Crash` | | read-only agent, a failing call, the Pod killed |
| `Tick` | | the clock of the file system |
| `OpenDir`, `Breadcrumb` | FilePanel.tsx:49-90 | where the panel goes |

`JoinSecure` (path.go:15-79) is the walk that follows one link per segment, `Within` its checks, `Follow` and
`FollowDir` what the kernel makes of the path that it returns: open, stat and mkdir follow every link that is left,
lstat and unlink all but the last segment. `Left` is what an `os.RemoveAll` has still to remove; a volume's root is
a mount point and stays.

**Panel** – `App`'s namespace effect, `FilePanel`'s two effects and its buttons, with requests,
headers, bodies and failures as separate events in any order.

## 3. Abstractions

- SHA-1 is injective: a digest is the tuple it digests, a name the tuple of its parts.
- A `*int64` is a number or `Nil`; a sorted list is a bag; the image never changes.
- A step makes at most one API call, but for the two below. A read of `Defaults` or `Overrides` is a step of its own
  or shares the step of an API call, which loses nothing, as the watcher never touches the
  API's state. Each write or read of one field is one step: the torn values that a race
  inside a multi-word struct could give are not modelled.
- A pass's `BuildTargets` is one step: it lists the namespaces and claims and gets the volumes as of one
  moment, and any number of those Gets may fail together, as in an outage of the API server; one
  failing call of the budget stands for all of them. `LookUpClass` is the Gets of a claim and of its volume in one step.
- `Controller` starts when the initial load has ended. A load that failed leaves the empty
  `Config` in force (main.go:39-45), which is one more configuration that watches nothing: `Mode(1)` and
  `Watched(1)` may be that one.
- In `Controller`, a configuration is the number of the load that gave it, and `PvcHash(d, o,
  e, t)` names the reads: settings from the defaults of `d` and overrides of `o`, hashed with
  the default groups of `e`; `PvcRuns(d, o, f, t)` is what a Pod runs with that was created with those
  of `f`. `GroupHash` and `GroupRuns` are the same for a group agent. `SecurityReload`, whose passes are single
  steps, has `e = f`.
- A Create or Delete that took effect and returned an error is the same step as one that
  succeeded, since the code drops these errors.
- A List of claims has a fixed order (`First` uses CHOOSE). Map iterations (namespaces, groups,
  sweeps) have any order.
- At a restart the old process's passes are over and only its clean-up goroutine may still
  run; two backends that reconcile at the same time (replicaCount > 1, the overlap of a
  rolling update) are not modelled beyond that.
- `ConfigWatch`: a version is a number and whether it can be loaded; a half-written state is a
  version of its own. The 200 ms are a step that may take any time. The kernel's queue has a limit;
  it may merge equal notifications and drops them when full. A failing `NewWatcher` or `Add` ends
  the process and is covered by `Restart`.
- `AgentFiles`: the volume is a tree without hard links when the agent starts, its links are absolute and point to
  paths of the model, be it to another link or to nothing yet. Links that lead out of the volumes are not modelled: what
  path.go:12-14 and SECURITY.md:28 promise about containment is a matter of the first link of each segment only
  (path.go:53-73), and nothing here shows it of the links behind. `JoinSecure`, an `open`, a `MkdirAll` and a `ReadDir`
  are single steps each; a handler that joins and then uses the path at once does both in one step, an upload's
  files and a deletion do so in steps of their own. After `MaxLinks` links a look-up fails, as with ELOOP.
- A file is its chunks, a modification time and, as history, the upload that opened it
  last. The clock moves on by itself (`Tick`) and any number of writes may read the same time from it, as file systems
  give it. A tag may then name two contents that were written within one tick. `TagNamesContents` is about tags that were of a
  past tick when they were taken; that, and that the file was then the one at its path, is the history `sure`.
- `MaxInt` stands for the largest int64, which the runs make 3 and the proofs leave open. The data root is what the Pod
  templates mount. Hidden files, names and sizes in listings, MIME types and headers other than the tag are left out. A request
  goes on when its client has given up. The panel rests when no more requests are granted. The mode is a constant.
- `Panel`: React runs an event's updates and their effects before the next event, so each event is
  one step; an aborted body becomes an empty listing in the same step. An offset counts windows of
  `limit` entries. A namespace's PVC list stands for itself.
- The bounds are `Budgets`: how many calls may fail, Pods fail, claims change, loads, /gc
  requests and restarts happen in one behaviour, and in `AgentFiles` how many requests, faults and ticks of the
  clock. Passes, the ticks of the controller's ticker and terminations are unbounded.

## 4. Properties and runs

| run | states | what it shows |
|---|---|---|
| `sec_reload` | 120 k | `EditReachesAgent`: after a pass each agent has the security context of the configuration in force, but for an id that went from absent to 0 or back. `RoutedToOwnGroup`: the group routing asks for exists, mounts the PVC and has its settings. `RunsDocumentedSettings`: they are those the README describes, but in the two cases below. `MountedOnce`. `ReadOnlyDefaultHolds`: no path loses a read-only default. `NoNeedlessRestart`: an agent is replaced only by one with another context, or after one of two edits. `TypeOK`. |
| `ctl_pvc` | 502 k | `AgentsFromAppliedConfig`, `SteadyAgentsKept`, `DisabledOnlyDuringGc`, `TypeOK`, with two or three passes that overlap and two /gc requests. `ImplementsFleet`: the controller implements `AgentFleet` |
| `heal_pvc` | 133 k | `PvcFleetConverges` under fairness: hash and contents of each agent, after a reload that changes the default groups, a failed call, two overlapping /gc requests, a claim that goes and comes, a restart with its clean-up. A reconciler that some /gc request leaves disabled would not converge |
| `heal_ns` | 189 k | `AgentsFromAppliedConfig` and, under fairness, `NamespaceFleetConverges`, with a failed look-up that merges two groups for one pass, a claim that is removed in the middle of a pass, and a PVC agent and a group agent of an older backend to sweep |
| `config_watch` | 8 k | `NothingForgotten`: `WatchFile` never waits for events while a loadable version it was told of is current and not in force. `ImplementsRegister`: it implements `ConfigRegister`, safety and catching up |
| `agent_files` | 870 k | `UploadsWhole`, `TagNamesContents`, `OnlyAskedChanges` (no entry and no contents change but at what a request's path leads to, through links, and below it; a read-only agent changes nothing), `PanelShowsItsDirectory`, `TypeOK` (the shape of the tree), `PagesShowAll` and `RangesExact` (the windows cut out of listings and files) |
| `panel` | 251 k | `ShownBelongsToSelection`: entries on show come from the PVC that is selected. `QuietShowsSelection`: when nothing is under way and nothing failed, the panel shows what is selected, with all own changes that were answered |
| `gc_race`, `mixed_groups`, `failed_agent`, `config_map`, `mode_back` | | violations, section 5 |

Bounds. `sec_reload` has three claims (one per storage class, one whose class only its volume
names, one that is not ReadWriteMany), all combinations of a few ids, among them absent, 0 and the default
written out, duplicate and reordered groups, overrides by name, by class, by pattern and by both, in both orders, and
goes from any to any of
them. That is enough for the hash: a pass compares one stored hash with one new one, so pairs of
configurations cover it, and the theorems of section 6 lift the bound.
The controller runs have one namespace. In `ctl_pvc` there are two claims: `p1` has settings of its own that no load
changes, `p2` follows the defaults, so an agent that has to stay and one that has to change
live side by side, and the second load changes the default groups as well. Interference between goroutines needs two of them and one disturbance; the
budgets allow each kind against two passes, a fault against three, and two /gc requests against one. All interference is
per agent name or through `Defaults`, `Overrides` and `Disabled`, so more claims add interleavings and no new
kinds of conflict; the safety theorems hold for any number. `ctl_pvc` leaves out the ticker
to stay small enough (a further load starts the same pass), so it may stop: deadlock is
not checked there. The healing runs have the ticker, and one claim or two. `heal_pvc` never loads a configuration a second
time: after a reverted edit of the default groups the agents do not converge, which is what `mixed_groups` shows.

`config_watch` has four versions, a queue of two and one restart: an edit can fall into each gap
of `WatchFile` and be followed by another one, and a third notification overflows the queue. Its edits end
with the last version and the watcher then waits for ever, so deadlock is not checked.
`agent_files` has two uploads, a deletion, an emptying and a download, three requests in all
of which two overlap, one fault and one tick of the clock, on a volume with a file and a directory of the PVC's own name. In the
directory there are two links: one back to the volume's root, and one that leads through the first to the file, so that
deletions meet a link whose target lies behind a further link, and an upload to a name that is a link ends at the file it leads to. Uploads have one and two
files of one and two chunks.
All conflicts are between two requests on one inode, one entry or one directory, so pairs cover them, and
the third request follows what two have left. Its steps end with its budgets, as do those of
`panel` (six clicks, two changes, one failure; two namespaces with a PVC of the same
name): deadlock is not checked in either. The windows of listings and files are checked at the sizes
that occur (three entries in pages of two, files of two chunks, an int64 that ends at 3); the theorems are for all.

Fairness (`Fairness` in Controller): goroutines are scheduled and their calls return (client-go
calls have deadlines, the passes are loops over finite sets), the ticker ticks, the kubelet ends
terminations. Weak fairness is enough since a step of a goroutine stays enabled until it is taken. In ConfigWatch the goroutine of
`WatchFile` is scheduled the same way (`WF_vars(WatcherStep)`) and a process that has stopped is started again, as a Deployment
does; edits and sudden restarts are not fair. Nothing is
assumed about edits, faults, /gc, restarts; the budgets make disturbances end, which the
convergence properties need ("once nothing disturbs the cluster any more").

Some definitions are narrower than they may look, because the code does less than one would
hope. `SteadyAgentsKept`, and the `Stop` of AgentFleet, are about PVCs that all loads so far treat alike and whose class does not
depend on a volume: a failing Get of
the volume drops the PVC from the targets and the pass deletes its working agent. It is also
about agents not left behind by an older backend: two passes may both find such an agent
outdated, and the slower one deletes the replacement that the faster one has just created.
Both recover in the next pass, which is what the convergence properties say.
`DisabledOnlyDuringGc` has no converse: of two /gc requests that overlap the first to end
switches reconciliation on for both.

Four properties name the cases in which the code does not do what one would expect, and show that these are all:

- `EditReachesAgent`, `RoutedToOwnGroup`: an absent id and the id 0 have one hash and one profile key
  (reconciler.go:115-124) and give different contexts, so an edit from one to the other does not reach a running agent.
- `RunsDocumentedSettings`: README.md:97-102 has an entry for a class "by storageClass glob" and one for a name as "per-PVC glob (takes
  precedence over match)", which config.go:30-31 and CHANGELOG.md:12 repeat. All three resolvers take the first entry of
  the list that matches, so an entry for the class wins if it comes first (the comment "pvc-specific override takes
  precedence", reconciler.go:207, stands over the test of that one entry); and agent-per-pvc compares the class
  for equality (reconciler.go:228), so `cephfs*` applies to no per-PVC agent.
- `NoNeedlessRestart`: reconciler.go:125 says "sort supplemental for stability" and nothing is sorted, so listing the
  same groups in another order replaces every agent; so does writing out the default id 65532, which is hashed
  differently from an absent one and runs the same.
- `RangeExact`: a suffix of an empty file names no byte and is answered with a 206 of no bytes (http_handlers.go:344-351); numbers
  over an int64 are refused.

Every property of a passing run has a mutant of the modelled code (`Mut...`, next to the
definition it replaces) that violates it: a hash that forgets readOnly or
keeps duplicates, a resolver that lets an entry for another name fall through to its class, a key without readOnly, a merge that overwrites the flag, a hash computed for the wrong
target, a sweep of everything listed, a missing deferred `Store(false)`, and so on.

## 5. What the violated properties say

Each of these runs checks a sentence of the repository's documentation or comments against the
model, and TLC finds a behaviour of the code that contradicts it.

- `gc_race` (main.go:188: "Disable reconciler during GC to avoid races"): a pass that is past its test
  of `Disabled` creates an agent during the sweep; an agent-per-namespace pass never tests it.
- `mixed_groups` (reconciler.go:114: "Compute desired spec hash to detect changes (image/security/readOnly)"): the default
  groups are read for the hash at reconciler.go:126 and again for the Pod at :173, with `Pods.Get` and `Pods.Delete` in between. A
  reload in between leaves a Pod with the hash of one load and the groups of the next. The next pass replaces it, unless the edit is
  reverted first: then the hash is the wanted one and every pass leaves the Pod with the wrong groups alone.
  reconciler_namespace.go:105 and :135 have the same gap.
- `failed_agent` (main.go:54: "periodic reconcile to self-heal"): a Pod in phase Failed keeps its hash
  and is taken for a working agent for ever, reconciler.go:140.
- `mode_back` (helm/pvc-viewer/README.md:33: "reconciles desired agents"): nothing deletes
  group agents after a change to agent-per-pvc, controller.go:90-99; the other direction is handled (controller.go:55).
- `config_map` (README.md:74: "Rendered to `/config/config.yaml` and hot-reloaded by backend."): `WatchFile` reacts
  only to events whose name ends in `config.yaml` (config.go:98). The kubelet updates a ConfigMap volume by
  exchanging the link `..data`; the link `config.yaml` itself is never touched, so the new contents come into
  force at the next start only. What the kubelet does is external to the repository; the run has only
  publications of that kind as edits, `config_watch` has them among others.

## 6. Proofs

All proofs hold for every value of the constants that satisfies the ASSUMEs of the modules.

**SecurityReloadProofs.** `AgentsInv` says that whatever Pod runs, its hash and its context come from one and the same
settings; it is needed because `EditReachesAgent` speaks of Pods that a pass has *left alone*. `HashDeterminesPod`
says what equal hashes leave open: the settings of one are `Alike` those of the other, that is, equal but for an id that is
absent in one and 0 in the other, so a Pod left alone has a context that settings alike those wanted now
give (`EditReachesAgentTheorem`). No assumption is made about the ids but that they are natural numbers or absent.
`NoNeedlessRestartTheorem` is about the converse: equal contexts whose hashes differ (`OnlyTheDefault`) come from
another order of the groups or from 65532 written out. `ReadOnlyDefaultTheorem`, `MountedOnceTheorem` and `RoutedGroupMountsTheorem`
(the group that routing derives exists and mounts the PVC) rest on the same invariant and its counterpart
for groups, `GroupsInv`. `RoutedToOwnGroupTheorem` adds that this group runs with the PVC's own settings. The
group may have been created from another PVC's settings and under another configuration, so
`ContextsInv` keeps that a group agent's context and hash come from the same settings, and `KeyAndHashDetermineContext` says that
settings with one profile key and one hash are alike and give one context, up to the order of the supplemental groups. That needs what
`MergeSupplemental` does to lists of any length, `MergeSupplementalSet`: by induction, the set of its result is the union.
`RunsDocumentedSettingsTheorem` puts both together with `FirstIsDocumented`: outside the two exceptions, the first
match in the list is the entry that the documentation means.

**Induction.** The library's induction theorems have an operator as parameter, which no backend can instantiate; this
module has the same facts with a set or a function in its place. `SetInduction` (a set with 0 and closed under successor is all of
Nat), `Least` (a set of naturals has a least element) and `Iteration` (a function defined by recursion on `0..N` exists and does
what its definition says, proved from the library's theorem on well-founded recursion through curried steps) are
what `MergeSupplemental` and `JoinSecure`, both loops over a list, are reasoned with.

**ControllerProofs.** `IInv` is inductive: it says for each label of a goroutine what its local
variables hold (`LocalOK`: which loads its reads came from, whose hash `want` is, that every member of a
group has the group's profile) and for each Pod where its hash and its contents came from (`MadeBy`). Both are
monotone in the number of loads applied, which is why a step of one goroutine never spoils another's
locals. `LaterIdle` (the goroutine of a load does not run before the load) is needed for the step in
which a load's goroutine starts, `DisabledOnlyDuringGc` is its own strengthening with the shape of the handlers' ends. From it:
`ControllerTypeOK`, `AgentsFromAppliedConfigTheorem`, `DisabledOnlyDuringGcTheorem`.
The proof has one lemma per group of actions, one step per action.

**SteadyAgentProofs.** `SteadyInv` adds that every pass *spares* every PVC that is steady so far: it is among
the pass's targets, not in its sweep, and not the target it is about to delete. With `IInv` the hash of a steady
agent is the one every load gives, so no pass ever gets to its deletion: `SteadyAgentsKeptTheorem`, for
any number of overlapping passes, loads and faults. A new load can only end a PVC's being steady (`SteadyLater`), so
the invariant survives it. `FleetImplemented` is the refinement of AgentFleet, step by step:
`PodsStep` divides the controller's steps into those that touch no Pod and those that touch one,
by a Create with a spec of applied loads, a Delete, or the kubelet; `StepImplementsFleet` finds the
fleet's action for each. A Delete of a terminating Pod has to be a stutter, for which `PodsAreRecords` says that a Pod is
its phase and its spec and nothing else. AgentFleet has no liveness, so the theorem is the whole of `ImplementsFleet`.

**ConfigWatchProofs.** A loaded value may be old by the time it is stored, so the invariant follows it from the
read to the swap: `SnapshotNewer` (what was read is at least as new as what is in force) and `Accounted` (a newer
version that was announced is in the queue, or is about to be read, or was just read). From them
`NothingForgottenTheorem`, for any number of versions and restarts and any length of the queue, and
`RegisterRefined`: every behaviour of ConfigWatch is one of ConfigRegister, but for its liveness.

**AgentFilesProofs.** `IInv == Typed /\ Whole`. `Whole` is needed since a torn file is the work of two: it says
that a file which only one upload has opened since its truncation holds the prefix which that upload has
copied so far, so that `UploadsWhole` follows when it is done. `PanelInv` is a separate invariant: whatever the panel holds
routes to the directory of the PVC it shows (`PanelShowsItsDirectoryTheorem`), for any tree and also
if a directory in the volume has the PVC's name. `RangeExactTheorem` goes through the cases of parseRange for all sizes and
numbers on both sides of `MaxInt`, `PagesCoverTheorem` divides a directory of any size into pages of any limit from 1 to 1000; the
properties that the run checks are their instances.

**AgentTreeProofs.** The shape of the volume and what may change in it. `TreeInv` says that the variables have
their types and the volume gets no symbolic link it did not have at the start (`TreeOK`), that no link lies on the way
to the panel's directory (`Plain`), and what each request has resolved and not yet done (`RequestsOK`): a deletion's path
is one its asked path aims at, an upload's is the directory it was asked to write to, since no link lies on the way to
that one either, the file an upload has open is one it was asked for, wherever the links led, and the names an emptying has left are children of its
directory. The last are needed
since a request resolves its path in one step and acts on it in others, between which the tree changes. That `JoinSecure`, a
walk over the segments, and the kernel's look-up of what it returns end at a path the argument aims at (`JoinSecureEnds`,
`FollowAims`, `FullPathAims`) is by induction over the segments and over the links. From it:
`AgentFilesTypeOK` and `OnlyAskedChangesTheorem`, for any volumes, links, uploads and numbers of requests. The
links only have to stay in the model's paths (`LinkAssumption`).

`TagNamesContentsTheorem` is in this module since it needs the tree. The clock never goes back (`ClockGrows`), so a tag of a past
tick is never given again by a write, and a file that has it was not written since. What remains is that the path of the download may come to lead
to another such file. `PlaceKeeps` says that it does not: in a step after which the path leads to a file, it leads to the
same place as before, as the volume gets no new links and a path that went through a link which has just been removed leads nowhere; and
a file that an upload creates at that place has a later time. `SendingNext` follows the response from its tag to its last
chunk in the same way.

**PanelProofs.** At most one request is current: all others were aborted or belong to a selection that is gone
(`OnlyCurrent`), and the properties of the panel, together with it, are inductive: `ShownBelongsTheorem`, `QuietShowsTheorem`.

Only model-checked: liveness (`PvcFleetConverges`, `NamespaceFleetConverges` and ConfigRegister's
`CatchesUp`), since the prover has no ENABLED; and that the tables of MCController satisfy the assumptions
(TLC evaluates the ASSUMEs on every run). Every invariant and every action property that a passing run checks has
a theorem, none with a hypothesis beyond the ASSUMEs of the modules.

## 7. Not modelled

- *Status* (`status.go`): one Get whose answer follows from the name it asks for. That name is the one of the per-PVC
  agent in either mode.
- *The proxy's copying* of headers and bodies, the HTTP servers, routes, the embedded static files and the read APIs' JSON
  handlers: no state of their own. The path a proxied request ends up with is in Routing.
- *The agent's form parsing, content types, size limit, hidden files and sorting*: they decide what a single request gets
  and interact with no other one. Links that lead out of the volumes are not modelled either, see section 3.
- *The UI's preview, progress bars and layout.*
- `internal/auth`, `buildPodSecurityContext` and `DiscoverTargets` have no caller, `mount-in-backend` has no code;
  metrics, version, the Kubernetes client and the Helm templates have no behaviour to model.

Some of what the code does has no property, because nothing in the repository promises otherwise:
the UI may store a PVC list that arrives after the next namespace was selected (App.tsx:54) and
may page past the end while the total is still that of the last directory (FilePanel.tsx:58); a
path that the panel holds across a change of the mode may mean another directory (main.go:231); errors while emptying a directory are
dropped (http_handlers.go:318); a Service may stay behind when its deletion fails (reconciler.go:77); a negative offset of a listing
panics (http_handlers.go:105). Deleting an entry that is a link removes what it
points to and not the link (http_handlers.go:208): `OnlyAskedChanges` says so, as what a path aims at is part of what was asked for.

## 8. Plan

Done, in this order: `SecurityProfile`, `Discovery`, `SecurityReload`; `KubeApi`, `Reconciler`, `PerPvc`,
`PerNamespace`, `Controller`; their proofs; `ConfigRegister`, `ConfigWatch` and the proof of the refinement's safety
part; `Routing` and `AgentFiles`, `Panel`, and the proofs about them.

`Induction`, and with it the proofs of `RoutedToOwnGroup`, of the tree and of `OnlyAskedChanges`; `AgentFleet` and
the proof that `Controller` implements it.

Left:

1. The same for the group agents: which PVCs a running group agent may be stopped for.
2. Links that lead out of the volumes; hidden files.
3. Claims that are being deleted while their agent keeps them (discovery.go:44).

Each run is bounded to a few minutes with two workers. Run one with
`tlc -workers 2 -config ctl_pvc.cfg MCController.tla`; check proofs with `tlapm ControllerProofs.tla`.
