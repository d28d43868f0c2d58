----------------------------- MODULE ConfigLoader -----------------------------
(***************************************************************************)
(* The configuration (ConfigLoader of utils/config.py): sources in order   *)
(* of priority, merged into one tree, over which the variables of the      *)
(* environment are laid; and the observers that watch the files.           *)
(*                                                                         *)
(* A tree has settings, and sections that have settings.  A load holds a   *)
(* lock while its event is emitted, before the observers are started.      *)
(***************************************************************************)
EXTENDS Naturals, Sequences, SequencesExt, Sublists

CONSTANTS
    Source,         \* what add_source() is given
    SourceFile,     \* the sources that are files
    Priority,       \* the priority of a source
    Contents,       \* what a source may hold: Parsed(t), Missing, or Broken
    Environment,    \* the variables the environment may have, each [path, value]
    MaxLoads,       \* a bound on the loads
    MaxChanges      \* a bound on the changes of files

ASSUME ConfigAssumption ==
    /\ SourceFile \subseteq Source /\ {MaxLoads, MaxChanges} \subseteq Nat
    /\ \A c \in Contents : c.kind \in {"tree", "missing", "broken"}

VARIABLES
    holds,          \* what each source holds
    environ,        \* the variables of the environment, in order
    sources,        \* _sources
    config,         \* _config
    loading,        \* the load that holds the lock: between its two halves
    observers,      \* _observers: the file each watches
    dead,           \* the observers whose thread has ended
    loads,          \* the loads so far
    changes,        \* the changes of files so far
    merged          \* history: the trees the configuration was merged from, and whose they were

configVars == <<holds, environ, sources, config, loading, observers, dead, loads, changes, merged>>

-----------------------------------------------------------------------------
(* Trees *)

NoItems == [k \in {} |-> "none"]
Leaf(v) == [dict |-> FALSE, value |-> v, items |-> NoItems]
Dict(items) == [dict |-> TRUE, value |-> "none", items |-> items]

Parsed(tree) == [kind |-> "tree", tree |-> tree]
Missing == [kind |-> "missing", tree |-> NoItems]
Broken == [kind |-> "broken", tree |-> NoItems]

Laid(update, base) ==
    [k \in DOMAIN base \cup DOMAIN update |-> IF k \in DOMAIN update THEN update[k] ELSE base[k]]

\* Mutant: the section of the update replaces the section there was.
Replaced(base, update) == Laid(update, base)

\* _deep_merge(): two sections are merged, anything else is replaced.
DeepMerge(base, update) ==
    LET both(k) == k \in DOMAIN base /\ k \in DOMAIN update /\ base[k].dict /\ update[k].dict
    IN [k \in DOMAIN base \cup DOMAIN update |->
            IF both(k) THEN Dict(Laid(update[k].items, base[k].items))
            ELSE IF k \in DOMAIN update THEN update[k] ELSE base[k]]

\* One variable of the environment or line of an .env file, its name cut at the
\* underscores: a setting under what is not a section is a TypeError.
Assignable(tree, path) == Len(path) = 1 \/ path[1] \notin DOMAIN tree \/ tree[path[1]].dict

Assigned(tree, var) ==
    LET k == var.path[1]
        under == IF k \in DOMAIN tree THEN tree[k].items ELSE NoItems
        node == IF Len(var.path) = 1 THEN Leaf(var.value) ELSE Dict((var.path[2] :> var.value) @@ under)
    IN (k :> node) @@ tree

\* _load_env_vars() and _parse_env_file(): the variables one after the other,
\* up to the first that is a TypeError.
Variables(vars) ==
    FoldLeft(LAMBDA acc, var : IF acc.ok /\ Assignable(acc.tree, var.path)
                               THEN [ok |-> TRUE, tree |-> Assigned(acc.tree, var)]
                               ELSE [ok |-> FALSE, tree |-> acc.tree],
             [ok |-> TRUE, tree |-> NoItems], vars)

\* ShannonConfig(**merged): a section that has become a setting is refused.
Sections == {"logging"}
Valid(tree) == \A k \in Sections \cap DOMAIN tree : tree[k].dict

HotReload(tree) == "hot" \notin DOMAIN tree \/ tree["hot"].value # "off"

-----------------------------------------------------------------------------
(* The loader *)

ConfigTypeOK ==
    /\ \A s \in Source : holds[s].kind \in {"tree", "missing", "broken"}
    /\ \A k \in DOMAIN sources : sources[k] \in Source
    /\ config.kind \in {"tree", "missing"} /\ loading \in BOOLEAN
    /\ \A k \in DOMAIN observers : observers[k] \in SourceFile
    /\ dead \subseteq DOMAIN observers
    /\ loads \in 0 .. MaxLoads /\ changes \in 0 .. MaxChanges

ConfigInit ==
    /\ holds \in [Source -> Contents]
    /\ \A s \in Source \ SourceFile : holds[s].kind = "tree"
    /\ environ \in Environment
    /\ sources = <<>> /\ config = Missing /\ loading = FALSE
    /\ observers = <<>> /\ dead = {} /\ loads = 0 /\ changes = 0 /\ merged = <<>>

\* add_source(): appended, and sorted by priority, the highest first; the sort
\* keeps the order of equal ones.
AddSource(s) ==
    /\ s \notin ToSet(sources)
    /\ LET before == {x \in Source : Priority[x] >= Priority[s]}
       IN sources' = OnlyIn(sources, before) \o <<s>> \o OnlyIn(sources, Source \ before)
    /\ UNCHANGED <<holds, environ, config, loading, observers, dead, loads, changes, merged>>

\* A failure of a source of priority above 100 fails the load.
CriticalFails == \E k \in DOMAIN sources : holds[sources[k]].kind = "broken" /\ Priority[sources[k]] > 100

\* What is merged, in order: the sources as they are sorted, without those that
\* failed, and the environment.
Trees ==
    LET kept == OnlyIn(sources, {s \in Source : holds[s].kind # "broken"})
    IN [k \in DOMAIN kept |-> [tree |-> holds[kept[k]].tree, priority |-> Priority[kept[k]]]]
         \o <<[tree |-> Variables(environ).tree, priority |-> 0]>>

Merge(trees) ==
    LET upto[n \in 0 .. Len(trees)] == IF n = 0 THEN NoItems ELSE DeepMerge(upto[n - 1], trees[n].tree)
    IN upto[Len(trees)]

\* load(), up to its event: the sources are read, merged and validated.  A load
\* that fails leaves the configuration there was.
LoadConfig ==
    /\ ~loading /\ loads < MaxLoads /\ loads' = loads + 1
    /\ LET fails == CriticalFails \/ ~Variables(environ).ok \/ ~Valid(Merge(Trees))
       IN IF fails THEN UNCHANGED <<config, loading, merged>>
          ELSE /\ config' = Parsed(Merge(Trees))
               /\ merged' = Trees
               /\ loading' = TRUE
    /\ UNCHANGED <<holds, environ, sources, observers, dead, changes>>

\* The rest of load(): _setup_hot_reload() starts an observer of every source
\* that is a file and exists, also of those an earlier load had started.
SetupHotReload ==
    /\ loading /\ loading' = FALSE
    /\ observers' = IF HotReload(config.tree)
                    THEN observers \o OnlyIn(sources, {s \in SourceFile : holds[s].kind # "missing"})
                    ELSE observers
    /\ UNCHANGED <<holds, environ, sources, config, dead, loads, changes, merged>>

\* A file is written.  on_modified() runs in the thread of the observer, where no
\* event loop is running: create_task() raises, the thread ends, nothing is reloaded.
FileChanges(s) ==
    /\ s \in SourceFile /\ changes < MaxChanges /\ changes' = changes + 1
    /\ \E c \in Contents \ {Missing} : c # holds[s] /\ holds' = [holds EXCEPT ![s] = c]
    /\ dead' = dead \cup {k \in DOMAIN observers : observers[k] = s}
    /\ UNCHANGED <<environ, sources, config, loading, observers, loads, merged>>

\* shutdown(): every observer is stopped, joined, and forgotten.
StopObservers ==
    /\ observers # <<>> /\ observers' = <<>> /\ dead' = {}
    /\ UNCHANGED <<holds, environ, sources, config, loading, loads, changes, merged>>

ConfigNext ==
    \/ \E s \in Source : AddSource(s) \/ FileChanges(s)
    \/ LoadConfig \/ SetupHotReload \/ StopObservers

-----------------------------------------------------------------------------
(* Properties *)

\* A tree decides about a setting of a section: it has a value for it, or says
\* that the section has no settings.
Decides(tree, k, i) == k \in DOMAIN tree /\ (tree[k].dict => i \in DOMAIN tree[k].items)
HasValue(tree, k, i, v) == k \in DOMAIN tree /\ tree[k].dict /\ i \in DOMAIN tree[k].items /\ tree[k].items[i] = v

\* Every setting of a section has the value of the last tree merged that
\* decides about it, and a section keeps the settings the later trees do not
\* mention (_deep_merge()).
LastOneWins ==
    \A k \in Sections, i \in {"level", "path"}, n \in DOMAIN merged :
        LET tree == merged[n].tree
        IN /\ Decides(tree, k, i) /\ tree[k].dict
           /\ \A m \in DOMAIN merged : Decides(merged[m].tree, k, i) => m <= n
           => HasValue(config.tree, k, i, tree[k].items[i])

\* "priority: Source priority (higher wins)".  Not so: the sources are merged
\* from the highest priority down, and each overrides those before it.
HigherWins ==
    \A k \in Sections, i \in {"level", "path"} :
        LET tree(n) == merged[n].tree
            deciding == {n \in DOMAIN merged : Decides(tree(n), k, i)}
            higher(n) == \A m \in deciding \ {n} : merged[m].priority < merged[n].priority
        IN (\A n \in deciding : n < Len(merged) /\ tree(n)[k].dict) =>
               \A n \in deciding : higher(n) => HasValue(config.tree, k, i, tree(n)[k].items[i])

\* A file has one observer.  Not so: every load starts another.
OneObserver == \A j, k \in DOMAIN observers : j # k => observers[j] # observers[k]
==============================================================================
