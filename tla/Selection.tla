------------------------------- MODULE Selection -------------------------------
(***************************************************************************)
(* Which plugins the user wants, and from where: selection.json            *)
(* (config.rs), sources.json (catalog/sources.rs), the catalog built from  *)
(* them (kinde.rs: catalog_req, build_refs_cached) and the two readers of  *)
(* them in a launch (kinde.rs: reconcile_plugin_selection; grafana.rs:     *)
(* build_resolved_plugins).                                                *)
(*                                                                         *)
(* Every writer reads the file, changes what it read, truncates the file   *)
(* and writes it.  Nothing locks it.  The selection is written by the main *)
(* thread (the plugins view) and by launches; the sources by commands that *)
(* run concurrently with each other.  The web answers any request or none. *)
(***************************************************************************)
EXTENDS FiniteSets

CONSTANTS
  Plugin,
  Required,   \* the plugins every instance has (catalog/mod.rs)
  Official,   \* manifest URLs of the marketplace list
  Url,        \* manifest URLs users may add
  Provides,   \* the plugin each manifest is about
  Launch, SourceTask,
  MainThread

ASSUME SelectionAssumption ==
  /\ Required \subseteq Plugin
  /\ MainThread \notin Launch \cup Plugin \cup Url
  /\ Launch \cap SourceTask = {}
  /\ Provides \in [Official \cup Url -> Plugin]

VARIABLES
  file,     \* the two files
  job,      \* what each writer of a file is doing
  reader,   \* where each launch is, and what it read
  cache,    \* REFS_CACHE
  wanted,   \* history: the optional plugins the user chose
  added,    \* history: the sources the user added
  raced,    \* history: files written by one who had read what another replaced
  lost      \* history: files a crash left torn

vars == <<file, job, reader, cache, wanted, added, raced, lost>>

(***************************************************************************)
(* State                                                                   *)
(***************************************************************************)

File == {"selection", "sources"}
Writer == {MainThread} \cup SourceTask \cup Launch
Manifest == Official \cup Url

\* "torn": truncated, or two contents over each other; it does not parse.
FileState == [st : {"missing", "torn", "whole"}, ids : SUBSET (Plugin \cup Url)]

\* stale: another wrote the file since it was read; mixed: since it was truncated.
Job == [pc : {"idle", "read", "truncate", "write"}, file : File,
        drop : BOOLEAN, id : Plugin \cup Url \cup {MainThread},
        ids : SUBSET (Plugin \cup Url), stale : BOOLEAN, mixed : BOOLEAN]

JobAt(pc, f, drop, id, ids) ==
  [pc |-> pc, file |-> f, drop |-> drop, id |-> id, ids |-> ids,
   stale |-> FALSE, mixed |-> FALSE]
NoJob == JobAt("idle", "selection", FALSE, MainThread, {})

ReaderState ==
  [pc : {"idle", "sources", "lookup", "store", "installed", "seed", "heal",
         "write", "resolve", "select", "done", "failed"},
   key : SUBSET Url, refs : SUBSET Manifest, found : SUBSET Plugin]

ReaderAt(pc, key, refs, found) ==
  [pc |-> pc, key |-> key, refs |-> refs, found |-> found]
Failed == ReaderAt("failed", {}, {}, {})
Idle == ReaderAt("idle", {}, {}, {})

TypeOK ==
  /\ file \in [File -> FileState]
  /\ job \in [Writer -> Job]
  /\ reader \in [Launch -> ReaderState]
  /\ cache \in [ok : BOOLEAN, key : SUBSET Url, refs : SUBSET Manifest]
  /\ wanted \in SUBSET (Plugin \ Required) /\ added \in SUBSET Url
  /\ raced \in SUBSET File /\ lost \in SUBSET File

NoCache == [ok |-> FALSE, key |-> {}, refs |-> {}]

Init ==
  /\ file = [f \in File |-> [st |-> "missing", ids |-> {}]]
  /\ job = [w \in Writer |-> NoJob]
  /\ reader = [r \in Launch |-> Idle]
  /\ cache = NoCache
  /\ wanted = {} /\ added = {} /\ raced = {} /\ lost = {}

(***************************************************************************)
(* Reading and writing the files                                           *)
(***************************************************************************)

\* read_selection_in, read_sources_in: a missing file reads as empty, a torn
\* one is an error.
Readable(f) == file[f].st # "torn"

\* std::fs::write truncates ...
Truncate(w) ==
  /\ job[w].pc = "truncate"
  /\ file' = [file EXCEPT ![job[w].file] = [st |-> "torn", ids |-> {}]]
  /\ job' = [job EXCEPT ![w].pc = "write"]
  /\ UNCHANGED <<reader, cache, wanted, added, raced, lost>>

\* Another has written the file that j is about to truncate or to write.
Overtaken(j) ==
  [pc |-> j.pc, file |-> j.file, drop |-> j.drop, id |-> j.id, ids |-> j.ids,
   stale |-> TRUE, mixed |-> j.mixed \/ j.pc = "write"]

\* ... and then writes.
Written(w) ==
  LET f == job[w].file IN
  /\ \E st \in {"whole"} \cup (IF job[w].mixed THEN {"torn"} ELSE {}) :
       file' = [file EXCEPT ![f] = [st |-> st, ids |-> job[w].ids]]
  /\ job' = [u \in Writer |-> IF u = w THEN NoJob
               ELSE IF job[u].file = f /\ job[u].pc \in {"truncate", "write"}
               THEN Overtaken(job[u])
               ELSE job[u]]
  /\ raced' = IF job[w].stale THEN raced \cup {f} ELSE raced

Begin(w, f, id, drop, pc) ==
  /\ job[w].pc = "idle"
  /\ job' = [job EXCEPT ![w] = JobAt(pc, f, drop, id, {})]

\* Mutant: a file that does not parse reads as an empty one.
ReadFile_or_empty(w) ==
  /\ job[w].pc = "read"
  /\ LET j == job[w] f == j.file
         ids == IF Readable(f) THEN file[f].ids ELSE {} IN
       job' = [job EXCEPT ![w] =
         JobAt("truncate", f, j.drop, j.id,
               IF j.drop THEN ids \ {j.id} ELSE ids \cup {j.id})]
  /\ UNCHANGED <<file, reader, cache, wanted, added, raced, lost>>

\* Adding what is there and removing what is not are refused for sources, and
\* make no difference to the selection.
ReadFile(w) ==
  /\ job[w].pc = "read"
  /\ LET j == job[w] f == j.file ids == file[f].ids IN
       job' = [job EXCEPT ![w] =
         IF ~Readable(f) \/ (f = "sources" /\ (j.id \in ids) # j.drop) THEN NoJob
         ELSE JobAt("truncate", f, j.drop, j.id,
                    IF j.drop THEN ids \ {j.id} ELSE ids \cup {j.id})]
  /\ UNCHANGED <<file, reader, cache, wanted, added, raced, lost>>

(***************************************************************************)
(* The commands of the plugins view                                        *)
(***************************************************************************)

\* The main thread runs one command at a time.
set_plugin_selection(p, selected) ==
  /\ Begin(MainThread, "selection", p, ~selected, "read")
  /\ UNCHANGED <<file, reader, cache, wanted, added, raced, lost>>

\* Initialises a missing file to what is installed: nothing, as the view
\* calls it before it knows (queries.ts).
seed_plugin_selection ==
  /\ file["selection"].st = "missing"
  /\ Begin(MainThread, "selection", MainThread, FALSE, "truncate")
  /\ UNCHANGED <<file, reader, cache, wanted, added, raced, lost>>

\* From the moment the manifest is fetched: the file is read after that, and
\* nothing happens if it cannot be fetched.
add_source(s, u) ==
  /\ Begin(s, "sources", u, FALSE, "read")
  /\ UNCHANGED <<file, reader, cache, wanted, added, raced, lost>>

remove_source(s, u) ==
  /\ Begin(s, "sources", u, TRUE, "read")
  /\ UNCHANGED <<file, reader, cache, wanted, added, raced, lost>>

\* A command ends; what the user asked for is done.
Finish(w) ==
  /\ job[w].pc = "write" /\ w \notin Launch
  /\ Written(w)
  /\ LET j == job[w]
         Now(S) == IF j.drop THEN S \ {j.id} ELSE S \cup {j.id} IN
       IF j.file = "sources" THEN added' = Now(added) /\ UNCHANGED wanted
       ELSE /\ wanted' = IF j.id \in Plugin \ Required THEN Now(wanted) ELSE wanted
            /\ UNCHANGED added
  /\ UNCHANGED <<reader, cache, lost>>

(***************************************************************************)
(* The catalog                                                             *)
(***************************************************************************)

ReaderGoto(r, pc) == reader' = [reader EXCEPT ![r].pc = pc]
ReaderOnly == UNCHANGED <<file, job, wanted, added, raced, lost>>

\* The marketplace list is there or not (ListClient::fetch), and so is every
\* manifest (PluginClient::fetch): what cannot be fetched is left out.
fetch_list == {Official, {}}
fetched(urls) == SUBSET urls
build_plugin_refs(key) == UNION {fetched(urls \cup key) : urls \in fetch_list}

\* The catalog has the plugins whose newest version has an OCI manifest that
\* answers (ref_to_plugin).
fetch_oci_manifest(refs) == SUBSET refs
list(refs) == {{Provides[m] : m \in found} : found \in fetch_oci_manifest(refs)}

Start(r) ==
  /\ reader[r].pc \in {"idle", "done", "failed"}
  /\ reader' = [reader EXCEPT ![r] = ReaderAt("sources", {}, {}, {})]
  /\ ReaderOnly /\ UNCHANGED cache

ReadSources(r) ==
  /\ reader[r].pc = "sources"
  /\ reader' = [reader EXCEPT ![r] =
       IF Readable("sources")
       THEN ReaderAt("lookup", file["sources"].ids, {}, {})
       ELSE Failed]
  /\ ReaderOnly /\ UNCHANGED cache

\* Mutant: the key leaves out the sources.
cache_hit_any(key) == cache.ok

\* The entry is for these sources and less than a minute old.
cache_hit(key) == cache.ok /\ cache.key = key

Lookup(r) ==
  /\ reader[r].pc = "lookup"
  /\ LET s == reader[r] IN
     \/ /\ cache_hit(s.key)
        /\ reader' = [reader EXCEPT ![r] =
             ReaderAt("installed", s.key, cache.refs, {})]
     \/ /\ ~cache_hit(s.key)
        /\ \E refs \in build_plugin_refs(s.key) :
             reader' = [reader EXCEPT ![r] = ReaderAt("store", s.key, refs, {})]
  /\ ReaderOnly /\ UNCHANGED cache

Store(r) ==
  /\ reader[r].pc = "store"
  /\ cache' = [ok |-> TRUE, key |-> reader[r].key, refs |-> reader[r].refs]
  /\ ReaderGoto(r, "installed")
  /\ ReaderOnly

\* REFS_TTL passes.
Expire ==
  /\ cache.ok /\ cache' = NoCache
  /\ reader' = reader /\ ReaderOnly

\* catalog_req resolves what it has and reads the selection last; the launch
\* wants to know which of the plugins are required.
Installed(r) ==
  /\ reader[r].pc = "installed"
  /\ \E found \in list(reader[r].refs) :
       reader' = [reader EXCEPT ![r] =
         IF Readable("selection") THEN ReaderAt("seed", {}, {}, found \cap Required)
         ELSE Failed]
  /\ ReaderOnly /\ UNCHANGED cache

\* A view of the catalog or of a plugin's versions goes through the same cache.
\* It read the sources at some time before: any set of them.
View ==
  /\ \E key \in SUBSET Url : \E refs \in build_plugin_refs(key) :
       ~cache_hit(key) /\ cache' = [ok |-> TRUE, key |-> key, refs |-> refs]
  /\ reader' = reader /\ ReaderOnly

catalog_req(r) == ReadSources(r) \/ Lookup(r) \/ Store(r) \/ Installed(r)

(***************************************************************************)
(* A launch                                                                *)
(***************************************************************************)

\* Launch r writes ids to the selection.
Put(r, ids) ==
  job' = [job EXCEPT ![r] = JobAt("truncate", "selection", FALSE, MainThread, ids)]

LaunchOnly == UNCHANGED <<file, cache, wanted, added, raced, lost>>

\* Mutant: the seed does not ask whether the file is there.
Seed_always(r) ==
  /\ reader[r].pc = "seed"
  /\ Put(r, {}) /\ ReaderGoto(r, "heal")
  /\ LaunchOnly

Seed(r) ==
  /\ reader[r].pc = "seed"
  /\ IF file["selection"].st = "missing" THEN Put(r, {}) ELSE UNCHANGED job
  /\ ReaderGoto(r, "heal")
  /\ LaunchOnly

\* Reads the selection and adds what the catalog says is required.
Heal(r) ==
  /\ reader[r].pc = "heal" /\ job[r].pc = "idle"
  /\ IF Readable("selection")
     THEN /\ Put(r, file["selection"].ids \cup reader[r].found)
          /\ reader' = [reader EXCEPT ![r] = ReaderAt("write", {}, {}, {})]
     ELSE ReaderGoto(r, "failed") /\ UNCHANGED job
  /\ LaunchOnly

LaunchWrite(r) ==
  /\ job[r].pc = "write" /\ Written(r)
  /\ ReaderGoto(r, IF reader[r].pc = "write" THEN "resolve" ELSE reader[r].pc)
  /\ UNCHANGED <<cache, wanted, added, lost>>

\* build_resolved_plugins starts over: the sources, the web, the selection.
Resolve(r) ==
  /\ reader[r].pc = "resolve"
  /\ IF Readable("sources")
     THEN LET key == file["sources"].ids IN
          \E refs \in build_plugin_refs(key) : \E found \in list(refs) :
            reader' = [reader EXCEPT ![r] =
              ReaderAt("select", {}, {}, found)]
     ELSE ReaderGoto(r, "failed")
  /\ ReaderOnly /\ UNCHANGED cache

Select(r) ==
  /\ reader[r].pc = "select"
  /\ reader' = [reader EXCEPT ![r] =
       IF Readable("selection")
       THEN ReaderAt("done", {}, {},
                     reader[r].found \cap (Required \cup file["selection"].ids))
       ELSE Failed]
  /\ ReaderOnly /\ UNCHANGED cache

reconcile_plugin_selection(r) == Seed(r) \/ Heal(r) \/ LaunchWrite(r)
build_resolved_plugins(r) == Resolve(r) \/ Select(r)

(***************************************************************************)
(* Specification                                                           *)
(***************************************************************************)

\* The shell is killed: what is being written stays as it is.
Kill ==
  /\ job' = [w \in Writer |-> NoJob]
  /\ reader' = [r \in Launch |-> Idle]
  /\ cache' = NoCache
  /\ lost' = {f \in File : ~Readable(f)}
  /\ UNCHANGED <<file, wanted, added, raced>>

WriterStep(w) == ReadFile(w) \/ Truncate(w) \/ Finish(w)

Next ==
  \/ \E p \in Plugin \ Required, b \in BOOLEAN : set_plugin_selection(p, b)
  \/ seed_plugin_selection
  \/ \E s \in SourceTask, u \in Url : add_source(s, u) \/ remove_source(s, u)
  \/ \E w \in Writer : WriterStep(w)
  \/ \E r \in Launch : Start(r) \/ catalog_req(r)
  \/ \E r \in Launch : reconcile_plugin_selection(r) \/ build_resolved_plugins(r)
  \/ View \/ Expire \/ Kill

Spec == Init /\ [][Next]_vars

(***************************************************************************)
(* Properties                                                              *)
(***************************************************************************)

\* What the user asked for, and what of a file's entries answers to it.
Chosen(f) == IF f = "sources" THEN added ELSE wanted
Optional(f, ids) == IF f = "sources" THEN ids ELSE ids \ Required

\* Unless two writers overlapped on it, a file that parses says what the user
\* chose, of plugins as of sources: no launch (which seeds and heals the
\* selection), no crash and no catalog that came back short adds or drops any
\* (kinde.rs: reconcile_plugin_selection; config.rs; catalog/sources.rs).
ChoicesKept ==
  \A f \in File \ raced :
    file[f].st = "whole" => Optional(f, file[f].ids) = Chosen(f)

\* The catalog a reader gets comes from the sources it read: a source removed
\* before is not served from the cache, whoever filled it.
CatalogOfItsSources ==
  \A r \in Launch : reader[r].refs \subseteq Official \cup reader[r].key

\* A file a crash left torn is never taken for an empty one and written over:
\* no launch and no command replaces the user's choices by what an unreadable
\* file would seem to say.  (Nor does any of them repair it.)
TornIsKept == \A f \in lost : file[f].st = "torn"
================================================================================
