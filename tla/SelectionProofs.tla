---------------------------- MODULE SelectionProofs ----------------------------
(***************************************************************************)
(* What the files of Selection say is what the user chose, for any sets of *)
(* plugins, sources, launches and commands, and any number of steps.       *)
(***************************************************************************)
EXTENDS Selection, TLAPS

\* A writer that has read the file and will replace it.
Replaces(j) == j.pc \in {"truncate", "write"}

\* What the user will have chosen when job j has ended.
Intended(j) ==
  IF j.file = "sources" \/ j.id \in Plugin \ Required
  THEN IF j.drop THEN Chosen(j.file) \ {j.id} ELSE Chosen(j.file) \cup {j.id}
  ELSE Chosen(j.file)

\* A file whose writers never overlapped says what was chosen; a torn one may
\* have been left so by a crash; one never written is empty.
FileInv(f) ==
  /\ f \in lost => file[f].st = "torn"
  /\ file[f].st = "missing" => file[f].ids = {}
  /\ f \notin raced /\ file[f].st # "torn" => Optional(f, file[f].ids) = Chosen(f)
  /\ f = "sources" => file[f].ids \subseteq Url

\* Launches write the selection and choose nothing.  A job begins with a choice;
\* what it is about to write is what the user will then have chosen, unless it
\* read what has been replaced.  Nothing is written over what a crash left.
JobInv(w, j) ==
  /\ w \in Launch => j.file = "selection" /\ j.id = MainThread
  /\ j.pc = "read" => j.id \in IF j.file = "sources" THEN Url ELSE Plugin \ Required
  /\ j.file = "sources" => j.id \in Url /\ j.ids \subseteq Url
  /\ Replaces(j) => j.file \notin lost
  /\ Replaces(j) /\ ~j.stale /\ j.file \notin raced => Optional(j.file, j.ids) = Intended(j)

\* What a launch holds of the catalog comes from the sources it read; what it
\* adds to the selection is required.
ReaderInv(s) ==
  /\ s.refs \subseteq Official \cup s.key
  /\ s.pc \in {"seed", "heal"} => s.found \subseteq Required

CacheInv == cache.refs \subseteq Official \cup cache.key

IInv ==
  /\ TypeOK
  /\ \A f \in File : FileInv(f)
  /\ \A w \in Writer : JobInv(w, job[w])
  /\ \A r \in Launch : ReaderInv(reader[r])
  /\ CacheInv

LEMMA NoJobIsJob == NoJob \in Job /\ \A w : JobInv(w, NoJob)
BY SelectionAssumption DEF NoJob, JobAt, Job, File, JobInv, Replaces

LEMMA InitIInv == Init => IInv
<1> SUFFICES ASSUME Init PROVE IInv
  OBVIOUS
<1> USE SelectionAssumption
<1>1. TypeOK
  <2>1. file \in [File -> FileState]
    BY DEF Init, File, FileState
  <2>2. job \in [Writer -> Job]
    BY NoJobIsJob DEF Init
  <2>3. reader \in [Launch -> ReaderState]
    BY DEF Init, Idle, ReaderAt, ReaderState
  <2>4. cache \in [ok : BOOLEAN, key : SUBSET Url, refs : SUBSET Manifest]
    BY DEF Init, NoCache
  <2> QED
    BY <2>1, <2>2, <2>3, <2>4 DEF Init, TypeOK
<1>2. \A f \in File : FileInv(f)
  BY DEF Init, FileInv, Optional, Chosen
<1>3. \A w \in Writer : JobInv(w, job[w])
  BY NoJobIsJob DEF Init
<1>4. \A r \in Launch : ReaderInv(reader[r])
  BY DEF Init, Idle, ReaderAt, ReaderInv
<1>5. CacheInv
  BY DEF Init, NoCache, CacheInv
<1> QED
  BY <1>1, <1>2, <1>3, <1>4, <1>5 DEF IInv

-----------------------------------------------------------------------------
(***************************************************************************)
(* Steps that change one thing                                             *)
(***************************************************************************)

\* A launch reads or looks something up; the files are left alone.
LEMMA ReaderStep ==
  ASSUME IInv, NEW r \in Launch, NEW s \in ReaderState, ReaderInv(s),
         reader' = [reader EXCEPT ![r] = s], ReaderOnly,
         \/ UNCHANGED cache
         \/ /\ cache' \in [ok : BOOLEAN, key : SUBSET Url, refs : SUBSET Manifest]
            /\ cache'.refs \subseteq Official \cup cache'.key
  PROVE  IInv'
<1> USE DEF ReaderOnly
<1>1. TypeOK'
  <2>1. reader' \in [Launch -> ReaderState]
    BY DEF IInv, TypeOK
  <2>2. cache' \in [ok : BOOLEAN, key : SUBSET Url, refs : SUBSET Manifest]
    BY DEF IInv, TypeOK
  <2> QED
    BY <2>1, <2>2 DEF IInv, TypeOK
<1>2. \A f \in File : FileInv(f)'
  BY DEF IInv, FileInv, Chosen, Optional
<1>3. \A w \in Writer : JobInv(w, job[w])'
  BY DEF IInv, JobInv, Replaces, Intended, Chosen, Optional
<1>4. \A q \in Launch : ReaderInv(reader[q])'
  BY DEF IInv, TypeOK, ReaderInv
<1>5. CacheInv'
  BY DEF IInv, CacheInv
<1> QED
  BY <1>1, <1>2, <1>3, <1>4, <1>5 DEF IInv

\* A writer takes a step in memory, perhaps with its launch.
LEMMA JobStep ==
  ASSUME IInv, NEW w \in Writer, NEW j \in Job, JobInv(w, j),
         job' = [job EXCEPT ![w] = j],
         \/ UNCHANGED reader
         \/ \E r \in Launch, s \in ReaderState :
              ReaderInv(s) /\ reader' = [reader EXCEPT ![r] = s],
         UNCHANGED <<file, cache, wanted, added, raced, lost>>
  PROVE  IInv'
<1>1. TypeOK'
  <2>1. job' \in [Writer -> Job]
    BY DEF IInv, TypeOK
  <2>2. reader' \in [Launch -> ReaderState]
    BY DEF IInv, TypeOK
  <2> QED
    BY <2>1, <2>2 DEF IInv, TypeOK
<1>2. \A f \in File : FileInv(f)'
  BY DEF IInv, FileInv, Chosen, Optional
<1>3. \A u \in Writer : JobInv(u, job[u])'
  <2> SUFFICES ASSUME NEW u \in Writer PROVE JobInv(u, job[u])'
    OBVIOUS
  <2>1. job'[u] = IF u = w THEN j ELSE job[u]
    BY DEF IInv, TypeOK
  <2>2. JobInv(u, job'[u])
    BY <2>1 DEF IInv
  <2> QED
    BY <2>2 DEF JobInv, Replaces, Intended, Chosen, Optional
<1>4. \A q \in Launch : ReaderInv(reader[q])'
  BY DEF IInv, TypeOK, ReaderInv
<1>5. CacheInv'
  BY DEF IInv, CacheInv
<1> QED
  BY <1>1, <1>2, <1>3, <1>4, <1>5 DEF IInv

-----------------------------------------------------------------------------
(***************************************************************************)
(* The commands                                                            *)
(***************************************************************************)

\* A command or the seed of the plugins view begins.
LEMMA Begins ==
  ASSUME IInv, NEW w \in Writer \ Launch, NEW f \in File,
         NEW id \in Plugin \cup Url \cup {MainThread}, NEW drop \in BOOLEAN,
         NEW pc \in {"read", "truncate"}, Begin(w, f, id, drop, pc),
         f = "sources" => id \in Url,
         pc = "read" => id \in IF f = "sources" THEN Url ELSE Plugin \ Required,
         pc = "truncate" => /\ f = "selection" /\ id = MainThread
                            /\ file["selection"].st = "missing",
         UNCHANGED <<file, reader, cache, wanted, added, raced, lost>>
  PROVE  IInv'
<1> DEFINE j == JobAt(pc, f, drop, id, {})
<1>1. j \in Job
  BY DEF JobAt, Job
<1>2. JobInv(w, j)
  <2>1. /\ j.pc = pc /\ j.file = f /\ j.drop = drop /\ j.id = id /\ j.ids = {}
        /\ j.stale = FALSE
    BY DEF JobAt
  <2>2. CASE pc = "read"
    BY <2>1, <2>2 DEF JobInv, Replaces
  <2>3. CASE pc = "truncate"
    <3>1. FileInv("selection")
      BY DEF IInv, File
    <3>2. id \notin Plugin
      BY <2>3, SelectionAssumption
    <3>3. f \notin raced => Optional(f, {}) = Chosen(f)
      BY <2>3, <3>1 DEF FileInv
    <3>4. Intended(j) = Chosen(f)
      BY <2>1, <2>3, <3>2 DEF Intended
    <3>5. f \notin lost
      BY <2>3, <3>1 DEF FileInv
    <3> QED
      BY <2>1, <2>3, <3>3, <3>4, <3>5 DEF JobInv, Replaces
  <2> QED
    BY <2>2, <2>3
<1>3. job' = [job EXCEPT ![w] = j]
  BY DEF Begin
<1> HIDE DEF j
<1> QED
  BY <1>1, <1>2, <1>3, JobStep

\* What a command reads is what was chosen, so that what it will write is what
\* will have been chosen.
LEMMA ReadFileKeeps ==
  ASSUME IInv, NEW w \in Writer, ReadFile(w)
  PROVE  IInv'
<1> DEFINE j == job[w]
           f == j.file
           ids == file[f].ids
           new == IF j.drop THEN ids \ {j.id} ELSE ids \cup {j.id}
           k == JobAt("truncate", f, j.drop, j.id, new)
<1>1. /\ j \in Job /\ f \in File /\ file[f] \in FileState /\ j.pc = "read"
      /\ JobInv(w, j) /\ FileInv(f) /\ wanted \subseteq Plugin \ Required
  BY DEF IInv, TypeOK, ReadFile, Job
<1>2. j.id \in IF f = "sources" THEN Url ELSE Plugin \ Required
  BY <1>1 DEF JobInv
<1>3. CASE job' = [job EXCEPT ![w] = NoJob]
  BY <1>3, NoJobIsJob, JobStep DEF ReadFile
<1>4. CASE Readable(f) /\ job' = [job EXCEPT ![w] = k]
  <2>1. /\ k.pc = "truncate" /\ k.file = f /\ k.drop = j.drop /\ k.id = j.id
        /\ k.ids = new /\ k.stale = FALSE
    BY DEF JobAt
  <2>2. new \in SUBSET (Plugin \cup Url)
    BY <1>1, <1>2 DEF FileState
  <2>3. k \in Job
    <3>1. j.drop \in BOOLEAN /\ j.id \in Plugin \cup Url \cup {MainThread}
      BY <1>1 DEF Job
    <3> QED
      BY <1>1, <2>2, <3>1 DEF JobAt, Job
  <2>4. f = "sources" => new \subseteq Url
    BY <1>1, <1>2 DEF FileInv
  <2>5. f \notin lost
    BY <1>1, <1>4 DEF FileInv, Readable
  <2>6. ASSUME f \notin raced
        PROVE  Optional(f, new) = Intended(k)
    <3>1. Optional(f, ids) = Chosen(f)
      BY <1>1, <1>4, <2>6 DEF FileInv, Readable
    <3>2. CASE f = "sources"
      BY <2>1, <3>1, <3>2 DEF Intended, Optional
    <3>3. CASE f = "selection"
      BY <1>2, <2>1, <3>1, <3>3 DEF Intended, Optional
    <3> QED
      BY <1>1, <3>2, <3>3 DEF File
  <2>7. JobInv(w, k)
    BY <1>1, <1>2, <2>1, <2>4, <2>5, <2>6 DEF JobInv, Replaces
  <2> HIDE DEF k
  <2> QED
    BY <1>4, <2>3, <2>7, JobStep DEF ReadFile
<1>5. job' = [job EXCEPT ![w] = NoJob] \/ (Readable(f) /\ job' = [job EXCEPT ![w] = k])
  BY DEF ReadFile
<1> QED
  BY <1>3, <1>4, <1>5

LEMMA TruncateKeeps ==
  ASSUME IInv, NEW w \in Writer, Truncate(w)
  PROVE  IInv'
<1> DEFINE j == job[w]
           f == j.file
           torn == [st |-> "torn", ids |-> {}]
<1>1. /\ j \in Job /\ f \in File /\ j.pc = "truncate" /\ JobInv(w, j)
  BY DEF IInv, TypeOK, Truncate, Job
<1>2. /\ file' = [file EXCEPT ![f] = torn]
      /\ job' = [job EXCEPT ![w].pc = "write"]
      /\ UNCHANGED <<reader, cache, wanted, added, raced, lost>>
  BY DEF Truncate
<1>3. job'[w] = [j EXCEPT !.pc = "write"] /\ \A u \in Writer \ {w} : job'[u] = job[u]
  BY <1>2 DEF IInv, TypeOK
<1>4. job' \in [Writer -> Job]
  BY <1>1, <1>2 DEF IInv, TypeOK, Job
<1>5. torn \in FileState
  BY DEF FileState
<1>6. TypeOK'
  BY <1>1, <1>2, <1>4, <1>5 DEF IInv, TypeOK
<1>7. \A g \in File : FileInv(g)'
  <2> SUFFICES ASSUME NEW g \in File PROVE FileInv(g)'
    OBVIOUS
  <2>1. file'[g] = IF g = f THEN torn ELSE file[g]
    BY <1>2 DEF IInv, TypeOK
  <2>2. FileInv(g)
    BY DEF IInv
  <2> QED
    BY <1>2, <2>1, <2>2 DEF FileInv, Optional, Chosen
<1>8. \A u \in Writer : JobInv(u, job[u])'
  <2> SUFFICES ASSUME NEW u \in Writer PROVE JobInv(u, job[u])'
    OBVIOUS
  <2>1. JobInv(u, job'[u])
    <3>1. CASE u = w
      <4>1. LET k == job'[w] IN
            /\ k.pc = "write" /\ k.file = f /\ k.drop = j.drop /\ k.id = j.id
            /\ k.ids = j.ids /\ k.stale = j.stale
        BY <1>1, <1>3 DEF Job
      <4> QED
        BY <1>1, <3>1, <4>1 DEF JobInv, Replaces, Intended
    <3>2. CASE u # w
      BY <1>3, <3>2 DEF IInv
    <3> QED
      BY <3>1, <3>2
  <2> QED
    BY <1>2, <2>1 DEF JobInv, Replaces, Intended, Chosen, Optional
<1>9. (\A r \in Launch : ReaderInv(reader[r])') /\ CacheInv'
  BY <1>2 DEF IInv, ReaderInv, CacheInv
<1> QED
  BY <1>6, <1>7, <1>8, <1>9 DEF IInv

LEMMA OvertakenFields ==
  ASSUME NEW j
  PROVE  LET k == Overtaken(j) IN
         /\ k.pc = j.pc /\ k.file = j.file /\ k.id = j.id /\ k.ids = j.ids
         /\ k.stale = TRUE
BY DEF Overtaken

\* A file is written: what it then says is what was chosen, unless its writer
\* had read what another replaced, and whoever is about to replace it has.
LEMMA WrittenKeeps ==
  ASSUME IInv, NEW w \in Writer, NEW j, NEW f, job[w] = j, j.file = f,
         j.pc = "write", Written(w),
         \/ UNCHANGED reader
         \/ \E r \in Launch, s \in ReaderState :
              ReaderInv(s) /\ reader' = [reader EXCEPT ![r] = s],
         UNCHANGED <<cache, lost>>,
         wanted' \in SUBSET (Plugin \ Required), added' \in SUBSET Url,
         Chosen(f)' = Intended(j),
         \A g \in File \ {f} : Chosen(g)' = Chosen(g)
  PROVE  IInv'
<1>1. /\ j \in Job /\ f \in File /\ JobInv(w, j) /\ f \notin lost
  BY DEF IInv, TypeOK, Job, JobInv, Replaces
<1>2. PICK st \in {"whole", "torn"} : file' = [file EXCEPT ![f] = [st |-> st, ids |-> j.ids]]
  BY DEF Written
<1>3. raced' = IF j.stale THEN raced \cup {f} ELSE raced
  BY DEF Written
<1>4. \A u \in Writer : job'[u] =
        IF u = w THEN NoJob
        ELSE IF job[u].file = f /\ Replaces(job[u]) THEN Overtaken(job[u])
        ELSE job[u]
  BY DEF Written, Replaces
<1>5. \A k \in Job : Overtaken(k) \in Job
  BY DEF Overtaken, Job
<1>6. job' \in [Writer -> Job]
  <2>1. job' = [u \in Writer |->
          IF u = w THEN NoJob
          ELSE IF job[u].file = f /\ Replaces(job[u]) THEN Overtaken(job[u])
          ELSE job[u]]
    BY DEF Written, Replaces
  <2> QED
    BY <2>1, <1>5, NoJobIsJob DEF IInv, TypeOK
<1>7. TypeOK'
  <2>1. file' \in [File -> FileState]
    <3>1. [st |-> st, ids |-> j.ids] \in FileState
      BY <1>1 DEF Job, FileState
    <3> QED
      BY <1>1, <1>2, <3>1 DEF IInv, TypeOK
  <2>2. reader' \in [Launch -> ReaderState]
    BY DEF IInv, TypeOK
  <2>3. raced' \in SUBSET File
    BY <1>1, <1>3 DEF IInv, TypeOK
  <2> QED
    BY <1>6, <2>1, <2>2, <2>3 DEF IInv, TypeOK
<1>8. \A g \in File : FileInv(g)'
  <2> SUFFICES ASSUME NEW g \in File PROVE FileInv(g)'
    OBVIOUS
  <2>1. CASE g = f
    <3>1. file'[f] = [st |-> st, ids |-> j.ids]
      BY <1>1, <1>2 DEF IInv, TypeOK
    <3>2. f \notin raced' => Optional(f, j.ids) = Chosen(f)'
      BY <1>1, <1>3 DEF JobInv, Replaces
    <3>3. f = "sources" => j.ids \subseteq Url
      BY <1>1 DEF JobInv
    <3> QED
      BY <1>1, <2>1, <3>1, <3>2, <3>3 DEF FileInv, Optional
  <2>2. CASE g # f
    <3>1. file'[g] = file[g] /\ (g \in raced' <=> g \in raced) /\ Chosen(g)' = Chosen(g)
      BY <1>2, <1>3, <2>2 DEF IInv, TypeOK
    <3>2. FileInv(g)
      BY DEF IInv
    <3> QED
      BY <3>1, <3>2 DEF FileInv, Optional
  <2> QED
    BY <2>1, <2>2
<1>9. \A u \in Writer : JobInv(u, job[u])'
  <2> SUFFICES ASSUME NEW u \in Writer PROVE JobInv(u, job[u])'
    OBVIOUS
  <2>1. /\ JobInv(u, job[u]) /\ job[u] \in Job
        /\ raced \subseteq raced' /\ lost' = lost
    BY <1>3 DEF IInv, TypeOK
  <2>2. CASE u = w
    <3>1. job'[u] = NoJob
      BY <1>4, <2>2
    <3> QED
      BY <3>1, SelectionAssumption DEF JobInv, NoJob, JobAt, Replaces
  <2>3. CASE u # w /\ job[u].file = f /\ Replaces(job[u])
    <3>1. job'[u] = Overtaken(job[u])
      BY <1>4, <2>3
    <3> QED
      BY <2>1, <2>3, <3>1, OvertakenFields DEF JobInv, Replaces
  <2>4. CASE u # w /\ ~(job[u].file = f /\ Replaces(job[u]))
    <3>1. job'[u] = job[u]
      BY <1>4, <2>4
    <3>2. job[u].file # f => Chosen(job[u].file)' = Chosen(job[u].file)
      <4>1. job[u].file \in File
        BY <2>1 DEF Job
      <4>2. ASSUME NEW g \in File, g # f PROVE Chosen(g)' = Chosen(g)
        BY <4>2
      <4> QED
        BY <4>1, <4>2, <3>1
    <3>3. Replaces(job[u]) => Intended(job[u])' = Intended(job[u])
      BY <2>4, <3>1, <3>2 DEF Intended
    <3> QED
      BY <2>1, <3>1, <3>3 DEF JobInv, Replaces, Optional
  <2> QED
    BY <2>2, <2>3, <2>4
<1>10. (\A q \in Launch : ReaderInv(reader[q])') /\ CacheInv'
  BY DEF IInv, TypeOK, ReaderInv, CacheInv
<1> QED
  BY <1>7, <1>8, <1>9, <1>10 DEF IInv

\* A command ends: the user has chosen.
LEMMA FinishKeeps ==
  ASSUME IInv, NEW w \in Writer, Finish(w)
  PROVE  IInv'
<1>1. PICK j : job[w] = j
  OBVIOUS
<1>2. /\ j \in Job /\ JobInv(w, j)
      /\ wanted \in SUBSET (Plugin \ Required) /\ added \in SUBSET Url
  BY <1>1 DEF IInv, TypeOK
<1>3. j.pc = "write" /\ Written(w) /\ UNCHANGED <<reader, cache, lost>>
  BY <1>1 DEF Finish
<1>4. CASE j.file = "sources"
  <2>1. /\ added' = (IF j.drop THEN added \ {j.id} ELSE added \cup {j.id})
        /\ wanted' = wanted
    BY <1>1, <1>4 DEF Finish
  <2>2. j.id \in Url
    BY <1>2, <1>4 DEF JobInv
  <2>3. added' \in SUBSET Url /\ wanted' \in SUBSET (Plugin \ Required)
    BY <1>2, <2>1, <2>2
  <2>4. Chosen("sources")' = Intended(j)
    BY <1>4, <2>1 DEF Chosen, Intended
  <2>5. \A g \in File \ {"sources"} : Chosen(g)' = Chosen(g)
    BY <2>1 DEF Chosen
  <2> QED
    BY <1>1, <1>3, <1>4, <2>3, <2>4, <2>5, WrittenKeeps
<1>5. CASE j.file = "selection"
  <2>1. /\ wanted' = IF j.id \in Plugin \ Required
                     THEN IF j.drop THEN wanted \ {j.id} ELSE wanted \cup {j.id}
                     ELSE wanted
        /\ added' = added
    BY <1>1, <1>5 DEF Finish
  <2>2. added' \in SUBSET Url /\ wanted' \in SUBSET (Plugin \ Required)
    BY <1>2, <2>1
  <2>3. Chosen("selection")' = Intended(j)
    BY <1>5, <2>1 DEF Chosen, Intended
  <2>4. \A g \in File \ {"selection"} : Chosen(g)' = Chosen(g)
    BY <2>1 DEF Chosen, File
  <2> QED
    BY <1>1, <1>3, <1>5, <2>2, <2>3, <2>4, WrittenKeeps
<1> QED
  BY <1>2, <1>4, <1>5 DEF Job, File

-----------------------------------------------------------------------------
(***************************************************************************)
(* The launch                                                              *)
(***************************************************************************)

LEMMA CatalogKeeps ==
  ASSUME IInv, NEW r \in Launch, Start(r) \/ catalog_req(r)
  PROVE  IInv'
<1> USE SelectionAssumption
<1> DEFINE s == reader[r]
<1>1. /\ s \in ReaderState /\ ReaderInv(s) /\ file \in [File -> FileState]
      /\ cache \in [ok : BOOLEAN, key : SUBSET Url, refs : SUBSET Manifest]
      /\ CacheInv /\ FileInv("sources")
  BY DEF IInv, TypeOK, File
<1>2. ASSUME NEW pc \in {"sources", "lookup", "store", "installed", "seed", "failed"},
             NEW key \in SUBSET Url, NEW refs \in SUBSET Manifest,
             NEW found \in SUBSET Plugin
      PROVE  ReaderAt(pc, key, refs, found) \in ReaderState
  BY DEF ReaderAt, ReaderState
<1>3. Failed \in ReaderState /\ ReaderInv(Failed)
  BY <1>2 DEF Failed, ReaderInv, ReaderAt
<1>4. CASE Start(r)
  <2>1. ReaderInv(ReaderAt("sources", {}, {}, {}))
    BY DEF ReaderInv, ReaderAt
  <2> QED
    BY <1>2, <1>4, <2>1, ReaderStep DEF Start
<1>5. CASE ReadSources(r)
  <2>1. file["sources"].ids \in SUBSET Url
    BY <1>1 DEF FileInv
  <2>2. ReaderInv(ReaderAt("lookup", file["sources"].ids, {}, {}))
    BY DEF ReaderInv, ReaderAt
  <2> QED
    BY <1>2, <1>3, <1>5, <2>1, <2>2, ReaderStep DEF ReadSources
<1>6. CASE Lookup(r)
  <2>1. s.key \in SUBSET Url
    BY <1>1 DEF ReaderState
  <2>2. CASE cache_hit(s.key) /\ reader' = [reader EXCEPT ![r] =
               ReaderAt("installed", s.key, cache.refs, {})]
    <3>1. ReaderInv(ReaderAt("installed", s.key, cache.refs, {}))
      BY <1>1, <2>2 DEF ReaderInv, ReaderAt, cache_hit, CacheInv
    <3> QED
      BY <1>1, <1>2, <1>6, <2>1, <2>2, <3>1, ReaderStep DEF Lookup
  <2>3. ASSUME NEW refs \in build_plugin_refs(s.key),
               reader' = [reader EXCEPT ![r] = ReaderAt("store", s.key, refs, {})]
        PROVE  IInv'
    <3>1. refs \subseteq Official \cup s.key
      BY <2>3 DEF build_plugin_refs, fetched, fetch_list
    <3>2. refs \in SUBSET Manifest
      BY <2>1, <3>1 DEF Manifest
    <3>3. ReaderInv(ReaderAt("store", s.key, refs, {}))
      BY <3>1 DEF ReaderInv, ReaderAt
    <3> QED
      BY <1>2, <1>6, <2>1, <2>3, <3>2, <3>3, ReaderStep DEF Lookup
  <2> QED
    BY <1>6, <2>2, <2>3 DEF Lookup
<1>7. CASE Store(r)
  <2>1. reader' = [reader EXCEPT ![r] = [s EXCEPT !.pc = "installed"]]
    BY <1>1, <1>7 DEF Store, ReaderGoto, IInv, TypeOK
  <2>2. [s EXCEPT !.pc = "installed"] \in ReaderState
        /\ ReaderInv([s EXCEPT !.pc = "installed"])
    BY <1>1 DEF ReaderState, ReaderInv
  <2>3. /\ cache' \in [ok : BOOLEAN, key : SUBSET Url, refs : SUBSET Manifest]
        /\ cache'.refs \subseteq Official \cup cache'.key
    BY <1>1, <1>7 DEF Store, ReaderState, ReaderInv
  <2> QED
    BY <1>7, <2>1, <2>2, <2>3, ReaderStep DEF Store
<1>8. CASE Installed(r)
  <2>1. PICK found \in list(s.refs) :
          \/ reader' = [reader EXCEPT ![r] = ReaderAt("seed", {}, {}, found \cap Required)]
          \/ reader' = [reader EXCEPT ![r] = Failed]
    BY <1>8 DEF Installed
  <2>2. found \cap Required \in SUBSET Plugin
    OBVIOUS
  <2>3. ReaderInv(ReaderAt("seed", {}, {}, found \cap Required))
    BY DEF ReaderInv, ReaderAt
  <2> QED
    BY <1>2, <1>3, <1>8, <2>1, <2>2, <2>3, ReaderStep DEF Installed
<1> QED
  BY <1>4, <1>5, <1>6, <1>7, <1>8 DEF catalog_req

\* The seed of a missing selection and the healed selection leave the choices
\* as they are.
LEMMA HealKeeps ==
  ASSUME IInv, NEW r \in Launch, Seed(r) \/ Heal(r)
  PROVE  IInv'
<1> USE SelectionAssumption
<1> DEFINE s == reader[r]
           was == file["selection"]
<1>1. /\ s \in ReaderState /\ ReaderInv(s) /\ was \in FileState
      /\ FileInv("selection") /\ reader \in [Launch -> ReaderState]
  BY DEF IInv, TypeOK, File
<1>2. r \in Writer
  BY DEF Writer
<1>3. ASSUME NEW ids \in SUBSET (Plugin \cup Url), was.st # "torn",
             Optional("selection", ids) = Optional("selection", was.ids)
      PROVE  LET j == JobAt("truncate", "selection", FALSE, MainThread, ids) IN
             j \in Job /\ JobInv(r, j)
  <2> DEFINE j == JobAt("truncate", "selection", FALSE, MainThread, ids)
  <2>1. /\ j.pc = "truncate" /\ j.file = "selection" /\ j.drop = FALSE
        /\ j.id = MainThread /\ j.ids = ids /\ j.stale = FALSE
    BY DEF JobAt
  <2>2. j \in Job
    BY DEF JobAt, Job, File
  <2>3. Intended(j) = Chosen("selection")
    BY <2>1 DEF Intended
  <2>4. "selection" \notin lost
    BY <1>1, <1>3 DEF FileInv
  <2>5. "selection" \notin raced => Optional("selection", ids) = Chosen("selection")
    BY <1>1, <1>3 DEF FileInv
  <2> HIDE DEF j
  <2>6. JobInv(r, j)
    BY <2>1, <2>3, <2>4, <2>5 DEF JobInv
  <2> QED
    BY <2>2, <2>6 DEF j
<1>4. ASSUME NEW pc \in {"heal", "failed"}, s.pc \in {"seed", "heal"}
      PROVE  [s EXCEPT !.pc = pc] \in ReaderState /\ ReaderInv([s EXCEPT !.pc = pc])
  BY <1>1, <1>4 DEF ReaderState, ReaderInv
<1>5. ASSUME NEW pc, ReaderGoto(r, pc)
      PROVE  reader' = [reader EXCEPT ![r] = [s EXCEPT !.pc = pc]]
  BY <1>1, <1>5 DEF ReaderGoto
<1>6. job[r] \in Job /\ JobInv(r, job[r]) /\ job = [job EXCEPT ![r] = job[r]]
  BY <1>2 DEF IInv, TypeOK
<1>7. CASE Seed(r)
  <2>1. reader' = [reader EXCEPT ![r] = [s EXCEPT !.pc = "heal"]] /\ s.pc = "seed"
    BY <1>5, <1>7 DEF Seed
  <2>2. \E q \in Launch, t \in ReaderState :
          ReaderInv(t) /\ reader' = [reader EXCEPT ![q] = t]
    BY <1>4, <2>1
  <2>3. CASE was.st = "missing"
    <3>1. job' = [job EXCEPT ![r] = JobAt("truncate", "selection", FALSE, MainThread, {})]
      BY <1>7, <2>3 DEF Seed, Put
    <3>2. was.ids = {}
      BY <1>1, <2>3 DEF FileInv
    <3> QED
      BY <1>2, <1>3, <1>7, <2>2, <2>3, <3>1, <3>2, JobStep DEF Seed, LaunchOnly
  <2>4. CASE was.st # "missing"
    <3>1. job' = [job EXCEPT ![r] = job[r]]
      BY <1>6, <1>7, <2>4 DEF Seed
    <3> QED
      BY <1>2, <1>6, <1>7, <2>2, <3>1, JobStep DEF Seed, LaunchOnly
  <2> QED
    BY <2>3, <2>4
<1>8. CASE Heal(r)
  <2>1. CASE Readable("selection")
    <3> DEFINE ids == was.ids \cup s.found
    <3>1. /\ job' = [job EXCEPT ![r] =
               JobAt("truncate", "selection", FALSE, MainThread, ids)]
          /\ reader' = [reader EXCEPT ![r] = ReaderAt("write", {}, {}, {})]
          /\ s.pc = "heal"
      BY <1>8, <2>1 DEF Heal, Put
    <3>2. ids \in SUBSET (Plugin \cup Url)
      BY <1>1 DEF FileState, ReaderState
    <3>3. Optional("selection", ids) = Optional("selection", was.ids)
      BY <1>1, <3>1 DEF ReaderInv, Optional
    <3>4. was.st # "torn"
      BY <2>1 DEF Readable
    <3>5. ReaderAt("write", {}, {}, {}) \in ReaderState
          /\ ReaderInv(ReaderAt("write", {}, {}, {}))
      BY DEF ReaderAt, ReaderState, ReaderInv
    <3> QED
      BY <1>2, <1>3, <1>8, <3>1, <3>2, <3>3, <3>4, <3>5, JobStep DEF Heal, LaunchOnly
  <2>2. CASE ~Readable("selection")
    <3>1. /\ reader' = [reader EXCEPT ![r] = [s EXCEPT !.pc = "failed"]]
          /\ job' = [job EXCEPT ![r] = job[r]] /\ s.pc = "heal"
      BY <1>5, <1>6, <1>8, <2>2 DEF Heal
    <3>2. \E q \in Launch, t \in ReaderState :
            ReaderInv(t) /\ reader' = [reader EXCEPT ![q] = t]
      BY <1>4, <3>1
    <3> QED
      BY <1>2, <1>6, <1>8, <3>1, <3>2, JobStep DEF Heal, LaunchOnly
  <2> QED
    BY <2>1, <2>2
<1> QED
  BY <1>7, <1>8

LEMMA LaunchWriteKeeps ==
  ASSUME IInv, NEW r \in Launch, LaunchWrite(r)
  PROVE  IInv'
<1> DEFINE s == reader[r]
<1>1. r \in Writer
  BY DEF Writer
<1>2. PICK j : job[r] = j
  OBVIOUS
<1>3. JobInv(r, j) /\ s \in ReaderState /\ ReaderInv(s) /\ reader \in [Launch -> ReaderState]
      /\ wanted \in SUBSET (Plugin \ Required) /\ added \in SUBSET Url
  BY <1>1, <1>2 DEF IInv, TypeOK
<1>4. j.file = "selection" /\ j.id = MainThread
  BY <1>3 DEF JobInv
<1>5. j.pc = "write" /\ Written(r) /\ UNCHANGED <<cache, wanted, added, lost>>
  BY <1>2 DEF LaunchWrite
<1>6. \A f \in File : Chosen(f)' = Chosen(f)
  BY <1>5 DEF Chosen
<1>7. Chosen("selection")' = Intended(j)
  BY <1>4, <1>6, SelectionAssumption DEF Intended, File
<1>8. \E t \in ReaderState : ReaderInv(t) /\ reader' = [reader EXCEPT ![r] = t]
  <2> DEFINE pc == IF s.pc = "write" THEN "resolve" ELSE s.pc
  <2>1. reader' = [reader EXCEPT ![r] = [s EXCEPT !.pc = pc]]
    BY <1>3 DEF LaunchWrite, ReaderGoto
  <2>2. [s EXCEPT !.pc = pc] \in ReaderState /\ ReaderInv([s EXCEPT !.pc = pc])
    BY <1>3 DEF ReaderState, ReaderInv
  <2> QED
    BY <2>1, <2>2
<1> QED
  BY <1>1, <1>2, <1>3, <1>4, <1>5, <1>6, <1>7, <1>8, WrittenKeeps

LEMMA ResolveKeeps ==
  ASSUME IInv, NEW r \in Launch, build_resolved_plugins(r)
  PROVE  IInv'
<1> USE SelectionAssumption
<1> DEFINE s == reader[r]
<1>1. s \in ReaderState /\ ReaderInv(s) /\ reader \in [Launch -> ReaderState]
      /\ FileInv("sources")
  BY DEF IInv, TypeOK, File
<1>2. ASSUME NEW pc \in {"select", "done", "failed"}, NEW found \in SUBSET Plugin
      PROVE  ReaderAt(pc, {}, {}, found) \in ReaderState
             /\ ReaderInv(ReaderAt(pc, {}, {}, found))
  BY DEF ReaderAt, ReaderState, ReaderInv
<1>3. Failed \in ReaderState /\ ReaderInv(Failed)
  BY <1>2 DEF Failed
<1>4. CASE Resolve(r)
  <2>1. ASSUME NEW refs \in build_plugin_refs(file["sources"].ids), NEW found \in list(refs)
        PROVE  found \in SUBSET Plugin
    <3>1. refs \subseteq Official \cup Url
      BY <1>1 DEF build_plugin_refs, fetched, fetch_list, FileInv
    <3> QED
      BY <3>1 DEF list, fetch_oci_manifest
  <2>2. CASE Readable("sources")
    <3>1. PICK refs \in build_plugin_refs(file["sources"].ids) :
            \E found \in list(refs) :
              reader' = [reader EXCEPT ![r] = ReaderAt("select", {}, {}, found)]
      BY <1>4, <2>2 DEF Resolve
    <3>2. PICK found \in list(refs) :
            reader' = [reader EXCEPT ![r] = ReaderAt("select", {}, {}, found)]
      BY <3>1
    <3> QED
      BY <1>2, <1>4, <2>1, <3>2, ReaderStep DEF Resolve
  <2>3. CASE ~Readable("sources")
    <3>1. reader' = [reader EXCEPT ![r] = [s EXCEPT !.pc = "failed"]]
      BY <1>1, <1>4, <2>3 DEF Resolve, ReaderGoto
    <3>2. [s EXCEPT !.pc = "failed"] \in ReaderState
          /\ ReaderInv([s EXCEPT !.pc = "failed"])
      BY <1>1 DEF ReaderState, ReaderInv
    <3> QED
      BY <1>4, <3>1, <3>2, ReaderStep DEF Resolve
  <2> QED
    BY <2>2, <2>3
<1>5. CASE Select(r)
  <2> DEFINE found == s.found \cap (Required \cup file["selection"].ids)
  <2>1. found \in SUBSET Plugin
    BY <1>1 DEF ReaderState
  <2>2. \/ reader' = [reader EXCEPT ![r] = ReaderAt("done", {}, {}, found)]
        \/ reader' = [reader EXCEPT ![r] = Failed]
    BY <1>5 DEF Select
  <2> QED
    BY <1>2, <1>3, <1>5, <2>1, <2>2, ReaderStep DEF Select
<1> QED
  BY <1>4, <1>5 DEF build_resolved_plugins

-----------------------------------------------------------------------------
(***************************************************************************)
(* The cache and the end of the shell                                      *)
(***************************************************************************)

LEMMA CacheKeeps ==
  ASSUME IInv, View \/ Expire
  PROVE  IInv'
<1>1. /\ UNCHANGED reader /\ UNCHANGED <<file, job, wanted, added, raced, lost>>
      /\ cache' \in [ok : BOOLEAN, key : SUBSET Url, refs : SUBSET Manifest]
      /\ CacheInv'
  <2>1. CASE View
    <3>1. PICK key \in SUBSET Url : \E refs \in build_plugin_refs(key) :
            cache' = [ok |-> TRUE, key |-> key, refs |-> refs]
      BY <2>1 DEF View
    <3>2. PICK refs \in build_plugin_refs(key) :
            cache' = [ok |-> TRUE, key |-> key, refs |-> refs]
      BY <3>1
    <3>3. refs \subseteq Official \cup key
      BY <3>2 DEF build_plugin_refs, fetched, fetch_list
    <3> QED
      BY <2>1, <3>2, <3>3 DEF View, ReaderOnly, CacheInv, Manifest
  <2>2. CASE Expire
    BY <2>2 DEF Expire, ReaderOnly, CacheInv, NoCache
  <2> QED
    BY <2>1, <2>2
<1>2. TypeOK'
  BY <1>1 DEF IInv, TypeOK
<1>3. \A f \in File : FileInv(f)'
  BY <1>1 DEF IInv, FileInv, Chosen, Optional
<1>4. \A w \in Writer : JobInv(w, job[w])'
  BY <1>1 DEF IInv, JobInv, Replaces, Intended, Chosen, Optional
<1>5. \A r \in Launch : ReaderInv(reader[r])'
  BY <1>1 DEF IInv, ReaderInv
<1> QED
  BY <1>1, <1>2, <1>3, <1>4, <1>5 DEF IInv

LEMMA KillKeeps ==
  ASSUME IInv, Kill
  PROVE  IInv'
<1>1. TypeOK'
  <2>1. job' \in [Writer -> Job]
    BY NoJobIsJob DEF Kill
  <2>2. Idle \in ReaderState
    BY DEF Idle, ReaderAt, ReaderState
  <2>3. cache' \in [ok : BOOLEAN, key : SUBSET Url, refs : SUBSET Manifest]
    BY DEF Kill, NoCache
  <2>4. reader' \in [Launch -> ReaderState]
    BY <2>2 DEF Kill
  <2>5. lost' \in SUBSET File
    BY DEF Kill
  <2>6. UNCHANGED <<file, wanted, added, raced>>
    BY DEF Kill
  <2> QED
    BY <2>1, <2>3, <2>4, <2>5, <2>6 DEF IInv, TypeOK
<1>2. \A f \in File : FileInv(f)'
  BY DEF IInv, Kill, FileInv, Readable, Optional, Chosen
<1>3. \A w \in Writer : JobInv(w, job[w])'
  <2> SUFFICES ASSUME NEW w \in Writer PROVE JobInv(w, job[w])'
    OBVIOUS
  <2>1. job'[w] = NoJob
    BY DEF Kill
  <2> QED
    BY <2>1, SelectionAssumption DEF JobInv, NoJob, JobAt, Replaces
<1>4. \A r \in Launch : ReaderInv(reader[r])'
  BY DEF Kill, Idle, ReaderAt, ReaderInv
<1>5. CacheInv'
  BY DEF Kill, NoCache, CacheInv
<1> QED
  BY <1>1, <1>2, <1>3, <1>4, <1>5 DEF IInv

-----------------------------------------------------------------------------
(***************************************************************************)
(* The theorems                                                            *)
(***************************************************************************)

LEMMA NextIInv == IInv /\ [Next]_vars => IInv'
<1> SUFFICES ASSUME IInv, [Next]_vars PROVE IInv'
  OBVIOUS
<1> USE SelectionAssumption
<1>1. ASSUME NEW p \in Plugin \ Required, NEW b \in BOOLEAN, set_plugin_selection(p, b)
      PROVE  IInv'
  <2>1. MainThread \in Writer \ Launch /\ "selection" \in File /\ (~b) \in BOOLEAN
    BY DEF Writer, File
  <2> QED
    BY <1>1, <2>1, Begins DEF set_plugin_selection
<1>2. ASSUME seed_plugin_selection PROVE IInv'
  <2>1. MainThread \in Writer \ Launch /\ "selection" \in File
    BY DEF Writer, File
  <2> QED
    BY <1>2, <2>1, Begins DEF seed_plugin_selection
<1>3. ASSUME NEW s \in SourceTask, NEW u \in Url, add_source(s, u) \/ remove_source(s, u)
      PROVE  IInv'
  <2>1. s \in Writer \ Launch /\ "sources" \in File
    BY DEF Writer, File
  <2> QED
    BY <1>3, <2>1, Begins DEF add_source, remove_source
<1>4. ASSUME NEW w \in Writer, WriterStep(w) PROVE IInv'
  BY <1>4, ReadFileKeeps, TruncateKeeps, FinishKeeps DEF WriterStep
<1>5. ASSUME NEW r \in Launch, Start(r) \/ catalog_req(r) PROVE IInv'
  BY <1>5, CatalogKeeps
<1>6. ASSUME NEW r \in Launch, reconcile_plugin_selection(r) PROVE IInv'
  BY <1>6, HealKeeps, LaunchWriteKeeps DEF reconcile_plugin_selection
<1>7. ASSUME NEW r \in Launch, build_resolved_plugins(r) PROVE IInv'
  BY <1>7, ResolveKeeps
<1>8. CASE UNCHANGED vars
  <2>1. TypeOK'
    BY <1>8 DEF vars, IInv, TypeOK
  <2>2. \A f \in File : FileInv(f)'
    BY <1>8 DEF vars, IInv, FileInv, Chosen, Optional
  <2>3. \A w \in Writer : JobInv(w, job[w])'
    BY <1>8 DEF vars, IInv, JobInv, Replaces, Intended, Chosen, Optional
  <2>4. (\A r \in Launch : ReaderInv(reader[r])') /\ CacheInv'
    BY <1>8 DEF vars, IInv, ReaderInv, CacheInv
  <2> QED
    BY <2>1, <2>2, <2>3, <2>4 DEF IInv
<1> QED
  BY <1>1, <1>2, <1>3, <1>4, <1>5, <1>6, <1>7, <1>8, CacheKeeps, KillKeeps DEF Next

LEMMA SpecIInv == Spec => []IInv
BY InitIInv, NextIInv, PTL DEF Spec

\* Every reachable state of files, writers, launches and cache is well typed.
THEOREM SelectionTypes == Spec => []TypeOK
<1>1. IInv => TypeOK
  BY DEF IInv
<1> QED
  BY <1>1, SpecIInv, PTL

\* Unless two writers overlapped on it, a file that parses says what the user
\* chose, whatever launches, crashes and short catalogs did.
THEOREM FilesSayChoices == Spec => []ChoicesKept
<1>1. IInv => ChoicesKept
  BY DEF IInv, FileInv, ChoicesKept
<1> QED
  BY <1>1, SpecIInv, PTL

\* What a crash left unreadable stays as it is: nobody takes it for empty.
THEOREM NothingOverTorn == Spec => []TornIsKept
<1>1. IInv => TornIsKept
  BY DEF IInv, TypeOK, FileInv, TornIsKept
<1> QED
  BY <1>1, SpecIInv, PTL

\* No launch is served a catalog of other sources than those it read.
THEOREM OwnCatalog == Spec => []CatalogOfItsSources
<1>1. IInv => CatalogOfItsSources
  BY DEF IInv, ReaderInv, CatalogOfItsSources
<1> QED
  BY <1>1, SpecIInv, PTL
================================================================================
