---------------------------- MODULE ReconcileProofs ----------------------------
(***************************************************************************)
(* Proofs about Reconcile for any plugins, titles, versions and releases,  *)
(* and any number of faults and kills.                                     *)
(***************************************************************************)
EXTENDS Reconcile, TLAPS

(***************************************************************************)
(* The inductive invariant.  A marker can be trusted because releases only *)
(* go up: a directory that a kill left half removed keeps at most the      *)
(* marker of a release that no later launch wishes for.                    *)
(***************************************************************************)

\* The steps that install run.cur, before and after its directory is whole.
Fetching == {"download", "unpack", "remove"}
Placing == {"exec", "mark", "link", "symlink"}
Installing == {"install"} \cup Fetching \cup Placing
\* The steps after the prune of the provisioning documents.
Rendered == {"render", "unsigned", "tidy", "copy", "up"}

HasWish(p) == p \in Wished /\ run.wish[p] # None

\* The release of p that a launch may be asked for from now on, at least.
Bound(p) == IF HasWish(p) THEN run.wish[p] ELSE release[p]

\* A marker of that release is in a whole directory of that release.
DirInv ==
  /\ \A p \in Plugin : Bound(p) <= release[p]
  /\ \A p \in Plugin, v \in Versions :
       /\ dir[<<p, v>>].mark <= Bound(p)
       /\ dir[<<p, v>>].mark = Bound(p) =>
            dir[<<p, v>>].st = "whole" /\ dir[<<p, v>>].rel = Bound(p)

\* Which plugins are still to be handled, and which are installed.
Progress ==
  /\ run.ok \subseteq Wished
  /\ run.pc \in {"idle", "failed"} => run.ok = {}
  /\ run.pc \in Installing => run.todo \subseteq Wished \ run.ok
  /\ run.pc \in Fetching \cup Placing => run.cur \in run.todo /\ HasWish(run.cur)
  /\ run.pc \notin {"idle", "failed"} =>
       Required \cap Wished \subseteq
         run.ok \cup (IF run.pc \in Installing THEN run.todo ELSE {})
  /\ run.pc = "render" => run.todo \subseteq run.ok
  /\ run.pc = "copy" => run.todo \subseteq run.ok \cap App
  /\ run.pc = "up" => run.todo = {}

CurInv ==
  /\ run.pc \in Fetching => dir[Cur].mark # Want
  /\ run.pc \in Placing => dir[Cur].st = "whole" /\ dir[Cur].rel = Want

\* The plugins installed so far are linked and whole.
Installed ==
  \A p \in run.ok :
    LET r == run.wish[p] IN
    /\ r # None /\ link[p] = Version[p][r]
    /\ dir[<<p, link[p]>>].st = "whole" /\ dir[<<p, link[p]>>].rel = r

Documents ==
  /\ run.pc \in Rendered =>
       /\ \A p \in run.ok \ (IF run.pc = "render" THEN run.todo ELSE {}) :
            yaml[p] = "new"
       /\ \A p \in App \ run.ok : yaml[p] = "none"
  /\ run.pc \in {"tidy", "copy", "up"} => unsigned = run.ok

Owners(t) == {p \in run.ok \cap App : Title[p] = t}

\* A title's dashboards are an owner's, or an owner's are still to be copied.
Dashboards ==
  run.pc \in {"copy", "up"} => \A t \in DOMAIN dash :
    /\ Owners(t) = {} => dash[t] = <<>>
    /\ Owners(t) # {} => \/ dash[t] \in {<<p, run.wish[p]>> : p \in Owners(t)}
                         \/ Owners(t) \cap run.todo # {}

IInv == /\ TypeOK /\ DirInv /\ Progress /\ CurInv
        /\ Installed /\ Documents /\ Dashboards

-----------------------------------------------------------------------------
(***************************************************************************)
(* Types                                                                   *)
(***************************************************************************)

RunPc == {"idle", "install", "download", "unpack", "remove", "exec",
          "mark", "link", "symlink", "prune", "stale", "render", "unsigned",
          "tidy", "copy", "up", "failed"}

Stopped == {Idle, [Idle EXCEPT !.pc = "failed"]}

LEMMA RunFields ==
  ASSUME TypeOK
  PROVE  /\ run.pc \in RunPc /\ run.todo \subseteq Plugin
         /\ run.cur \in Plugin \cup {None} /\ run.ok \subseteq Plugin
         /\ run.wish \in UNION {[W -> Release \cup {None}] : W \in SUBSET Plugin}
         /\ Wished \subseteq Plugin
         /\ \A p \in Wished : run.wish[p] \in Release \cup {None}
<1>1. run \in Run
  BY DEF TypeOK
<1>2. run.wish \in UNION {[W -> Release \cup {None}] : W \in SUBSET Plugin}
  BY <1>1 DEF Run
<1>3. PICK W \in SUBSET Plugin : run.wish \in [W -> Release \cup {None}]
  BY <1>2
<1> QED
  BY <1>1, <1>2, <1>3 DEF Run, RunPc, Wished

LEMMA Releases ==
  /\ Release \subseteq Nat /\ None \notin Release /\ 1 \in Release
  /\ \A p \in Plugin, r \in Release : Version[p][r] \in Versions
BY ReconcileAssumption DEF Release, None, Versions

LEMMA DirFields == \A d \in Dir : d.mark \in Nat
BY ReconcileAssumption DEF Dir, Release, None

\* A launch that has not begun, or that failed, wishes for nothing.
LEMMA StoppedRun ==
  ASSUME NEW r \in Stopped
  PROVE  /\ r \in Run /\ r.pc \in {"idle", "failed"} /\ r.ok = {}
         /\ r.todo = {} /\ DOMAIN r.wish = {}
<1>1. /\ Idle.wish \in [{} -> Release \cup {None}]
      /\ DOMAIN Idle.wish = {}
  BY DEF Idle
<1>2. Idle.wish \in UNION {[W -> Release \cup {None}] : W \in SUBSET Plugin}
  BY <1>1
<1>3. /\ Idle \in Run /\ Idle.pc = "idle" /\ Idle.ok = {} /\ Idle.todo = {}
  BY <1>2 DEF Idle, Run
<1>4. LET f == [Idle EXCEPT !.pc = "failed"] IN
      /\ f \in Run /\ f.pc = "failed" /\ f.ok = {} /\ f.todo = {}
      /\ f.wish = Idle.wish
  BY <1>2 DEF Idle, Run
<1> QED
  BY <1>1, <1>3, <1>4 DEF Stopped

\* The launch goes on with the same wish.
LEMMA GotoFacts ==
  ASSUME TypeOK, NEW pc \in RunPc, Goto(pc)
  PROVE  /\ run' \in Run
         /\ run'.pc = pc /\ run'.todo = run.todo /\ run'.cur = run.cur
         /\ run'.ok = run.ok /\ run'.wish = run.wish
BY DEF TypeOK, Run, RunPc, Goto

LEMMA GotoForFacts ==
  ASSUME TypeOK, NEW pc \in RunPc, NEW todo \in SUBSET Plugin, GotoFor(pc, todo)
  PROVE  /\ run' \in Run
         /\ run'.pc = pc /\ run'.todo = todo /\ run'.cur = run.cur
         /\ run'.ok = run.ok /\ run'.wish = run.wish
BY DEF TypeOK, Run, RunPc, GotoFor

LEMMA DoneFacts ==
  ASSUME TypeOK, NEW p \in Plugin, NEW ok \in BOOLEAN, Done(p, ok)
  PROVE  /\ run' \in Run
         /\ run'.pc = "install" /\ run'.todo = run.todo \ {p}
         /\ run'.ok = (IF ok THEN run.ok \cup {p} ELSE run.ok)
         /\ run'.wish = run.wish
<1> DEFINE s == IF ok THEN run.ok \cup {p} ELSE run.ok
<1>1. s \in SUBSET Plugin /\ run.todo \ {p} \in SUBSET Plugin
  BY RunFields
<1>2. run' = [run EXCEPT !.pc = "install", !.todo = run.todo \ {p},
                         !.cur = None, !.ok = s]
  BY DEF Done
<1> HIDE DEF s
<1>3. /\ run' \in Run
      /\ run'.pc = "install" /\ run'.todo = run.todo \ {p}
      /\ run'.ok = s /\ run'.wish = run.wish
  BY <1>1, <1>2 DEF TypeOK, Run
<1> QED
  BY <1>3 DEF s

-----------------------------------------------------------------------------
(***************************************************************************)
(* What a step may leave alone                                             *)
(***************************************************************************)

\* The directories after the step fit what was wished for before it.
DirsFit ==
  \A p \in Plugin, v \in Versions :
    /\ dir'[<<p, v>>].mark <= Bound(p)
    /\ dir'[<<p, v>>].mark = Bound(p) =>
         dir'[<<p, v>>].st = "whole" /\ dir'[<<p, v>>].rel = Bound(p)

SameBudget == /\ release' = release
              /\ faults' \in 0..MaxFault /\ kills' \in 0..MaxKill

LEMMA BudgetKept ==
  ASSUME TypeOK
  PROVE  /\ NoFault => SameBudget
         /\ Fault => SameBudget
BY ReconcileAssumption DEF TypeOK, NoFault, Fault, SameBudget

LEMMA BoundFacts ==
  ASSUME TypeOK
  PROVE  \A p \in Plugin :
           /\ release[p] \in Release /\ Bound(p) \in Release
           /\ HasWish(p) => run.wish[p] \in Release
           /\ \A v \in Versions : dir[<<p, v>>] \in Dir
BY RunFields, Releases DEF TypeOK, Bound, HasWish

\* A launch stops: killed, or failed.
LEMMA StopKeeps ==
  ASSUME IInv, SameBudget, run' \in Stopped, DirsFit,
         dir' \in [Plugin \X Versions -> Dir],
         UNCHANGED <<link, yaml, unsigned, dash>>
  PROVE  IInv'
<1> USE DEF IInv
<1>1. /\ run' \in Run /\ run'.pc \in {"idle", "failed"} /\ run'.ok = {}
      /\ run'.todo = {} /\ DOMAIN run'.wish = {}
  BY StoppedRun
<1>2. TypeOK'
  BY <1>1 DEF TypeOK, SameBudget
<1>3. \A p \in Plugin : Bound(p)' = release[p]
  BY <1>1 DEF Bound, HasWish, Wished, SameBudget
<1>4. DirInv'
  <2>1. \A p \in Plugin : Bound(p) \in Nat /\ release[p] \in Nat
    BY BoundFacts, Releases
  <2>2. ASSUME NEW p \in Plugin, NEW v \in Versions
        PROVE  /\ dir'[<<p, v>>].mark <= release[p]
               /\ dir'[<<p, v>>].mark = release[p] =>
                    dir'[<<p, v>>].st = "whole" /\ dir'[<<p, v>>].rel = release[p]
    <3>1. dir'[<<p, v>>].mark \in Nat
      <4>1. dir'[<<p, v>>] \in Dir
        OBVIOUS
      <4> QED
        BY <4>1, DirFields
    <3> QED
      BY <2>1, <3>1 DEF DirInv, DirsFit
  <2> QED
    BY <1>3, <2>1, <2>2 DEF DirInv, SameBudget
<1> QED
  BY <1>1, <1>2, <1>4 DEF Progress, CurInv, Installed, Documents, Dashboards,
     Installing, Fetching, Placing, Rendered, Wished

LEMMA SameDirs ==
  ASSUME IInv, dir' = dir
  PROVE  DirsFit /\ dir' \in [Plugin \X Versions -> Dir]
BY DEF IInv, DirInv, DirsFit, TypeOK

\* The launch goes on, wishing for the same.
LEMMA DirsKeep ==
  ASSUME IInv, release' = release, run'.wish = run.wish, DirsFit
  PROVE  DirInv'
<1>1. \A p \in Plugin : Bound(p)' = Bound(p)
  BY DEF Bound, HasWish, Wished
<1> QED
  BY <1>1 DEF IInv, DirInv, DirsFit

\* A plugin that could not be installed stops the launch or is left out.
LEMMA FailedKeeps ==
  ASSUME IInv, SameBudget, NEW p \in run.todo, run.pc \in Installing,
         Failed(p), DirsFit,
         dir' \in [Plugin \X Versions -> Dir],
         \A q \in run.ok, v \in Versions : dir'[<<q, v>>] = dir[<<q, v>>],
         UNCHANGED <<link, yaml, unsigned, dash>>
  PROVE  IInv'
<1> USE DEF IInv
<1>1. CASE p \in Required
  BY <1>1, StopKeeps DEF Failed, Stopped
<1>2. CASE p \notin Required
  <2>1. p \in Plugin
    BY RunFields
  <2>2. /\ run' \in Run /\ run'.pc = "install" /\ run'.todo = run.todo \ {p}
        /\ run'.ok = run.ok /\ run'.wish = run.wish
    BY <1>2, <2>1, DoneFacts DEF Failed
  <2>3. TypeOK'
    BY <2>2 DEF TypeOK, SameBudget
  <2>4. DirInv'
    BY <2>2, DirsKeep DEF SameBudget
  <2>5. Progress'
    BY <1>2, <2>2 DEF Progress, Installing, Fetching, Placing, Wished
  <2>6. Installed'
    <3>1. \A q \in run.ok : run.wish[q] \in Release /\ q \in Plugin
      BY RunFields DEF Installed, Progress
    <3> QED
      BY <2>2, <3>1, Releases DEF Installed
  <2> QED
    BY <2>2, <2>3, <2>4, <2>5, <2>6 DEF CurInv, Documents, Dashboards,
       Fetching, Placing, Rendered
<1> QED
  BY <1>1, <1>2

LEMMA FailCurKeeps ==
  ASSUME IInv, run.pc \in Fetching \cup Placing, FailCur
  PROVE  IInv'
<1>1. run.cur \in run.todo /\ run.pc \in Installing
  BY DEF IInv, Progress, Installing
<1>2. UNCHANGED <<dir, link, yaml, unsigned, dash>>
  BY DEF FailCur, files
<1> QED
  BY <1>1, <1>2, SameDirs, BudgetKept, FailedKeeps DEF FailCur, IInv

LEMMA FailRunKeeps ==
  ASSUME IInv, FailRun
  PROVE  IInv'
<1>1. UNCHANGED <<dir, link, yaml, unsigned, dash>> /\ run' \in Stopped
  BY DEF FailRun, files, Stopped
<1> QED
  BY <1>1, SameDirs, BudgetKept, StopKeeps DEF FailRun, IInv

LEMMA KillKeeps ==
  ASSUME IInv, Kill
  PROVE  IInv'
<1>1. UNCHANGED <<dir, link, yaml, unsigned, dash>> /\ run' \in Stopped
  BY DEF Kill, files, Stopped
<1>2. SameBudget
  BY ReconcileAssumption DEF Kill, SameBudget, IInv, TypeOK
<1> QED
  BY <1>1, <1>2, SameDirs, StopKeeps

-----------------------------------------------------------------------------
(***************************************************************************)
(* The wish                                                                *)
(***************************************************************************)

LEMMA ResolveKeeps ==
  ASSUME IInv, Resolve
  PROVE  IInv'
<1> USE DEF IInv
<1>1. PICK W \in SUBSET Plugin, N \in SUBSET Plugin :
        /\ N \subseteq W
        /\ IF W = Plugin /\ N = {} THEN NoFault ELSE Fault
        /\ run' = [Idle EXCEPT !.pc = "install", !.todo = W,
                     !.wish = [p \in W |-> IF p \in N THEN None ELSE release[p]]]
  BY DEF Resolve
<1>2. /\ SameBudget /\ UNCHANGED <<dir, link, unsigned, dash>>
      /\ yaml' \in [Plugin -> {"none", "old", "new"}]
  BY <1>1, BudgetKept DEF Resolve, TypeOK
<1> DEFINE wish == [p \in W |-> IF p \in N THEN None ELSE release[p]]
<1>3. /\ wish \in [W -> Release \cup {None}] /\ DOMAIN wish = W
      /\ \A p \in W : wish[p] # None => wish[p] = release[p]
  BY <1>1 DEF TypeOK
<1>4. wish \in UNION {[V -> Release \cup {None}] : V \in SUBSET Plugin}
  BY <1>3
<1> HIDE DEF wish
<1>5. /\ run' \in Run /\ run'.pc = "install" /\ run'.todo = W
      /\ run'.ok = {} /\ run'.wish = wish
  <2>1. run' = [Idle EXCEPT !.pc = "install", !.todo = W, !.wish = wish]
    BY <1>1 DEF wish
  <2> QED
    BY <1>4, <2>1 DEF Idle, Run
<1>6. TypeOK'
  BY <1>2, <1>5 DEF TypeOK, SameBudget
<1>7. \A p \in Plugin : Bound(p)' = release[p]
  BY <1>2, <1>3, <1>5 DEF Bound, HasWish, Wished, SameBudget
<1>8. DirInv'
  <2>1. \A p \in Plugin : Bound(p) \in Nat /\ release[p] \in Nat
    BY BoundFacts, Releases
  <2>2. ASSUME NEW p \in Plugin, NEW v \in Versions
        PROVE  /\ dir[<<p, v>>].mark <= release[p]
               /\ dir[<<p, v>>].mark = release[p] =>
                    dir[<<p, v>>].st = "whole" /\ dir[<<p, v>>].rel = release[p]
    <3>1. dir[<<p, v>>].mark \in Nat
      BY BoundFacts, DirFields
    <3> QED
      BY <2>1, <3>1 DEF DirInv
  <2> QED
    BY <1>2, <1>7, <2>1, <2>2 DEF DirInv, SameBudget
<1>9. Progress'
  BY <1>3, <1>5 DEF Progress, Wished, Installing, Fetching, Placing
<1> QED
  BY <1>5, <1>6, <1>8, <1>9 DEF CurInv, Installed, Documents, Dashboards,
     Fetching, Placing, Rendered

\* A new release only raises what a launch may be asked for.
LEMMA PublishKeeps ==
  ASSUME IInv, NEW p \in Plugin, Publish(p)
  PROVE  IInv'
<1> USE DEF IInv
<1>1. UNCHANGED <<dir, link, yaml, unsigned, dash, run, faults, kills>>
  BY DEF Publish, files
<1>2. /\ release' \in [Plugin -> Release]
      /\ release'[p] = release[p] + 1
      /\ \A q \in Plugin \ {p} : release'[q] = release[q]
  BY ReconcileAssumption DEF Publish, TypeOK, Release
<1>3. TypeOK'
  BY <1>1, <1>2 DEF TypeOK
<1>4. DirInv'
  <2>1. ASSUME NEW q \in Plugin
        PROVE  /\ Bound(q)' \in Nat /\ Bound(q) \in Nat
               /\ Bound(q)' <= release'[q]
               /\ Bound(q)' = Bound(q) \/ Bound(q)' > Bound(q)
    <3>1. /\ release[q] \in Nat /\ release'[q] \in Nat /\ Bound(q) \in Nat
          /\ Bound(q) <= release[q]
      BY <1>2, BoundFacts, Releases DEF DirInv
    <3>2. HasWish(q)' <=> HasWish(q)
      BY <1>1 DEF HasWish, Wished
    <3>3. CASE HasWish(q)
      BY <1>1, <1>2, <3>1, <3>2, <3>3 DEF Bound
    <3>4. CASE ~HasWish(q)
      BY <1>1, <1>2, <3>1, <3>2, <3>4 DEF Bound
    <3> QED
      BY <3>3, <3>4
  <2>2. ASSUME NEW q \in Plugin, NEW v \in Versions
        PROVE  (/\ dir[<<q, v>>].mark <= Bound(q)
                /\ dir[<<q, v>>].mark = Bound(q) =>
                     dir[<<q, v>>].st = "whole" /\ dir[<<q, v>>].rel = Bound(q))'
    <3>1. dir[<<q, v>>].mark \in Nat
      BY BoundFacts, DirFields
    <3>2. /\ dir[<<q, v>>].mark <= Bound(q)
          /\ dir[<<q, v>>].mark = Bound(q) =>
               dir[<<q, v>>].st = "whole" /\ dir[<<q, v>>].rel = Bound(q)
      BY DEF DirInv
    <3> QED
      BY <1>1, <2>1, <3>1, <3>2
  <2> QED
    BY <2>1, <2>2 DEF DirInv
<1>5. Progress'
  BY <1>1 DEF Progress, HasWish, Wished
<1>6. CurInv'
  BY <1>1 DEF CurInv, Cur, Want
<1> QED
  BY <1>1, <1>3, <1>4, <1>5, <1>6
     DEF Installed, Documents, Dashboards, Owners

-----------------------------------------------------------------------------
(***************************************************************************)
(* install_all                                                             *)
(***************************************************************************)

\* A plugin is being installed and the step leaves the others alone.
LEMMA InstallStep ==
  ASSUME IInv, SameBudget, run.pc \in Installing,
         run' \in Run, run'.pc \in Fetching \cup Placing,
         run'.wish = run.wish, run'.ok = run.ok, run'.todo = run.todo,
         run'.cur \in run.todo, HasWish(run'.cur),
         DirsFit, dir' \in [Plugin \X Versions -> Dir],
         \A q \in run.ok, v \in Versions : dir'[<<q, v>>] = dir[<<q, v>>],
         link' \in [Plugin -> Versions \cup {"none", "user"}],
         \A q \in run.ok : link'[q] = link[q],
         UNCHANGED <<yaml, unsigned, dash>>, CurInv'
  PROVE  IInv'
<1> USE DEF IInv
<1>1. TypeOK'
  BY DEF TypeOK, SameBudget
<1>2. DirInv'
  BY DirsKeep DEF SameBudget
<1>3. Progress'
  BY DEF Progress, Installing, Fetching, Placing, HasWish, Wished
<1>4. Installed'
  <2>1. \A q \in run.ok : run.wish[q] \in Release /\ q \in Plugin
    BY RunFields DEF Installed, Progress
  <2>2. ASSUME NEW q \in run.ok
        PROVE  /\ run'.wish[q] # None /\ link'[q] = Version[q][run'.wish[q]]
               /\ dir'[<<q, link'[q]>>].st = "whole"
               /\ dir'[<<q, link'[q]>>].rel = run'.wish[q]
    <3>1. link[q] \in Versions
      BY <2>1, Releases DEF Installed
    <3>2. dir'[<<q, link'[q]>>] = dir[<<q, link[q]>>]
      BY <3>1
    <3> QED
      BY <3>2 DEF Installed
  <2> QED
    BY <2>2 DEF Installed
<1>5. Documents' /\ Dashboards'
  BY DEF Documents, Dashboards, Rendered, Fetching, Placing
<1> QED
  BY <1>1, <1>2, <1>3, <1>4, <1>5

\* The plugin being installed, its directory, and the others'.
LEMMA CurFacts ==
  ASSUME IInv, run.pc \in Fetching \cup Placing
  PROVE  /\ run.cur \in run.todo /\ run.cur \in Plugin /\ run.cur \notin run.ok
         /\ HasWish(run.cur) /\ Want \in Release /\ Want = Bound(run.cur)
         /\ Version[run.cur][Want] \in Versions
         /\ Cur = <<run.cur, Version[run.cur][Want]>>
         /\ Cur \in Plugin \X Versions /\ dir[Cur] \in Dir
         /\ run.pc \in Installing
         /\ run.ok \subseteq Plugin
<1>1. /\ run.cur \in run.todo /\ run.cur \in Plugin /\ run.cur \notin run.ok
      /\ HasWish(run.cur) /\ run.pc \in Installing /\ run.ok \subseteq Plugin
  BY RunFields DEF IInv, Progress, Installing
<1>2. Want \in Release /\ Want = Bound(run.cur)
  BY <1>1, BoundFacts DEF IInv, Want, Bound
<1>3. Version[run.cur][Want] \in Versions
  BY <1>1, <1>2, Releases
<1>4. Cur = <<run.cur, Version[run.cur][Want]>> /\ Cur \in Plugin \X Versions
  BY <1>1, <1>3 DEF Cur
<1> QED
  BY <1>1, <1>2, <1>3, <1>4 DEF IInv, TypeOK

\* What becomes of the directories when the one being installed becomes d.
LEMMA SetDirFacts ==
  ASSUME IInv, run.pc \in Fetching \cup Placing, NEW d \in Dir, SetDir(d),
         d.mark <= Want, d.mark = Want => d.st = "whole" /\ d.rel = Want
  PROVE  /\ dir' \in [Plugin \X Versions -> Dir] /\ dir'[Cur] = d
         /\ \A q \in run.ok, v \in Versions : dir'[<<q, v>>] = dir[<<q, v>>]
         /\ DirsFit
         /\ UNCHANGED <<link, yaml, unsigned, dash>>
<1>1. /\ run.cur \in Plugin /\ run.cur \notin run.ok /\ Want = Bound(run.cur)
      /\ Cur = <<run.cur, Version[run.cur][Want]>>
      /\ Cur \in Plugin \X Versions /\ run.ok \subseteq Plugin
  BY CurFacts
<1>2. /\ dir' \in [Plugin \X Versions -> Dir] /\ dir'[Cur] = d
      /\ \A e \in Plugin \X Versions : e # Cur => dir'[e] = dir[e]
      /\ UNCHANGED <<link, yaml, unsigned, dash>>
  BY <1>1 DEF SetDir, IInv, TypeOK
<1>3. \A q \in run.ok, v \in Versions : dir'[<<q, v>>] = dir[<<q, v>>]
  BY <1>1, <1>2
<1>4. ASSUME NEW p \in Plugin, NEW v \in Versions
      PROVE  /\ dir'[<<p, v>>].mark <= Bound(p)
             /\ dir'[<<p, v>>].mark = Bound(p) =>
                  dir'[<<p, v>>].st = "whole" /\ dir'[<<p, v>>].rel = Bound(p)
  <2>1. CASE <<p, v>> = Cur
    BY <1>1, <1>2, <2>1
  <2>2. CASE <<p, v>> # Cur
    BY <1>2, <2>2 DEF IInv, DirInv
  <2> QED
    BY <2>1, <2>2
<1> QED
  BY <1>2, <1>3, <1>4 DEF DirsFit

\* A step that changes no file.
LEMMA QuietInstall ==
  ASSUME IInv, NoFault, UNCHANGED files, run.pc \in Installing,
         run' \in Run, run'.pc \in Fetching \cup Placing,
         run'.wish = run.wish, run'.ok = run.ok, run'.todo = run.todo,
         run'.cur \in run.todo, HasWish(run'.cur), CurInv'
  PROVE  IInv'
<1>1. UNCHANGED <<dir, link, yaml, unsigned, dash>>
  BY DEF files
<1>2. SameBudget /\ DirsFit /\ dir' \in [Plugin \X Versions -> Dir]
  BY <1>1, SameDirs, BudgetKept DEF IInv
<1> QED
  BY <1>1, <1>2, InstallStep DEF IInv, TypeOK

LEMMA DownloadKeeps ==
  ASSUME IInv, download_artifact \/ untar
  PROVE  IInv'
<1>1. CASE FailCur /\ run.pc \in {"download", "unpack"}
  BY <1>1, FailCurKeeps DEF Fetching
<1>2. CASE /\ NoFault /\ UNCHANGED files
           /\ \/ run.pc = "download" /\ Goto("unpack")
              \/ run.pc = "unpack" /\ Goto("remove")
  <2>1. /\ run' \in Run /\ run'.pc \in Fetching /\ run.pc \in Fetching
        /\ run'.todo = run.todo /\ run'.cur = run.cur
        /\ run'.ok = run.ok /\ run'.wish = run.wish
    BY <1>2, GotoFacts DEF IInv, RunPc, Fetching
  <2>2. CurInv'
    BY <1>2, <2>1 DEF IInv, CurInv, Cur, Want, Fetching, Placing, files
  <2> QED
    BY <1>2, <2>1, <2>2, CurFacts, QuietInstall
<1> QED
  BY <1>1, <1>2 DEF download_artifact, untar

LEMMA InstallAllKeeps ==
  ASSUME IInv, install_all
  PROVE  IInv'
<1> USE DEF IInv
<1>1. /\ run.pc = "install" /\ NoFault /\ SameBudget /\ run.pc \in Installing
      /\ UNCHANGED files /\ UNCHANGED <<dir, link, yaml, unsigned, dash>>
      /\ DirsFit /\ dir' \in [Plugin \X Versions -> Dir]
  BY BudgetKept, SameDirs DEF install_all, files, Installing
<1>2. CASE run.todo = {} /\ GotoFor("prune", Plugin)
  <2>1. /\ run' \in Run /\ run'.pc = "prune"
        /\ run'.ok = run.ok /\ run'.wish = run.wish
    BY <1>2, GotoForFacts DEF RunPc
  <2>2. TypeOK'
    BY <1>1, <2>1 DEF TypeOK, SameBudget
  <2>3. DirInv'
    BY <1>1, <2>1, DirsKeep DEF SameBudget
  <2>4. Progress'
    BY <1>1, <1>2, <2>1 DEF Progress, Installing, Fetching, Placing, Wished
  <2>5. Installed'
    BY <1>1, <2>1 DEF Installed
  <2> QED
    BY <2>1, <2>2, <2>3, <2>4, <2>5 DEF CurInv, Documents, Dashboards,
       Fetching, Placing, Rendered
<1>3. CASE \E p \in run.todo :
             IF run.wish[p] = None THEN Failed(p)
             ELSE run' = [run EXCEPT !.cur = p, !.pc =
                    IF cache_valid(<<p, Version[p][run.wish[p]]>>, run.wish[p])
                    THEN "exec" ELSE "download"]
  <2>1. PICK p \in run.todo :
             IF run.wish[p] = None THEN Failed(p)
             ELSE run' = [run EXCEPT !.cur = p, !.pc =
                    IF cache_valid(<<p, Version[p][run.wish[p]]>>, run.wish[p])
                    THEN "exec" ELSE "download"]
    BY <1>3
  <2>2. CASE run.wish[p] = None
    BY <1>1, <2>1, <2>2, FailedKeeps
  <2>3. CASE run.wish[p] # None
    <3> DEFINE valid == cache_valid(<<p, Version[p][run.wish[p]]>>, run.wish[p])
               pc == IF valid THEN "exec" ELSE "download"
    <3>1. run' = [run EXCEPT !.cur = p, !.pc = pc]
      BY <2>1, <2>3
    <3>2. pc \in {"exec", "download"} /\ (pc = "exec" <=> valid)
      OBVIOUS
    <3> HIDE DEF pc
    <3>3. p \in Plugin /\ p \in Wished /\ HasWish(p)
      BY <1>1, <2>3, RunFields DEF Progress, HasWish
    <3>4. /\ run' \in Run /\ run'.pc = pc /\ run'.cur = p
          /\ run'.todo = run.todo /\ run'.ok = run.ok /\ run'.wish = run.wish
      BY <3>1, <3>2, <3>3 DEF TypeOK, Run
    <3>5. /\ run.wish[p] = Bound(p) /\ run.wish[p] \in Release
          /\ Version[p][run.wish[p]] \in Versions
      BY <3>3, BoundFacts, Releases DEF Bound
    <3>6. CurInv'
      <4>1. (Cur)' = <<p, Version[p][run.wish[p]]>> /\ (Want)' = run.wish[p]
        BY <3>4 DEF Cur, Want
      <4>2. pc = "download" => dir[<<p, Version[p][run.wish[p]]>>].mark # run.wish[p]
        BY <3>2 DEF cache_valid
      <4>3. pc = "exec" =>
              /\ dir[<<p, Version[p][run.wish[p]]>>].st = "whole"
              /\ dir[<<p, Version[p][run.wish[p]]>>].rel = run.wish[p]
        BY <3>2, <3>3, <3>5 DEF cache_valid, DirInv
      <4> QED
        BY <1>1, <3>2, <3>4, <4>1, <4>2, <4>3 DEF CurInv, Fetching, Placing
    <3> QED
      BY <1>1, <3>2, <3>3, <3>4, <3>6, QuietInstall DEF Fetching, Placing
  <2> QED
    BY <2>2, <2>3
<1> QED
  BY <1>2, <1>3 DEF install_all

\* What was there is removed before the directory is renamed.
LEMMA ExtractKeeps ==
  ASSUME IInv, extract_into
  PROVE  IInv'
<1> USE DEF IInv
<1>0. run.pc = "remove" /\ run.pc \in Fetching
  BY DEF extract_into, Fetching
<1>1. /\ run.cur \in run.todo /\ run.cur \in Plugin /\ HasWish(run.cur)
      /\ Want \in Release /\ Want \in Nat /\ dir[Cur] \in Dir
      /\ run.pc \in Installing /\ Want # None
  BY <1>0, CurFacts, Releases
<1>2. /\ dir[Cur].mark <= Want /\ dir[Cur].mark # Want
      /\ dir[Cur].mark \in Nat
  BY <1>0, CurFacts, DirFields DEF DirInv, CurInv
<1>3. CASE /\ \/ SetDir(NoDir)
              \/ \E m \in {dir[Cur].mark, None} :
                   SetDir([dir[Cur] EXCEPT !.st = "part", !.mark = m])
           /\ \/ Goto("remove") /\ NoFault
              \/ Fault /\ Failed(run.cur)
  <2>1. PICK d \in Dir : SetDir(d) /\ d.mark # Want /\ d.mark <= Want
    <3>1. CASE SetDir(NoDir)
      <4>1. NoDir \in Dir /\ NoDir.mark = 0
        BY DEF NoDir, Dir, None
      <4> QED
        BY <1>1, <3>1, <4>1 DEF None
    <3>2. CASE \E m \in {dir[Cur].mark, None} :
                 SetDir([dir[Cur] EXCEPT !.st = "part", !.mark = m])
      <4>1. PICK m \in {dir[Cur].mark, None} :
                 SetDir([dir[Cur] EXCEPT !.st = "part", !.mark = m])
        BY <3>2
      <4> DEFINE d == [dir[Cur] EXCEPT !.st = "part", !.mark = m]
      <4>2. d \in Dir /\ d.mark = m
        BY <1>1 DEF Dir
      <4>3. m # Want /\ m <= Want
        BY <1>1, <1>2 DEF None
      <4> QED
        BY <4>1, <4>2, <4>3
    <3> QED
      BY <1>3, <3>1, <3>2
  <2>2. /\ dir' \in [Plugin \X Versions -> Dir] /\ dir'[Cur] = d
        /\ \A q \in run.ok, v \in Versions : dir'[<<q, v>>] = dir[<<q, v>>]
        /\ DirsFit
        /\ UNCHANGED <<link, yaml, unsigned, dash>>
    BY <1>0, <2>1, SetDirFacts
  <2>3. CASE Goto("remove") /\ NoFault
    <3>1. /\ run' \in Run /\ run'.pc = "remove" /\ run'.todo = run.todo
          /\ run'.cur = run.cur /\ run'.ok = run.ok /\ run'.wish = run.wish
      BY <2>3, GotoFacts DEF RunPc
    <3>2. CurInv'
      BY <2>1, <2>2, <3>1 DEF CurInv, Cur, Want, Fetching, Placing
    <3>3. SameBudget
      BY <2>3, BudgetKept
    <3> QED
      BY <1>1, <2>2, <3>1, <3>2, <3>3, InstallStep DEF TypeOK, Fetching
  <2>4. CASE Fault /\ Failed(run.cur)
    BY <1>1, <2>2, <2>4, BudgetKept, FailedKeeps
  <2> QED
    BY <1>3, <2>3, <2>4
<1>4. CASE /\ SetDir([st |-> "whole", rel |-> Want, mark |-> None])
           /\ Goto("exec") /\ NoFault
  <2> DEFINE d == [st |-> "whole", rel |-> Want, mark |-> None]
  <2>1. /\ d \in Dir /\ d.st = "whole" /\ d.rel = Want /\ d.mark = 0
    BY <1>1 DEF Dir, None
  <2>2. /\ dir' \in [Plugin \X Versions -> Dir] /\ dir'[Cur] = d
        /\ \A q \in run.ok, v \in Versions : dir'[<<q, v>>] = dir[<<q, v>>]
        /\ DirsFit
        /\ UNCHANGED <<link, yaml, unsigned, dash>>
    <3>1. SetDir(d) /\ d.mark <= Want
      BY <1>1, <1>4, <2>1
    <3> HIDE DEF d
    <3> QED
      BY <1>0, <2>1, <3>1, SetDirFacts
  <2>3. /\ run' \in Run /\ run'.pc = "exec" /\ run'.todo = run.todo
        /\ run'.cur = run.cur /\ run'.ok = run.ok /\ run'.wish = run.wish
    BY <1>4, GotoFacts DEF RunPc
  <2>4. CurInv'
    BY <2>1, <2>2, <2>3 DEF CurInv, Cur, Want, Fetching, Placing
  <2>5. SameBudget
    BY <1>4, BudgetKept
  <2> QED
    BY <1>1, <2>2, <2>3, <2>4, <2>5, InstallStep DEF TypeOK, Placing
<1>5. CASE FailCur
  BY <1>0, <1>5, FailCurKeeps
<1> QED
  BY <1>3, <1>4, <1>5 DEF extract_into

LEMMA ExecutableKeeps ==
  ASSUME IInv, ensure_backend_executable
  PROVE  IInv'
<1> USE DEF IInv
<1>0. run.pc = "exec" /\ run.pc \in Placing
  BY DEF ensure_backend_executable, Placing
<1> DEFINE pc == IF cache_valid(Cur, Want) THEN "link" ELSE "mark"
<1>1. CASE Goto(pc) /\ NoFault /\ UNCHANGED files
  <2>1. pc \in RunPc /\ pc \in Placing /\ pc \notin Fetching
    BY DEF RunPc, Placing, Fetching
  <2> HIDE DEF pc
  <2>2. /\ run' \in Run /\ run'.pc = pc /\ run'.todo = run.todo
        /\ run'.cur = run.cur /\ run'.ok = run.ok /\ run'.wish = run.wish
    BY <1>1, <2>1, GotoFacts
  <2>3. CurInv'
    BY <1>0, <1>1, <2>1, <2>2 DEF CurInv, Cur, Want, files
  <2> QED
    BY <1>0, <1>1, <2>1, <2>2, <2>3, CurFacts, QuietInstall
<1>2. CASE FailCur
  BY <1>0, <1>2, FailCurKeeps
<1> QED
  BY <1>1, <1>2 DEF ensure_backend_executable

LEMMA WriteMarkKeeps ==
  ASSUME IInv, WriteMark
  PROVE  IInv'
<1> USE DEF IInv
<1>0. run.pc = "mark" /\ run.pc \in Placing
  BY DEF WriteMark, Placing
<1>1. /\ run.cur \in run.todo /\ HasWish(run.cur) /\ run.pc \in Installing
      /\ Want \in Release /\ Want \in Nat /\ dir[Cur] \in Dir
      /\ dir[Cur].st = "whole" /\ dir[Cur].rel = Want
  BY <1>0, CurFacts, Releases DEF CurInv
<1>2. CASE /\ SetDir([dir[Cur] EXCEPT !.mark = Want])
           /\ Goto("link") /\ NoFault
  <2> DEFINE d == [dir[Cur] EXCEPT !.mark = Want]
  <2>1. d \in Dir /\ d.mark = Want /\ d.st = "whole" /\ d.rel = Want
    BY <1>1 DEF Dir
  <2>2. SetDir(d) /\ d.mark <= Want
    BY <1>1, <1>2, <2>1
  <2> HIDE DEF d
  <2>3. /\ dir' \in [Plugin \X Versions -> Dir] /\ dir'[Cur] = d
        /\ \A q \in run.ok, v \in Versions : dir'[<<q, v>>] = dir[<<q, v>>]
        /\ DirsFit
        /\ UNCHANGED <<link, yaml, unsigned, dash>>
    BY <1>0, <2>1, <2>2, SetDirFacts
  <2>4. /\ run' \in Run /\ run'.pc = "link" /\ run'.todo = run.todo
        /\ run'.cur = run.cur /\ run'.ok = run.ok /\ run'.wish = run.wish
    BY <1>2, GotoFacts DEF RunPc
  <2>5. CurInv'
    BY <2>1, <2>3, <2>4 DEF CurInv, Cur, Want, Fetching, Placing
  <2>6. SameBudget
    BY <1>2, BudgetKept
  <2> QED
    BY <1>1, <2>3, <2>4, <2>5, <2>6, InstallStep DEF TypeOK, Placing
<1>3. CASE FailCur
  BY <1>0, <1>3, FailCurKeeps
<1> QED
  BY <1>2, <1>3 DEF WriteMark

\* The plugin is linked: its directory is whole, and no other link changes.
LEMMA LinkedKeeps ==
  ASSUME IInv, NoFault, run.pc \in {"link", "symlink"}, Done(run.cur, TRUE),
         dir' = dir, link' \in [Plugin -> Versions \cup {"none", "user"}],
         link'[run.cur] = Cur[2],
         \A q \in run.ok : link'[q] = link[q],
         UNCHANGED <<yaml, unsigned, dash>>
  PROVE  IInv'
<1> USE DEF IInv
<1>0. run.pc \in Placing
  BY DEF Placing
<1>1. /\ run.cur \in run.todo /\ run.cur \in Plugin /\ HasWish(run.cur)
      /\ Want \in Release /\ Cur = <<run.cur, Version[run.cur][Want]>>
      /\ dir[Cur].st = "whole" /\ dir[Cur].rel = Want
      /\ run.pc \in Installing
  BY <1>0, CurFacts DEF CurInv
<1>2. /\ run' \in Run /\ run'.pc = "install" /\ run'.todo = run.todo \ {run.cur}
      /\ run'.ok = run.ok \cup {run.cur} /\ run'.wish = run.wish
  BY <1>1, DoneFacts
<1>3. SameBudget /\ DirsFit
  BY BudgetKept, SameDirs
<1>4. TypeOK'
  BY <1>2, <1>3 DEF TypeOK, SameBudget
<1>5. DirInv'
  BY <1>2, <1>3, DirsKeep DEF SameBudget
<1>6. Progress'
  BY <1>1, <1>2 DEF Progress, Installing, Fetching, Placing, Wished
<1>7. Installed'
  <2>1. ASSUME NEW q \in run.ok
        PROVE  /\ run'.wish[q] # None /\ link'[q] = Version[q][run'.wish[q]]
               /\ dir'[<<q, link'[q]>>].st = "whole"
               /\ dir'[<<q, link'[q]>>].rel = run'.wish[q]
    BY <1>2 DEF Installed
  <2>2. /\ run'.wish[run.cur] = Want /\ Want # None
        /\ link'[run.cur] = Version[run.cur][Want]
        /\ <<run.cur, link'[run.cur]>> = Cur
    BY <1>1, <1>2, Releases DEF Want
  <2> QED
    BY <1>1, <1>2, <2>1, <2>2 DEF Installed
<1> QED
  BY <1>2, <1>4, <1>5, <1>6, <1>7 DEF CurInv, Documents, Dashboards,
     Fetching, Placing, Rendered

LEMMA LinkKeeps ==
  ASSUME IInv, link_plugin
  PROVE  IInv'
<1> USE DEF IInv
<1>0. run.pc \in {"link", "symlink"} /\ run.pc \in Placing
  BY DEF link_plugin, Placing
<1>1. /\ run.cur \in run.todo /\ run.cur \in Plugin /\ run.cur \notin run.ok
      /\ HasWish(run.cur) /\ Want \in Release
      /\ Cur = <<run.cur, Version[run.cur][Want]>>
      /\ Version[run.cur][Want] \in Versions
      /\ run.pc \in Installing /\ run.ok \subseteq Plugin
  BY <1>0, CurFacts
<1>2. CASE /\ run.pc = "link" /\ link[run.cur] = Cur[2]
           /\ Done(run.cur, TRUE) /\ UNCHANGED files /\ NoFault
  BY <1>2, LinkedKeeps DEF files, TypeOK
<1>3. CASE /\ run.pc = "link" /\ NoFault
           /\ SetLink(run.cur, "none") /\ Goto("symlink")
  <2>1. /\ link' \in [Plugin -> Versions \cup {"none", "user"}]
        /\ \A q \in run.ok : link'[q] = link[q]
        /\ UNCHANGED <<dir, yaml, unsigned, dash>>
    BY <1>1, <1>3 DEF SetLink, TypeOK
  <2>2. /\ run' \in Run /\ run'.pc = "symlink" /\ run'.todo = run.todo
        /\ run'.cur = run.cur /\ run'.ok = run.ok /\ run'.wish = run.wish
    BY <1>3, GotoFacts DEF RunPc
  <2>3. CurInv'
    BY <1>0, <2>1, <2>2 DEF CurInv, Cur, Want, Fetching, Placing
  <2>4. SameBudget /\ DirsFit /\ dir' \in [Plugin \X Versions -> Dir]
    BY <1>3, <2>1, BudgetKept, SameDirs
  <2> QED
    BY <1>1, <2>1, <2>2, <2>3, <2>4, InstallStep DEF Placing
<1>4. CASE /\ run.pc = "symlink" /\ NoFault
           /\ SetLink(run.cur, Cur[2]) /\ Done(run.cur, TRUE)
  <2>1. /\ link' \in [Plugin -> Versions \cup {"none", "user"}]
        /\ link'[run.cur] = Cur[2]
        /\ \A q \in run.ok : link'[q] = link[q]
        /\ UNCHANGED <<dir, yaml, unsigned, dash>>
    BY <1>1, <1>4 DEF SetLink, TypeOK
  <2> QED
    BY <1>4, <2>1, LinkedKeeps
<1>5. CASE FailCur
  BY <1>0, <1>5, FailCurKeeps
<1> QED
  BY <1>2, <1>3, <1>4, <1>5 DEF link_plugin

-----------------------------------------------------------------------------
(***************************************************************************)
(* What a launch does when its plugins are installed                       *)
(***************************************************************************)

Later == {"prune", "stale", "render", "unsigned", "tidy", "copy", "up"}

\* The plugins stay installed, and what is left is what Grafana is told.
LEMMA LaterStep ==
  ASSUME IInv, NoFault, run.pc \in Later,
         run' \in Run, run'.pc \in Later,
         run'.wish = run.wish, run'.ok = run.ok,
         run'.pc = "render" => run'.todo \subseteq run.ok,
         run'.pc = "copy" => run'.todo \subseteq run.ok \cap App,
         run'.pc = "up" => run'.todo = {},
         dir' = dir, link' \in [Plugin -> Versions \cup {"none", "user"}],
         \A q \in run.ok : link'[q] = link[q],
         yaml' \in [Plugin -> {"none", "old", "new"}],
         unsigned' \in SUBSET Plugin,
         dash' \in [{Title[p] : p \in Plugin} -> {<<>>} \cup (App \X Release)],
         Documents', Dashboards'
  PROVE  IInv'
<1> USE DEF IInv
<1>1. SameBudget /\ DirsFit
  BY BudgetKept, SameDirs
<1>2. TypeOK'
  BY <1>1 DEF TypeOK, SameBudget
<1>3. DirInv'
  BY <1>1, DirsKeep DEF SameBudget
<1>4. Progress'
  BY DEF Progress, Later, Installing, Fetching, Placing, Wished
<1>5. CurInv'
  BY DEF CurInv, Later, Fetching, Placing
<1>6. Installed'
  BY DEF Installed
<1> QED
  BY <1>2, <1>3, <1>4, <1>5, <1>6

\* A step that changes no file.
LEMMA QuietLater ==
  ASSUME IInv, NoFault, UNCHANGED files, run.pc \in Later,
         NEW pc \in Later, Goto(pc),
         pc # "render", pc # "copy", pc = "up" => run.todo = {},
         Documents', Dashboards'
  PROVE  IInv'
<1>1. UNCHANGED <<dir, link, yaml, unsigned, dash>>
  BY DEF files
<1>2. pc \in RunPc
  BY DEF Later, RunPc
<1>3. /\ run' \in Run /\ run'.pc = pc /\ run'.todo = run.todo
      /\ run'.ok = run.ok /\ run'.wish = run.wish
  BY <1>2, GotoFacts DEF IInv
<1> QED
  BY <1>1, <1>3, LaterStep DEF IInv, TypeOK

LEMMA PruneKeeps ==
  ASSUME IInv, prune
  PROVE  IInv'
<1> USE DEF IInv
<1>0. run.pc = "prune" /\ run.pc \in Later
  BY DEF prune, Later
<1>1. CASE /\ \E p \in run.todo :
                /\ GotoFor("prune", run.todo \ {p})
                /\ SetLink(p, IF link[p] = "user" \/ p \in Wished
                              THEN link[p] ELSE "none")
           /\ NoFault
  <2>1. PICK p \in run.todo :
                /\ GotoFor("prune", run.todo \ {p})
                /\ SetLink(p, IF link[p] = "user" \/ p \in Wished
                              THEN link[p] ELSE "none")
    BY <1>1
  <2>2. p \in Plugin /\ run.todo \ {p} \in SUBSET Plugin
    BY RunFields
  <2>3. /\ run' \in Run /\ run'.pc = "prune"
        /\ run'.ok = run.ok /\ run'.wish = run.wish
    BY <2>1, <2>2, GotoForFacts DEF RunPc
  <2>4. /\ link' \in [Plugin -> Versions \cup {"none", "user"}]
        /\ \A q \in Wished : link'[q] = link[q]
        /\ UNCHANGED <<dir, yaml, unsigned, dash>>
    BY <2>1, <2>2, RunFields DEF SetLink, TypeOK
  <2>5. \A q \in run.ok : link'[q] = link[q]
    BY <2>4 DEF Progress
  <2>6. Documents' /\ Dashboards'
    BY <2>3 DEF Documents, Dashboards, Rendered
  <2> QED
    BY <1>0, <1>1, <2>3, <2>4, <2>5, <2>6, LaterStep DEF TypeOK
<1>2. CASE Goto("stale") /\ NoFault /\ UNCHANGED files
  <2>1. run'.pc = "stale"
    BY <1>2, GotoFacts DEF RunPc
  <2>2. Documents' /\ Dashboards'
    BY <2>1 DEF Documents, Dashboards, Rendered
  <2> QED
    BY <1>0, <1>2, <2>2, QuietLater DEF Later
<1>3. CASE FailRun
  BY <1>3, FailRunKeeps
<1> QED
  BY <1>1, <1>2, <1>3 DEF prune

LEMMA PruneProvisioningKeeps ==
  ASSUME IInv, prune_provisioning
  PROVE  IInv'
<1> USE DEF IInv
<1>0. run.pc = "stale" /\ run.pc \in Later
  BY DEF prune_provisioning, Later
<1>1. CASE /\ SetYaml([p \in Plugin |-> IF p \in App \ run.ok THEN "none"
                                        ELSE yaml[p]])
           /\ GotoFor("render", run.ok) /\ NoFault
  <2>1. /\ run' \in Run /\ run'.pc = "render" /\ run'.todo = run.ok
        /\ run'.ok = run.ok /\ run'.wish = run.wish
    BY <1>1, RunFields, GotoForFacts DEF RunPc
  <2>2. /\ yaml' \in [Plugin -> {"none", "old", "new"}]
        /\ \A p \in App \ run.ok : yaml'[p] = "none"
        /\ UNCHANGED <<dir, link, unsigned, dash>>
    BY <1>1, ReconcileAssumption DEF SetYaml, TypeOK
  <2>3. Documents' /\ Dashboards'
    BY <2>1, <2>2 DEF Documents, Dashboards, Rendered
  <2> QED
    BY <1>0, <1>1, <2>1, <2>2, <2>3, LaterStep DEF TypeOK, Later
<1>2. CASE FailRun
  BY <1>2, FailRunKeeps
<1> QED
  BY <1>1, <1>2 DEF prune_provisioning

LEMMA RenderKeeps ==
  ASSUME IInv, render
  PROVE  IInv'
<1> USE DEF IInv
<1>0. run.pc = "render" /\ run.pc \in Later
  BY DEF render, Later
<1>1. CASE \E p \in run.todo : render_app(p) \/ render_datasource(p)
  <2>1. PICK p \in run.todo : RenderOne(p)
    BY <1>1 DEF render_app, render_datasource
  <2>2. /\ p \in Plugin /\ run.todo \ {p} \in SUBSET Plugin
        /\ run.todo \subseteq run.ok /\ NoFault
    BY <1>0, <2>1, RunFields DEF Progress, RenderOne
  <2>3. /\ run' \in Run /\ run'.pc = "render" /\ run'.todo = run.todo \ {p}
        /\ run'.ok = run.ok /\ run'.wish = run.wish
    BY <2>1, <2>2, GotoForFacts DEF RunPc, RenderOne
  <2>4. /\ yaml' \in [Plugin -> {"none", "old", "new"}]
        /\ yaml'[p] = "new" /\ \A q \in Plugin \ {p} : yaml'[q] = yaml[q]
        /\ UNCHANGED <<dir, link, unsigned, dash>>
    BY <2>1, <2>2 DEF RenderOne, SetYaml, TypeOK
  <2>5. Documents' /\ Dashboards'
    <3>1. /\ \A q \in run.ok \ run.todo : yaml[q] = "new"
          /\ \A q \in App \ run.ok : yaml[q] = "none"
      BY <1>0 DEF Documents, Rendered
    <3>2. /\ \A q \in run.ok \ (run.todo \ {p}) : yaml'[q] = "new"
          /\ \A q \in App \ run.ok : yaml'[q] = "none"
      BY <2>2, <2>4, <3>1, RunFields, ReconcileAssumption
    <3> QED
      BY <2>3, <3>2 DEF Documents, Dashboards
  <2> QED
    BY <1>0, <2>2, <2>3, <2>4, <2>5, LaterStep DEF TypeOK
<1>2. CASE run.todo = {} /\ Goto("unsigned") /\ NoFault /\ UNCHANGED files
  <2>1. /\ run'.pc = "unsigned" /\ run'.ok = run.ok /\ run'.todo = {}
        /\ yaml' = yaml
    BY <1>2, GotoFacts DEF RunPc, files
  <2>2. Documents' /\ Dashboards'
    BY <1>0, <1>2, <2>1 DEF Documents, Dashboards, Rendered
  <2> QED
    BY <1>0, <1>2, <2>2, QuietLater DEF Later
<1>3. CASE FailRun
  BY <1>3, FailRunKeeps
<1> QED
  BY <1>1, <1>2, <1>3 DEF render

LEMMA UnsignedKeeps ==
  ASSUME IInv, write_unsigned_plugins_list
  PROVE  IInv'
<1> USE DEF IInv
<1>0. run.pc = "unsigned" /\ run.pc \in Later
  BY DEF write_unsigned_plugins_list, Later
<1>1. CASE /\ unsigned' = run.ok /\ UNCHANGED <<dir, link, yaml, dash>>
           /\ Goto("tidy") /\ NoFault
  <2>1. /\ run' \in Run /\ run'.pc = "tidy"
        /\ run'.ok = run.ok /\ run'.wish = run.wish
    BY <1>1, GotoFacts DEF RunPc
  <2>2. Documents' /\ Dashboards'
    BY <1>0, <1>1, <2>1 DEF Documents, Dashboards, Rendered
  <2> QED
    BY <1>0, <1>1, <2>1, <2>2, RunFields, LaterStep DEF TypeOK, Later
<1>2. CASE FailRun
  BY <1>2, FailRunKeeps
<1> QED
  BY <1>1, <1>2 DEF write_unsigned_plugins_list

-----------------------------------------------------------------------------
(***************************************************************************)
(* The dashboards                                                          *)
(***************************************************************************)

LEMMA PruneDashboardsKeeps ==
  ASSUME IInv, prune_dashboard_dirs
  PROVE  IInv'
<1> USE DEF IInv
<1>0. run.pc = "tidy" /\ run.pc \in Later
  BY DEF prune_dashboard_dirs, Later
<1> DEFINE owned == {Title[p] : p \in run.ok \cap App}
           d == [t \in DOMAIN dash |-> IF t \in owned THEN dash[t] ELSE <<>>]
<1>1. CASE SetDash(d) /\ GotoFor("copy", run.ok \cap App) /\ NoFault
  <2>1. /\ run' \in Run /\ run'.pc = "copy" /\ run'.todo = run.ok \cap App
        /\ run'.ok = run.ok /\ run'.wish = run.wish
    BY <1>1, RunFields, GotoForFacts DEF RunPc
  <2>2. /\ dash' = d /\ DOMAIN dash' = DOMAIN dash
        /\ dash' \in [{Title[p] : p \in Plugin} -> {<<>>} \cup (App \X Release)]
        /\ UNCHANGED <<dir, link, yaml, unsigned>>
    BY <1>1 DEF SetDash, TypeOK
  <2>3. Dashboards'
    <3>1. ASSUME NEW t \in DOMAIN dash
          PROVE  /\ (Owners(t))' = Owners(t)
                 /\ Owners(t) = {} => dash'[t] = <<>>
                 /\ Owners(t) # {} => Owners(t) \cap run'.todo # {}
      BY <2>1, <2>2 DEF Owners
    <3> HIDE DEF d
    <3> QED
      BY <2>2, <3>1 DEF Dashboards
  <2>4. Documents'
    BY <1>0, <2>1, <2>2 DEF Documents, Rendered
  <2> HIDE DEF d
  <2> QED
    BY <1>0, <1>1, <2>1, <2>2, <2>3, <2>4, LaterStep DEF TypeOK, Later
<1>2. CASE FailRun
  BY <1>2, FailRunKeeps
<1> QED
  BY <1>1, <1>2 DEF prune_dashboard_dirs

\* The link of an installed plugin leads to the release that was wished for.
LEMMA CopyKeeps ==
  ASSUME IInv, provision_dashboards
  PROVE  IInv'
<1> USE DEF IInv
<1>0. run.pc = "copy" /\ run.pc \in Later
  BY DEF provision_dashboards, Later
<1>1. CASE \E p \in run.todo :
             /\ SetDash([dash EXCEPT ![Title[p]] = <<p, dir[<<p, link[p]>>].rel>>])
             /\ GotoFor("copy", run.todo \ {p}) /\ NoFault
  <2>1. PICK p \in run.todo :
             /\ SetDash([dash EXCEPT ![Title[p]] = <<p, dir[<<p, link[p]>>].rel>>])
             /\ GotoFor("copy", run.todo \ {p}) /\ NoFault
    BY <1>1
  <2>2. /\ p \in Plugin /\ p \in run.ok /\ p \in App
        /\ run.todo \subseteq run.ok \cap App
        /\ run.todo \ {p} \in SUBSET Plugin
    BY <1>0, <2>1, RunFields DEF Progress
  <2>3. dir[<<p, link[p]>>].rel = run.wish[p] /\ run.wish[p] \in Release
    BY <2>2, RunFields DEF Installed, Progress
  <2>4. /\ run' \in Run /\ run'.pc = "copy" /\ run'.todo = run.todo \ {p}
        /\ run'.ok = run.ok /\ run'.wish = run.wish
    BY <2>1, <2>2, GotoForFacts DEF RunPc
  <2>5. /\ dash' = [dash EXCEPT ![Title[p]] = <<p, run.wish[p]>>]
        /\ UNCHANGED <<dir, link, yaml, unsigned>>
    BY <2>1, <2>3 DEF SetDash
  <2>6. /\ dash' \in [{Title[q] : q \in Plugin} -> {<<>>} \cup (App \X Release)]
        /\ DOMAIN dash' = DOMAIN dash
        /\ dash'[Title[p]] = <<p, run.wish[p]>>
        /\ \A t \in DOMAIN dash : t # Title[p] => dash'[t] = dash[t]
    BY <2>2, <2>3, <2>5 DEF TypeOK
  <2>7. Dashboards'
    <3>1. ASSUME NEW t \in DOMAIN dash
          PROVE  (/\ Owners(t) = {} => dash[t] = <<>>
                  /\ Owners(t) # {} =>
                       \/ dash[t] \in {<<q, run.wish[q]>> : q \in Owners(t)}
                       \/ Owners(t) \cap run.todo # {})'
      <4>1. (Owners(t))' = Owners(t)
        BY <2>4 DEF Owners
      <4>2. CASE t = Title[p]
        BY <2>2, <2>4, <2>6, <4>1, <4>2 DEF Owners
      <4>3. CASE t # Title[p]
        <5>1. p \notin Owners(t)
          BY <4>3 DEF Owners
        <5> QED
          BY <1>0, <2>4, <2>6, <4>1, <4>3, <5>1 DEF Dashboards
      <4> QED
        BY <4>2, <4>3
    <3> QED
      BY <2>6, <3>1 DEF Dashboards
  <2>8. Documents'
    BY <1>0, <2>4, <2>5 DEF Documents, Rendered
  <2> QED
    BY <1>0, <2>1, <2>2, <2>4, <2>5, <2>6, <2>7, <2>8, LaterStep DEF TypeOK
<1>2. CASE run.todo = {} /\ Goto("up") /\ NoFault /\ UNCHANGED files
  <2>1. /\ run'.pc = "up" /\ run'.ok = run.ok /\ run'.todo = run.todo
        /\ run'.wish = run.wish
        /\ yaml' = yaml /\ unsigned' = unsigned /\ dash' = dash
    BY <1>2, GotoFacts DEF RunPc, files
  <2>2. Documents' /\ Dashboards'
    BY <1>0, <1>2, <2>1 DEF Documents, Dashboards, Rendered, Owners
  <2> QED
    BY <1>0, <1>2, <2>2, QuietLater DEF Later
<1>3. CASE FailRun
  BY <1>3, FailRunKeeps
<1> QED
  BY <1>1, <1>2, <1>3 DEF provision_dashboards

-----------------------------------------------------------------------------
(***************************************************************************)
(* The theorems                                                            *)
(***************************************************************************)

LEMMA ReconcileInit ==
  ASSUME Init
  PROVE  IInv
<1>1. /\ run = Idle /\ run \in Run /\ run.pc = "idle" /\ run.ok = {}
      /\ run.todo = {} /\ DOMAIN run.wish = {}
  <2>1. Idle \in Stopped
    BY DEF Stopped
  <2> QED
    BY <2>1, StoppedRun DEF Init, Idle
<1>2. NoDir \in Dir /\ NoDir.mark = 0
  BY DEF NoDir, Dir, None
<1>3. TypeOK
  <2>1. release \in [Plugin -> Release]
    BY Releases DEF Init
  <2>2. dir \in [Plugin \X Versions -> Dir]
    BY <1>2 DEF Init
  <2> QED
    BY <1>1, <2>1, <2>2, ReconcileAssumption DEF Init, TypeOK
<1>4. \A p \in Plugin : Bound(p) = 1 /\ release[p] = 1
  BY <1>1 DEF Init, Bound, HasWish, Wished
<1>5. \A p \in Plugin, v \in Versions : dir[<<p, v>>] = NoDir
  BY DEF Init
<1>6. DirInv
  BY <1>2, <1>4, <1>5 DEF DirInv
<1> QED
  BY <1>1, <1>3, <1>6 DEF IInv, Progress, CurInv, Installed, Documents,
     Dashboards, Installing, Fetching, Placing, Rendered, Wished

LEMMA ReconcileNext ==
  ASSUME IInv, [Next]_vars
  PROVE  IInv'
<1>1. CASE Resolve
  BY <1>1, ResolveKeeps
<1>2. CASE \E p \in Plugin : Publish(p)
  BY <1>2, PublishKeeps
<1>3. CASE install_all
  BY <1>3, InstallAllKeeps
<1>4. CASE install
  BY <1>4, DownloadKeeps, ExtractKeeps, ExecutableKeeps, WriteMarkKeeps,
     LinkKeeps DEF install
<1>5. CASE prune \/ prune_provisioning \/ render
  BY <1>5, PruneKeeps, PruneProvisioningKeeps, RenderKeeps
<1>6. CASE \/ write_unsigned_plugins_list \/ prune_dashboard_dirs
           \/ provision_dashboards
  BY <1>6, UnsignedKeeps, PruneDashboardsKeeps, CopyKeeps
<1>7. CASE Kill
  BY <1>7, KillKeeps
<1>8. CASE UNCHANGED vars
  <2>1. UNCHANGED <<release, dir, link, yaml, unsigned, dash, run, faults, kills>>
    BY <1>8 DEF vars
  <2>2. TypeOK' /\ CurInv'
    BY <2>1 DEF IInv, TypeOK, CurInv, Cur, Want
  <2>3. \A p : Bound(p)' = Bound(p) /\ (HasWish(p)' <=> HasWish(p))
    BY <2>1 DEF Bound, HasWish, Wished
  <2>4. DirInv'
    BY <2>1, <2>3 DEF IInv, DirInv
  <2>5. Progress'
    BY <2>1, <2>3 DEF IInv, Progress, Wished
  <2>6. Installed' /\ Documents'
    BY <2>1 DEF IInv, Installed, Documents
  <2>7. Dashboards'
    BY <2>1 DEF IInv, Dashboards, Owners
  <2> QED
    BY <2>2, <2>4, <2>5, <2>6, <2>7 DEF IInv
<1> QED
  <2>1. CASE reconcile
    BY <1>3, <1>4, <1>5, <1>6, <2>1 DEF reconcile
  <2>2. CASE Next
    BY <1>1, <1>2, <1>7, <2>1, <2>2 DEF Next
  <2> QED
    BY <1>8, <2>2

\* Through every fault, kill and publication the cache, the links and what a launch
\* (reconcile) knows of them stay in step.
THEOREM ReconcileInvariant == Spec => []IInv
BY ReconcileInit, ReconcileNext, PTL DEF Spec

\* Whatever was killed, failed or re-published before (install_all, extract_into,
\* write_marker, link_plugin), the plugins a launch provisions are the ones it
\* resolved, whole.
THEOREM ReconcileServesResolved == Spec => []ServedIsResolved
<1>1. IInv => ServedIsResolved
  BY DEF IInv, Installed, ServedIsResolved
<1> QED
  BY <1>1, ReconcileInvariant, PTL

\* No launch comes up without a required plugin the catalog knew about
\* (install_all's bail-out).
THEOREM ReconcileHasRequired == Spec => []RequiredIfKnown
<1>1. IInv => RequiredIfKnown
  BY DEF IInv, Progress, RequiredIfKnown, Up, Installing, Fetching, Placing
<1> QED
  BY <1>1, ReconcileInvariant, PTL

\* The provisioning documents, the unsigned list and the dashboards Grafana reads
\* are those of this launch (prune_provisioning, render, prune_dashboard_dirs,
\* provision_dashboards).
THEOREM ReconcileRenders == Spec => []RenderedIsCurrent
<1>1. IInv => ProvisionedIsInstalled
  BY DEF IInv, Documents, Rendered, ProvisionedIsInstalled, Up
<1>2. IInv => DashboardsAreCurrent
  <2>1. SUFFICES ASSUME IInv, Up, NEW t \in DOMAIN dash
                 PROVE  IF Owners(t) = {} THEN dash[t] = <<>>
                        ELSE dash[t] \in {<<p, run.wish[p]>> : p \in Owners(t)}
    BY DEF DashboardsAreCurrent, Owners
  <2> QED
    BY <2>1 DEF IInv, Up, Progress, Dashboards
<1>3. IInv => RenderedIsCurrent
  BY <1>1, <1>2 DEF IInv, RenderedIsCurrent
<1> QED
  BY <1>3, ReconcileInvariant, PTL

\* The user's entries of the plugins directory go only to make room for a plugin of
\* that name that is ready to be linked: prune never takes one (link_plugin, prune).
THEOREM ReconcileKeepsUserEntries == Spec => UserEntriesKept
<1> DEFINE Kept == \A p \in Plugin :
                     link[p] = "user" /\ link'[p] # "user"
                       => run.cur = p /\ dir[Cur].st = "whole"
<1>1. ASSUME IInv, [Next]_vars
      PROVE  [Kept]_vars
  <2>1. CASE link_plugin
    <3>1. run.pc \in {"link", "symlink"} /\ run.pc \in Placing
      BY <2>1 DEF link_plugin, Placing
    <3>2. dir[Cur].st = "whole"
      BY <1>1, <3>1 DEF IInv, CurInv
    <3>3. \/ link' = link
          \/ SetLink(run.cur, "none") \/ SetLink(run.cur, Cur[2])
      BY <2>1 DEF link_plugin, files, FailCur
    <3>4. \A p \in Plugin : p # run.cur => link'[p] = link[p]
      BY <1>1, <3>3 DEF SetLink, IInv, TypeOK
    <3> QED
      BY <3>2, <3>4
  <2>2. CASE prune
    <3>1. CASE \E p \in run.todo : SetLink(p,
                  IF link[p] = "user" \/ p \in Wished THEN link[p] ELSE "none")
      <4>1. PICK p \in run.todo : SetLink(p,
                  IF link[p] = "user" \/ p \in Wished THEN link[p] ELSE "none")
        BY <3>1
      <4> QED
        BY <1>1, <4>1 DEF SetLink, IInv, TypeOK
    <3>2. CASE link' = link
      BY <3>2
    <3> QED
      BY <2>2, <3>1, <3>2 DEF prune, files, FailRun
  <2>3. CASE link' = link
    BY <2>3
  <2>4. link_plugin \/ prune \/ link' = link
    <3>1. SetDir(NoDir) => link' = link
      BY DEF SetDir
    <3>2. extract_into => link' = link
      BY DEF extract_into, SetDir, FailCur, files
    <3>3. install => link_plugin \/ link' = link
      BY <3>2 DEF install, download_artifact, untar, ensure_backend_executable,
         WriteMark, SetDir, FailCur, files
    <3>4. render => link' = link
      BY DEF render, render_app, render_datasource, RenderOne, SetYaml, FailRun, files
    <3>5. reconcile => link_plugin \/ prune \/ link' = link
      BY <3>3, <3>4 DEF reconcile, install_all, prune_provisioning, SetYaml,
         write_unsigned_plugins_list, prune_dashboard_dirs, provision_dashboards,
         SetDash, FailRun, files
    <3> QED
      BY <1>1, <3>5 DEF Next, vars, Resolve, Publish, Kill, files
  <2> QED
    BY <2>1, <2>2, <2>3, <2>4
<1>2. Spec => [][Kept]_vars
  BY <1>1, ReconcileInvariant, PTL DEF Spec
<1> QED
  BY <1>2 DEF UserEntriesKept
=============================================================================
