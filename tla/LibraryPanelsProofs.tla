-------------------------- MODULE LibraryPanelsProofs --------------------------
(***************************************************************************)
(* Proofs about LibraryPanels for any plugins and panels, in any order,    *)
(* and any number of releases, folders, edits and lost requests.           *)
(***************************************************************************)
EXTENDS LibraryPanels, WellFoundedInduction, TLAPS

(***************************************************************************)
(* The inductive invariant                                                 *)
(***************************************************************************)

\* The steps of a pass that are about a panel, and those after ensure_folder.
AtPanel == {"list", "folder", "get", "write"}
InFolder == {"get", "write"}

\* Folders are told apart by their numbers, and panels lie in folders there are.
Folders ==
  /\ \A t \in Titles : folder[t] <= created
  /\ \A t, u \in Titles : folder[t] = folder[u] /\ folder[t] # 0 => t = u
  /\ \A p \in Panel : panel[p] # Absent => \E t \in Titles : folder[t] = panel[p].folder

\* Each edit of a panel is undone by one write at most, and each release takes one.
Versions ==
  \A p \in Panel : panel[p] # Absent =>
    panel[p].version + (IF Current(p) THEN 0 ELSE 1) <= 2 * edits + release[Owner[p]]

\* What was read is what is there, unless a user changed it since, and then its
\* version tells.
Seen ==
  \/ panel[Cur] = pass.read
  \/ /\ Cur \in touched
     /\ pass.read # Absent
     /\ panel[Cur] = Absent \/ panel[Cur].version > pass.read.version

Position ==
  /\ pass.pc \in AtPanel => pass.at \in 1..Len(Order)
  /\ pass.pc # "idle" /\ pass.at <= Len(Order) => Owner[Cur] \in pass.of
  /\ pass.pc = "done" => pass.at = Len(Order) + 1
  /\ pass.pc \in InFolder =>
       /\ pass.folder \in 1..created
       /\ \A t \in Titles : folder[t] = pass.folder => t = TitleNow(Owner[Cur])
  /\ pass.pc = "write" => Seen

\* All panels the pass has gone by are published.
Published ==
  pass.pc \notin {"idle", "failed"} =>
    \A i \in 1..Len(Order) :
      i < pass.at /\ Owner[Order[i]] \in pass.of /\ Order[i] \notin touched
        => Current(Order[i])

IInv == TypeOK /\ Folders /\ Versions /\ Position /\ Published

-----------------------------------------------------------------------------
(***************************************************************************)
(* The least of a set of positions                                         *)
(***************************************************************************)

LEMMA LeastOf ==
  ASSUME NEW R, \A x \in Nat : \A y \in Nat : <<y, x>> \in R <=> y < x,
         NEW T, T \subseteq Nat, NEW x \in T, \A y \in T : <<y, x>> \notin R
  PROVE  \A y \in T : x <= y
<1>1. SUFFICES ASSUME NEW y \in T PROVE x <= y
  OBVIOUS
<1>2. x \in Nat /\ y \in Nat /\ <<y, x>> \notin R
  OBVIOUS
<1>3. ~(y < x)
  BY <1>2
<1> QED
  BY <1>2, <1>3

LessThan == OpToRel(<, Nat)

LEMMA LessThanFacts ==
  /\ IsWellFoundedOn(LessThan, Nat)
  /\ \A x \in Nat : \A y \in Nat : <<y, x>> \in LessThan <=> y < x
<1>1. IsWellFoundedOn(LessThan, Nat)
  BY NatLessThanWellFounded DEF LessThan
<1>2. \A x \in Nat : \A y \in Nat : <<y, x>> \in LessThan <=> y < x
  BY DEF OpToRel, LessThan
<1> QED
  BY <1>1, <1>2

LEMMA HasLeast ==
  ASSUME NEW T, T \subseteq Nat, T # {}
  PROVE  \E x \in T : \A y \in T : x <= y
<1>1. PICK x \in T : \A y \in T : <<y, x>> \notin LessThan
  BY LessThanFacts, WFMin
<1>2. \A y \in T : x <= y
  BY <1>1, LessThanFacts, LeastOf, Zenon
<1> QED
  BY <1>2

LEMMA OrderFacts ==
  /\ Len(Order) \in Nat
  /\ \A i \in 1..Len(Order) : Order[i] \in Panel
  /\ \A p \in Panel : \E i \in 1..Len(Order) : Order[i] = p
  /\ \A p \in Panel : Owner[p] \in Plugin
<1>1. Len(Order) \in Nat
  BY PanelsAssumption
<1> QED
  BY <1>1 DEF Panel, Plugin

\* The position Skip finds, and what it goes by.
LEMMA SkipFacts ==
  ASSUME NEW i \in 1..(Len(Order) + 1), NEW S
  PROVE  /\ Skip(i, S) \in 1..(Len(Order) + 1) /\ Skip(i, S) >= i
         /\ Skip(i, S) <= Len(Order) => Owner[Order[Skip(i, S)]] \in S
         /\ \A k \in 1..Len(Order) :
              i <= k /\ k < Skip(i, S) => Owner[Order[k]] \notin S
<1> DEFINE left == {j \in i..Len(Order) : Owner[Order[j]] \in S}
<1>1. Len(Order) \in Nat
  BY OrderFacts
<1>2. CASE left = {}
  <2>1. Skip(i, S) = Len(Order) + 1
    BY <1>2 DEF Skip
  <2>2. \A k \in i..Len(Order) : Owner[Order[k]] \notin S
    BY <1>2
  <2> HIDE DEF left
  <2> QED
    BY <1>1, <2>1, <2>2
<1>3. CASE left # {}
  <2>1. left \subseteq Nat
    BY <1>1
  <2>2. \E j \in left : \A k \in left : j <= k
    <3> HIDE DEF left
    <3> QED
      BY <1>3, <2>1, HasLeast
  <2>3. Skip(i, S) = CHOOSE j \in left : \A k \in left : j <= k
    BY <1>3 DEF Skip
  <2>4. Skip(i, S) \in left /\ \A k \in left : Skip(i, S) <= k
    <3> HIDE DEF left
    <3> QED
      BY <2>2, <2>3
  <2> DEFINE j == Skip(i, S)
  <2> HIDE DEF j
  <2>5. /\ j \in i..Len(Order) /\ Owner[Order[j]] \in S
        /\ \A k \in i..Len(Order) : Owner[Order[k]] \in S => j <= k
    BY <2>4 DEF j
  <2>6. \A k \in 1..Len(Order) : i <= k /\ k < j => Owner[Order[k]] \notin S
    BY <1>1, <2>5
  <2> QED
    BY <1>1, <2>5, <2>6 DEF j
<1> QED
  BY <1>2, <1>3

-----------------------------------------------------------------------------
(***************************************************************************)
(* Types                                                                   *)
(***************************************************************************)

PassPc == {"idle", "health", "list", "folder", "get", "write", "done", "failed"}

LEMMA PassFields ==
  ASSUME TypeOK
  PROVE  /\ pass \in Pass /\ pass.pc \in PassPc /\ pass.of \subseteq Plugin
         /\ pass.at \in 1..(Len(Order) + 1) /\ pass.folder \in 0..MaxFolder
         /\ pass.read \in {Absent} \cup Element
BY DEF TypeOK, Pass, PassPc

LEMMA ElementFields ==
  ASSUME NEW e \in Element
  PROVE  /\ e # Absent /\ e.model \in Model /\ e.folder \in 1..MaxFolder
         /\ e.folder \in Nat /\ e.folder # 0
         /\ e.version \in Nat /\ e.version >= 1
         /\ e = [model |-> e.model, folder |-> e.folder, version |-> e.version]
<1>1. e # Absent
  <2>1. "model" \in DOMAIN e
    BY DEF Element
  <2>2. DOMAIN Absent = {}
    BY DEF Absent
  <2> QED
    BY <2>1, <2>2
<1> QED
  BY <1>1, PanelsAssumption DEF Element, Release

\* The model Grafana stores of a panel's file.
LEMMA ModelFacts ==
  ASSUME TypeOK, NEW p \in Panel
  PROVE  /\ Owner[p] \in Plugin /\ release[Owner[p]] \in Release
         /\ release[Owner[p]] \in Nat
         /\ release[Owner[p]] >= 1 /\ release[Owner[p]] <= MaxRelease
         /\ apply_grafana_model_defaults(FileModel(p)) \in Model
         /\ TitleNow(Owner[p]) \in Titles
<1>1. Owner[p] \in Plugin /\ release[Owner[p]] \in Release
  BY OrderFacts DEF TypeOK
<1>2. apply_grafana_model_defaults(FileModel(p)) \in Model
  <2>1. FileModel(p) \in Model
    BY <1>1 DEF FileModel, Model
  <2>2. \A m \in Model : [m EXCEPT !.full = TRUE] \in Model
    BY Zenon DEF Model
  <2> QED
    BY <2>1, <2>2, Zenon DEF apply_grafana_model_defaults
<1>3. TitleNow(Owner[p]) \in Titles
  BY <1>1 DEF TitleNow, Titles
<1> QED
  BY <1>1, <1>2, <1>3, PanelsAssumption DEF Release

LEMMA PanelFacts ==
  ASSUME TypeOK, NEW p \in Panel, panel[p] # Absent
  PROVE  /\ panel[p] \in Element
         /\ panel[p].folder \in Nat /\ panel[p].folder # 0
         /\ panel[p].version \in Nat /\ panel[p].version >= 1
         /\ edits \in Nat /\ created \in Nat
BY ElementFields, PanelsAssumption DEF TypeOK

-----------------------------------------------------------------------------
(***************************************************************************)
(* What a step may leave alone                                             *)
(***************************************************************************)

\* A panel that did not change is current if its folder and its release are.
LEMMA CurrentKept ==
  ASSUME NEW p, panel'[p] = panel[p],
         release'[Owner[p]] = release[Owner[p]],
         Current(p) => folder'[TitleNow(Owner[p])] = folder[TitleNow(Owner[p])]
  PROVE  Current(p) => Current(p)'
<1>1. /\ TitleNow(Owner[p])' = TitleNow(Owner[p])
      /\ FileModel(p)' = FileModel(p)
  BY DEF TitleNow, FileModel
<1> QED
  BY <1>1 DEF Current, apply_grafana_model_defaults

LEMMA CurrentSame ==
  ASSUME UNCHANGED <<panel, release, folder>>
  PROVE  \A p : Current(p)' = Current(p)
BY DEF Current, FileModel, TitleNow, apply_grafana_model_defaults

\* A panel may have as many versions as edits and releases account for.
LEMMA Counted ==
  ASSUME TypeOK, NEW p \in Panel, panel[p] # Absent,
         panel[p].version + (IF Current(p) THEN 0 ELSE 1) <= 2 * edits + release[Owner[p]]
  PROVE  panel[p].version <= 2 * edits + release[Owner[p]]
BY PanelFacts, ModelFacts

\* A step of the pass that changes nothing in Grafana.
LEMMA QuietPass ==
  ASSUME IInv, UNCHANGED <<release, edits, folder, panel, created>>,
         faults' \in 0..MaxFault, touched' \in SUBSET Panel,
         pass' \in Pass, Position', Published'
  PROVE  IInv'
<1>1. TypeOK'
  BY DEF IInv, TypeOK
<1>2. Folders'
  BY DEF IInv, Folders
<1>3. Versions'
  BY CurrentSame DEF IInv, Versions
<1> QED
  BY <1>1, <1>2, <1>3 DEF IInv

\* The pass ends in an error.
LEMMA AbortFacts ==
  ASSUME TypeOK, Abort
  PROVE  /\ pass' \in Pass /\ pass'.pc = "failed"
         /\ pass'.of = pass.of /\ pass'.at = pass.at
BY DEF TypeOK, Pass, Abort

LEMMA AbortStep ==
  ASSUME IInv, Abort, pass.pc \in AtPanel \cup {"health"}
  PROVE  pass' \in Pass /\ Position' /\ Published'
<1>1. /\ pass' \in Pass /\ pass'.pc = "failed"
      /\ pass'.of = pass.of /\ pass'.at = pass.at
  BY AbortFacts DEF IInv
<1> QED
  BY <1>1 DEF IInv, Position, Published, AtPanel, InFolder, Cur

LEMMA LoseFacts ==
  ASSUME TypeOK
  PROVE  /\ Lose => faults' \in 0..MaxFault
         /\ faults \in 0..MaxFault
BY PanelsAssumption DEF TypeOK, Lose

LEMMA AbortKeeps ==
  ASSUME IInv, Lose \/ UNCHANGED faults, Abort, pass.pc \in AtPanel \cup {"health"},
         UNCHANGED <<Environment, folder, panel, created>>
  PROVE  IInv'
<1>1. UNCHANGED <<release, edits, touched, folder, panel, created>>
  BY DEF Environment
<1>2. faults' \in 0..MaxFault /\ touched' \in SUBSET Panel
  BY <1>1, LoseFacts DEF IInv, TypeOK
<1> QED
  BY <1>1, <1>2, AbortStep, QuietPass

\* The pass goes on to the next panel, when it has published this one.
LEMMA AdvanceStep ==
  ASSUME IInv, Advance, pass.pc = "write",
         UNCHANGED <<Environment, folder, created>>,
         NEW q \in Panel, q = Cur, q \in touched \/ Current(q)',
         \A p \in Panel : Current(p) => Current(p)'
  PROVE  pass' \in Pass /\ Position' /\ Published'
<1> DEFINE i == Skip(pass.at + 1, pass.of)
           pc == IF i > Len(Order) THEN "done"
                 ELSE IF Owner[Order[i]] = Owner[Cur] THEN "get" ELSE "list"
<1>1. /\ pass.at \in 1..Len(Order) /\ pass.at + 1 \in 1..(Len(Order) + 1)
      /\ Len(Order) \in Nat
  BY OrderFacts DEF IInv, Position, AtPanel
<1>2. /\ i \in 1..(Len(Order) + 1) /\ i >= pass.at + 1
      /\ i <= Len(Order) => Owner[Order[i]] \in pass.of
      /\ \A k \in 1..Len(Order) :
           pass.at + 1 <= k /\ k < i => Owner[Order[k]] \notin pass.of
  BY <1>1, SkipFacts
<1>3. pass' = [pass EXCEPT !.at = i, !.read = Absent, !.pc = pc]
  BY DEF Advance
<1>4. /\ pc \in {"done", "get", "list"} /\ (pc = "done" <=> i > Len(Order))
      /\ pc = "get" => Owner[Order[i]] = Owner[Cur]
  OBVIOUS
<1> HIDE DEF i, pc
<1>5. /\ pass' \in Pass /\ pass'.pc = pc /\ pass'.at = i
      /\ pass'.of = pass.of /\ pass'.folder = pass.folder
  BY <1>2, <1>3, <1>4, PassFields DEF IInv, Pass
<1>6. UNCHANGED <<release, edits, touched, folder, created>>
  BY DEF Environment
<1>7. Position'
  <2>1. i <= Len(Order) => (Owner[Cur])' = Owner[Order[i]]
    BY <1>5 DEF Cur
  <2>2. pc = "get" =>
          /\ pass.folder \in 1..created
          /\ \A t \in Titles : folder'[t] = pass.folder => t = (TitleNow(Owner[Cur]))'
    <3>1. pc = "get" => (TitleNow(Owner[Cur]))' = TitleNow(Owner[Cur])
      BY <1>1, <1>2, <1>4, <1>6, <2>1 DEF TitleNow
    <3> QED
      BY <1>6, <3>1 DEF IInv, Position, InFolder
  <2>3. /\ i \in 1..(Len(Order) + 1)
        /\ pc # "done" => i \in 1..Len(Order)
        /\ pc = "done" => i = Len(Order) + 1
    BY <1>1, <1>2, <1>4
  <2> QED
    BY <1>2, <1>4, <1>5, <1>6, <2>1, <2>2, <2>3
       DEF Position, AtPanel, InFolder, Cur
<1>8. Published'
  <2>1. ASSUME NEW k \in 1..Len(Order), k < i, Owner[Order[k]] \in pass.of,
               Order[k] \notin touched
        PROVE  Current(Order[k])'
    <3>1. CASE k < pass.at
      <4>1. Current(Order[k])
        BY <2>1, <3>1 DEF IInv, Published
      <4> QED
        BY <4>1, OrderFacts
    <3>2. CASE k = pass.at
      BY <2>1, <3>2 DEF Cur
    <3>3. CASE k > pass.at
      BY <1>1, <1>2, <2>1, <3>3
    <3> QED
      BY <1>1, <3>1, <3>2, <3>3
  <2> QED
    BY <1>5, <1>6, <2>1 DEF Published
<1> QED
  BY <1>5, <1>7, <1>8

-----------------------------------------------------------------------------
(***************************************************************************)
(* The pass                                                                *)
(***************************************************************************)

LEMMA LaunchKeeps ==
  ASSUME IInv, Launch
  PROVE  IInv'
<1>1. PICK S \in SUBSET Plugin :
        /\ IF S = Plugin THEN UNCHANGED faults ELSE Lose
        /\ pass' = [Begun EXCEPT !.of = S, !.at = Skip(1, S)]
  BY DEF Launch
<1>2. /\ touched' = {} /\ UNCHANGED <<release, folder, panel, created, edits>>
      /\ faults' \in 0..MaxFault
  BY <1>1, LoseFacts DEF Launch, IInv, TypeOK
<1> DEFINE at == Skip(1, S)
<1>3. /\ at \in 1..(Len(Order) + 1)
      /\ at <= Len(Order) => Owner[Order[at]] \in S
      /\ \A k \in 1..Len(Order) : 1 <= k /\ k < at => Owner[Order[k]] \notin S
  <2>1. 1 \in 1..(Len(Order) + 1)
    BY OrderFacts
  <2> QED
    BY <2>1, SkipFacts
<1> HIDE DEF at
<1>4. /\ pass' \in Pass /\ pass'.pc = "health" /\ pass'.of = S /\ pass'.at = at
  <2>1. pass' = [Begun EXCEPT !.of = S, !.at = at]
    BY <1>1 DEF at
  <2>2. 0 \in 0..MaxFolder
    BY PanelsAssumption
  <2> QED
    BY <1>3, <2>1, <2>2 DEF Begun, Pass
<1>5. Position'
  BY <1>3, <1>4 DEF Position, AtPanel, InFolder, Cur
<1>6. Published'
  BY <1>3, <1>4 DEF Published
<1> QED
  BY <1>2, <1>4, <1>5, <1>6, QuietPass

\* A step that only moves the pass on, with what ensure_folder found or what
\* get_library_element read.
LEMMA PassOn ==
  ASSUME IInv, UNCHANGED <<Environment, folder, panel, created, faults>>,
         pass' \in Pass, pass'.pc \notin {"idle", "failed"},
         pass.pc \notin {"idle", "failed"},
         pass'.of = pass.of, pass'.at = pass.at,
         Position'
  PROVE  IInv'
<1>1. UNCHANGED <<release, edits, touched, folder, panel, created, faults>>
  BY DEF Environment
<1>2. Published'
  BY <1>1, CurrentSame DEF IInv, Published
<1>3. faults' \in 0..MaxFault /\ touched' \in SUBSET Panel
  BY <1>1 DEF IInv, TypeOK
<1> QED
  BY <1>1, <1>2, <1>3, QuietPass

LEMMA HealthyKeeps ==
  ASSUME IInv, wait_healthy
  PROVE  IInv'
<1>1. CASE Lose /\ Abort
  BY <1>1, AbortKeeps DEF wait_healthy
<1>2. CASE /\ pass' = [pass EXCEPT !.pc = IF pass.at > Len(Order) THEN "done" ELSE "list"]
           /\ UNCHANGED faults
  <2> DEFINE pc == IF pass.at > Len(Order) THEN "done" ELSE "list"
  <2>1. pc \in {"done", "list"} /\ (pc = "done" <=> pass.at > Len(Order))
    OBVIOUS
  <2>2. pass' = [pass EXCEPT !.pc = pc]
    BY <1>2
  <2> HIDE DEF pc
  <2>3. /\ pass' \in Pass /\ pass'.pc = pc /\ pass'.of = pass.of /\ pass'.at = pass.at
    BY <2>1, <2>2, PassFields DEF IInv, Pass
  <2>4. /\ pass.at \in 1..(Len(Order) + 1) /\ Len(Order) \in Nat
    BY PassFields, OrderFacts DEF IInv
  <2>5. Position'
    BY <2>1, <2>3, <2>4 DEF wait_healthy, IInv, Position, AtPanel, InFolder, Cur
  <2> QED
    BY <1>2, <2>1, <2>3, <2>5, PassOn DEF wait_healthy
<1> QED
  BY <1>1, <1>2 DEF wait_healthy

\* The folder of that title, and of no other.
LEMMA ListKeeps ==
  ASSUME IInv, list_folders
  PROVE  IInv'
<1>1. CASE Lose /\ Abort
  BY <1>1, AbortKeeps DEF list_folders, AtPanel
<1> DEFINE f == folder[TitleNow(Owner[Cur])]
<1>2. CASE /\ pass' = (IF f = 0 THEN [pass EXCEPT !.pc = "folder"]
                       ELSE [pass EXCEPT !.pc = "get", !.folder = f])
           /\ UNCHANGED faults
  <2>1. /\ pass.pc = "list" /\ pass.at \in 1..Len(Order) /\ Cur \in Panel
        /\ Owner[Cur] \in pass.of
        /\ UNCHANGED <<release, edits, touched, folder, panel, created>>
    BY OrderFacts DEF list_folders, IInv, Position, AtPanel, Cur, Environment
  <2>2. /\ TitleNow(Owner[Cur]) \in Titles /\ f \in 0..MaxFolder
        /\ f <= created /\ created \in Nat
    BY <2>1, ModelFacts DEF IInv, TypeOK, Folders
  <2>3. CASE f = 0
    <3>1. /\ pass' \in Pass /\ pass'.pc = "folder"
          /\ pass'.of = pass.of /\ pass'.at = pass.at
      BY <1>2, <2>3, PassFields DEF IInv, Pass
    <3>2. Position'
      BY <2>1, <3>1 DEF Position, AtPanel, InFolder, Cur
    <3> QED
      BY <1>2, <2>1, <3>1, <3>2, PassOn DEF list_folders
  <2>4. CASE f # 0
    <3> HIDE DEF f
    <3>1. /\ pass' \in Pass /\ pass'.pc = "get" /\ pass'.folder = f
          /\ pass'.of = pass.of /\ pass'.at = pass.at
      BY <1>2, <2>2, <2>4, PassFields DEF IInv, Pass
    <3>2. (TitleNow(Owner[Cur]))' = TitleNow(Owner[Cur])
      BY <2>1, <3>1 DEF Cur, TitleNow
    <3>3. f \in 1..created
      BY <2>2, <2>4
    <3>4. \A t \in Titles : folder[t] = f => t = TitleNow(Owner[Cur])
      BY <2>2, <2>4 DEF IInv, Folders, f
    <3>5. Position'
      BY <2>1, <3>1, <3>2, <3>3, <3>4 DEF Position, AtPanel, InFolder, Cur
    <3> QED
      BY <1>2, <2>1, <3>1, <3>5, PassOn DEF list_folders
  <2> QED
    BY <2>3, <2>4
<1> QED
  BY <1>1, <1>2 DEF list_folders

-----------------------------------------------------------------------------
(***************************************************************************)
(* Folders                                                                 *)
(***************************************************************************)

\* A new folder is nobody's: its number was given to none before.
LEMMA NewFolderFacts ==
  ASSUME IInv, NEW t \in Titles, NewFolder(t), UNCHANGED <<panel, release>>
  PROVE  /\ created' \in 0..MaxFolder /\ created' = created + 1 /\ created \in Nat
         /\ folder' \in [Titles -> 0..MaxFolder]
         /\ folder'[t] = created + 1
         /\ \A u \in Titles : u # t => folder'[u] = folder[u]
         /\ \A u \in Titles : folder[u] # 0 => folder'[u] = folder[u]
         /\ Folders'
         /\ \A p \in Panel : Current(p) => Current(p)'
<1>1. /\ created' \in 0..MaxFolder /\ created' = created + 1 /\ created \in Nat
      /\ folder' \in [Titles -> 0..MaxFolder]
      /\ folder'[t] = created + 1
      /\ \A u \in Titles : u # t => folder'[u] = folder[u]
      /\ folder[t] = 0
  BY PanelsAssumption DEF IInv, TypeOK, NewFolder
<1>2. \A u \in Titles : folder[u] \in Nat /\ folder[u] <= created
  BY DEF IInv, TypeOK, Folders
<1>3. Folders'
  <2>1. \A u \in Titles : folder'[u] <= created'
    BY <1>1, <1>2
  <2>2. \A u, v \in Titles : folder'[u] = folder'[v] /\ folder'[u] # 0 => u = v
    BY <1>1, <1>2 DEF IInv, Folders
  <2>3. \A p \in Panel : panel[p] # Absent =>
           \E u \in Titles : folder'[u] = panel[p].folder
    <3>1. SUFFICES ASSUME NEW p \in Panel, panel[p] # Absent
                   PROVE  \E u \in Titles : folder'[u] = panel[p].folder
      OBVIOUS
    <3>2. PICK u \in Titles : folder[u] = panel[p].folder
      BY <3>1 DEF IInv, Folders
    <3>3. u # t
      BY <1>1, <3>1, <3>2, PanelFacts DEF IInv
    <3> QED
      BY <1>1, <3>2, <3>3
  <2> QED
    BY <2>1, <2>2, <2>3 DEF Folders
<1>4. ASSUME NEW p \in Panel, Current(p)
      PROVE  Current(p)'
  <2>1. panel[p] # Absent /\ folder[TitleNow(Owner[p])] = panel[p].folder
    BY <1>4 DEF Current
  <2>2. TitleNow(Owner[p]) \in Titles /\ TitleNow(Owner[p]) # t
    BY <1>1, <2>1, ModelFacts, PanelFacts DEF IInv
  <2> QED
    BY <1>1, <1>4, <2>2, CurrentKept
<1> QED
  BY <1>1, <1>3, <1>4

\* As long as panels that were current stay so, nothing is counted.
LEMMA VersionsKept ==
  ASSUME IInv, edits' \in Nat, edits' >= edits, UNCHANGED <<panel, release>>,
         \A p \in Panel : Current(p) => Current(p)'
  PROVE  Versions'
<1>1. SUFFICES ASSUME NEW p \in Panel, panel[p] # Absent
               PROVE  panel[p].version + (IF Current(p)' THEN 0 ELSE 1)
                        <= 2 * edits' + release[Owner[p]]
  BY DEF Versions
<1>2. panel[p].version + (IF Current(p) THEN 0 ELSE 1) <= 2 * edits + release[Owner[p]]
  BY <1>1 DEF IInv, Versions
<1>3. panel[p].version \in Nat /\ edits \in Nat /\ release[Owner[p]] \in Nat
  BY <1>1, PanelFacts, ModelFacts DEF IInv
<1>4. Current(p) => Current(p)'
  OBVIOUS
<1> QED
  BY <1>2, <1>3, <1>4

\* Published panels stay published if they stay current.
LEMMA PublishedKept ==
  ASSUME IInv, pass'.of = pass.of, pass'.at = pass.at,
         pass.pc \notin {"idle", "failed"} \/ pass'.pc \in {"idle", "failed"},
         touched \subseteq touched',
         \A p \in Panel : p \notin touched' /\ Current(p) => Current(p)'
  PROVE  Published'
BY OrderFacts DEF IInv, Published

LEMMA CreateKeeps ==
  ASSUME IInv, create_folder
  PROVE  IInv'
<1> DEFINE t == TitleNow(Owner[Cur])
<1>1. /\ pass.pc = "folder" /\ pass.at \in 1..Len(Order) /\ Cur \in Panel
      /\ Owner[Cur] \in pass.of /\ t \in Titles
      /\ UNCHANGED <<release, edits, touched, panel>>
      /\ UNCHANGED Environment
  BY OrderFacts, ModelFacts
     DEF create_folder, IInv, Position, AtPanel, Cur, Environment
<1>2. CASE /\ NewFolder(t)
           /\ \/ pass' = [pass EXCEPT !.pc = "get", !.folder = created']
                 /\ UNCHANGED faults
              \/ Lose /\ Abort
  <2>1. /\ created' \in 0..MaxFolder /\ created' = created + 1 /\ created \in Nat
        /\ folder' \in [Titles -> 0..MaxFolder]
        /\ folder'[t] = created + 1
        /\ \A u \in Titles : u # t => folder'[u] = folder[u]
        /\ Folders'
        /\ \A p \in Panel : Current(p) => Current(p)'
    BY <1>1, <1>2, NewFolderFacts
  <2>2. faults' \in 0..MaxFault
    BY <1>2, LoseFacts DEF IInv
  <2>3. Versions'
    <3>1. edits' \in Nat /\ edits' >= edits
      BY <1>1, PanelsAssumption DEF IInv, TypeOK
    <3> QED
      BY <1>1, <2>1, <3>1, VersionsKept
  <2>4. CASE pass' = [pass EXCEPT !.pc = "get", !.folder = created']
    <3>1. /\ pass' \in Pass /\ pass'.pc = "get" /\ pass'.folder = created + 1
          /\ pass'.of = pass.of /\ pass'.at = pass.at
      BY <2>1, <2>4, PassFields DEF IInv, Pass
    <3>2. (TitleNow(Owner[Cur]))' = t
      BY <1>1, <3>1 DEF Cur, TitleNow
    <3>3. \A u \in Titles : folder'[u] = created + 1 => u = t
      <4>1. \A u \in Titles : folder[u] \in Nat /\ folder[u] <= created
        BY DEF IInv, TypeOK, Folders
      <4> QED
        BY <2>1, <4>1
    <3>4. created + 1 \in 1..created'
      BY <2>1
    <3>5. Position'
      BY <1>1, <3>1, <3>2, <3>3, <3>4 DEF Position, AtPanel, InFolder, Cur
    <3>6. Published'
      BY <1>1, <2>1, <3>1, PublishedKept
    <3>7. TypeOK'
      BY <1>1, <2>1, <2>2, <3>1 DEF IInv, TypeOK
    <3> QED
      BY <2>1, <2>3, <3>5, <3>6, <3>7 DEF IInv
  <2>5. CASE Abort
    <3>1. pass' \in Pass /\ Position' /\ Published'
      BY <1>1, <2>5, AbortStep DEF AtPanel
    <3>2. TypeOK'
      BY <1>1, <2>1, <2>2, <3>1 DEF IInv, TypeOK
    <3> QED
      BY <2>1, <2>3, <3>1, <3>2 DEF IInv
  <2> QED
    BY <1>2, <2>4, <2>5
<1>3. CASE (Lose \/ UNCHANGED faults) /\ Abort /\ UNCHANGED <<folder, created>>
  BY <1>1, <1>3, AbortKeeps DEF AtPanel
<1> QED
  BY <1>2, <1>3 DEF create_folder

-----------------------------------------------------------------------------
(***************************************************************************)
(* Panels                                                                  *)
(***************************************************************************)

LEMMA GetKeeps ==
  ASSUME IInv, get_library_element
  PROVE  IInv'
<1>1. CASE (Lose \/ UNCHANGED faults) /\ Abort
  BY <1>1, AbortKeeps DEF get_library_element, AtPanel
<1>2. CASE pass' = [pass EXCEPT !.pc = "write", !.read = panel[Cur]] /\ UNCHANGED faults
  <2>1. /\ pass.pc = "get" /\ pass.at \in 1..Len(Order) /\ Cur \in Panel
        /\ Owner[Cur] \in pass.of
        /\ UNCHANGED <<release, edits, touched, folder, panel, created>>
    BY OrderFacts DEF get_library_element, IInv, Position, AtPanel, Cur, Environment
  <2>2. panel[Cur] \in {Absent} \cup Element
    BY <2>1 DEF IInv, TypeOK
  <2> DEFINE e == panel[Cur]
  <2> HIDE DEF e
  <2>3. /\ pass' \in Pass /\ pass'.pc = "write" /\ pass'.read = e
        /\ pass'.of = pass.of /\ pass'.at = pass.at /\ pass'.folder = pass.folder
    <3>1. pass' = [pass EXCEPT !.pc = "write", !.read = e] /\ e \in {Absent} \cup Element
      BY <1>2, <2>2 DEF e
    <3> QED
      BY <3>1, PassFields DEF IInv, Pass
  <2>4. (Cur)' = Cur /\ (TitleNow(Owner[Cur]))' = TitleNow(Owner[Cur])
    BY <2>1, <2>3 DEF Cur, TitleNow
  <2>5. Seen'
    BY <2>1, <2>3, <2>4 DEF Seen, e
  <2>6. Position'
    BY <2>1, <2>3, <2>4, <2>5 DEF IInv, Position, AtPanel, InFolder
  <2> QED
    BY <1>2, <2>1, <2>3, <2>6, PassOn DEF get_library_element
<1> QED
  BY <1>1, <1>2 DEF get_library_element

\* What is written is what was read, and needed it.
LEMMA WriteFacts ==
  ASSUME IInv, pass.pc = "write", Accepts, FolderThere,
         ~(pass.read # Absent /\ UpToDate)
  PROVE  /\ panel[Cur] = pass.read
         /\ folder[TitleNow(Owner[Cur])] = pass.folder
         /\ panel[Cur] # Absent => ~UpToDate /\ ~Current(Cur)
<1>1. Seen /\ Cur \in Panel /\ pass.folder \in 1..created
  BY OrderFacts DEF IInv, Position, AtPanel, InFolder, Cur
<1>2. panel[Cur] = pass.read
  <2>1. SUFFICES ASSUME pass.read # Absent,
                        panel[Cur] = Absent \/ panel[Cur].version > pass.read.version
                 PROVE  FALSE
    BY <1>1 DEF Seen
  <2>2. panel[Cur] # Absent /\ panel[Cur].version = pass.read.version
    BY <2>1 DEF Accepts, SentVersion
  <2>3. panel[Cur].version \in Nat
    BY <1>1, <2>2, PanelFacts DEF IInv
  <2> QED
    BY <2>1, <2>2, <2>3
<1>3. folder[TitleNow(Owner[Cur])] = pass.folder
  BY DEF FolderThere, IInv, Position, InFolder
<1>4. panel[Cur] # Absent => ~UpToDate /\ ~Current(Cur)
  BY <1>2, <1>3 DEF UpToDate, Current
<1> QED
  BY <1>2, <1>3, <1>4

\* A panel that was written is current.
LEMMA StoredFacts ==
  ASSUME IInv, pass.pc = "write", Accepts, FolderThere,
         ~(pass.read # Absent /\ UpToDate), NEW q \in Panel, q = Cur,
         UNCHANGED <<release, edits, folder, created>>,
         panel' = [panel EXCEPT ![Cur] =
           Stored(IF pass.read = Absent THEN 1 ELSE panel[Cur].version + 1)]
  PROVE  /\ panel' \in [Panel -> {Absent} \cup Element]
         /\ Current(q)' /\ \A p \in Panel : Current(p) => Current(p)'
         /\ Folders' /\ Versions'
<1> DEFINE v == IF pass.read = Absent THEN 1 ELSE panel[Cur].version + 1
           bound == 2 * edits + release[Owner[q]]
<1>1. /\ panel[q] = pass.read
      /\ folder[TitleNow(Owner[q])] = pass.folder
      /\ panel[q] # Absent => ~Current(q)
  BY WriteFacts
<1>2. /\ edits \in Nat /\ edits <= MaxEdit /\ MaxEdit \in Nat /\ MaxRelease \in Nat
      /\ release[Owner[q]] \in Nat /\ release[Owner[q]] >= 1
      /\ release[Owner[q]] <= MaxRelease
      /\ apply_grafana_model_defaults(FileModel(q)) \in Model
      /\ TitleNow(Owner[q]) \in Titles
  BY ModelFacts, PanelsAssumption DEF IInv, TypeOK
<1>3. v \in Nat /\ v >= 1 /\ v <= bound
  <2>1. CASE panel[q] = Absent
    BY <1>1, <1>2, <2>1
  <2>2. CASE panel[q] # Absent
    <3>1. panel[q].version \in Nat
      BY <2>2, PanelFacts DEF IInv
    <3>2. panel[q].version + 1 <= bound
      <4>1. panel[q].version + (IF Current(q) THEN 0 ELSE 1) <= bound
        BY <2>2 DEF IInv, Versions
      <4> QED
        BY <1>1, <2>2, <4>1
    <3> QED
      BY <1>1, <1>2, <2>2, <3>1, <3>2
  <2> QED
    BY <2>1, <2>2
<1>4. v \in 1..(2 * MaxEdit + MaxRelease)
  BY <1>2, <1>3
<1> DEFINE e == [model |-> apply_grafana_model_defaults(FileModel(q)),
                 folder |-> pass.folder, version |-> v]
<1>5. panel' = [panel EXCEPT ![q] = e]
  BY DEF Stored
<1> HIDE DEF v
<1>6. pass.folder \in 1..MaxFolder
  <2>1. pass.folder \in 1..created
    BY DEF IInv, Position, InFolder
  <2>2. created \in 0..MaxFolder /\ MaxFolder \in Nat
    BY PanelsAssumption DEF IInv, TypeOK
  <2> QED
    BY <2>1, <2>2
<1>7. /\ e \in Element /\ e.folder = pass.folder /\ e.version = v
      /\ e.model = apply_grafana_model_defaults(FileModel(q))
  BY <1>2, <1>4, <1>6 DEF Element
<1> HIDE DEF e
<1>8. /\ panel' \in [Panel -> {Absent} \cup Element]
      /\ panel'[q] = e /\ \A p \in Panel : p # q => panel'[p] = panel[p]
  BY <1>5, <1>7 DEF IInv, TypeOK
<1>9. /\ e # Absent
      /\ FileModel(q)' = FileModel(q) /\ TitleNow(Owner[q])' = TitleNow(Owner[q])
  BY <1>7, ElementFields DEF FileModel, TitleNow
<1>10. Current(q)'
  BY <1>1, <1>7, <1>8, <1>9 DEF Current, apply_grafana_model_defaults
<1>11. ASSUME NEW p \in Panel, p # q
       PROVE  panel'[p] = panel[p] /\ (Current(p)' <=> Current(p))
  <2>1. panel'[p] = panel[p]
    BY <1>8, <1>11
  <2> QED
    BY <2>1 DEF Current, FileModel, TitleNow, apply_grafana_model_defaults
<1>12. Folders'
  <2>1. \A p \in Panel : panel'[p] # Absent =>
          \E t \in Titles : folder[t] = panel'[p].folder
    BY <1>1, <1>2, <1>7, <1>8 DEF IInv, Folders
  <2> QED
    BY <2>1 DEF IInv, Folders
<1>13. Versions'
  <2>1. SUFFICES ASSUME NEW p \in Panel, panel'[p] # Absent
                 PROVE  panel'[p].version + (IF Current(p)' THEN 0 ELSE 1)
                          <= 2 * edits + release[Owner[p]]
    BY DEF Versions
  <2>2. CASE p = q
    BY <1>2, <1>3, <1>7, <1>8, <1>10, <2>2
  <2>3. CASE p # q
    BY <1>11, <2>1, <2>3 DEF IInv, Versions
  <2> QED
    BY <2>2, <2>3
<1> QED
  BY <1>8, <1>10, <1>11, <1>12, <1>13

\* A panel that is as the file says needs no write, unless it was changed since.
LEMMA UpToDateFacts ==
  ASSUME IInv, pass.pc = "write", pass.read # Absent, UpToDate
  PROVE  Cur \in touched \/ Current(Cur)
<1>1. Seen /\ Cur \in Panel
  BY OrderFacts DEF IInv, Position, AtPanel, Cur
<1>2. SUFFICES ASSUME Cur \notin touched PROVE Current(Cur)
  OBVIOUS
<1>3. panel[Cur] = pass.read
  BY <1>1, <1>2 DEF Seen
<1>4. PICK t \in Titles : folder[t] = panel[Cur].folder
  BY <1>1, <1>3 DEF IInv, Folders
<1>5. t = TitleNow(Owner[Cur])
  BY <1>3, <1>4 DEF UpToDate, IInv, Position, InFolder
<1> QED
  BY <1>3, <1>4, <1>5 DEF UpToDate, Current

LEMMA UpsertKeeps ==
  ASSUME IInv, upsert
  PROVE  IInv'
<1>1. /\ pass.pc = "write" /\ Cur \in Panel
      /\ UNCHANGED <<release, edits, touched, folder, created>>
      /\ UNCHANGED Environment
  BY OrderFacts DEF upsert, IInv, Position, AtPanel, Cur, Environment
<1>2. CASE pass.read # Absent /\ UpToDate /\ Advance /\ UNCHANGED <<panel, faults>>
  <2>1. \A p \in Panel : Current(p)' = Current(p)
    BY <1>1, <1>2, CurrentSame
  <2>2. PICK q \in Panel : q = Cur
    BY <1>1
  <2>3. q \in touched \/ Current(q)'
    BY <1>1, <1>2, <2>1, <2>2, UpToDateFacts
  <2>4. pass' \in Pass /\ Position' /\ Published'
    BY <1>1, <1>2, <2>1, <2>2, <2>3, AdvanceStep
  <2> QED
    BY <1>1, <1>2, <2>4, LoseFacts, QuietPass DEF IInv, TypeOK
<1>3. CASE ~(pass.read # Absent /\ UpToDate) /\ Write
  <2>1. CASE /\ Accepts /\ FolderThere
             /\ panel' = [panel EXCEPT ![Cur] =
                  Stored(IF pass.read = Absent THEN 1 ELSE panel[Cur].version + 1)]
             /\ \/ Advance /\ UNCHANGED faults
                \/ Lose /\ Abort
    <3>1. PICK q \in Panel : q = Cur
      BY <1>1
    <3>2. /\ panel' \in [Panel -> {Absent} \cup Element]
          /\ Current(q)' /\ \A p \in Panel : Current(p) => Current(p)'
          /\ Folders' /\ Versions'
      BY <1>1, <1>3, <2>1, <3>1, StoredFacts
    <3>3. faults' \in 0..MaxFault
      BY <2>1, LoseFacts DEF IInv
    <3>4. pass' \in Pass /\ Position' /\ Published'
      <4>1. CASE Advance
        BY <1>1, <3>1, <3>2, <4>1, AdvanceStep
      <4>2. CASE Abort
        BY <1>1, <4>2, AbortStep DEF AtPanel
      <4> QED
        BY <2>1, <4>1, <4>2
    <3>5. TypeOK'
      BY <1>1, <3>2, <3>3, <3>4 DEF IInv, TypeOK
    <3> QED
      BY <3>2, <3>4, <3>5 DEF IInv
  <2>2. CASE (Lose \/ UNCHANGED faults) /\ Abort /\ UNCHANGED panel
    BY <1>1, <2>2, AbortKeeps DEF AtPanel
  <2> QED
    BY <1>3, <2>1, <2>2 DEF Write
<1> QED
  BY <1>2, <1>3 DEF upsert

-----------------------------------------------------------------------------
(***************************************************************************)
(* Users and publishers                                                    *)
(***************************************************************************)

\* A user changed panel p, which the pass may have read before.
LEMMA UserPanelStep ==
  ASSUME IInv, UserDoes, UserOnly, UNCHANGED folder,
         NEW p \in Panel, panel[p] # Absent,
         panel' \in [Panel -> {Absent} \cup [model : Model, folder : 1..MaxFolder,
                                            version : Nat \ {0}]],
         \A q \in Panel : q # p => panel'[q] = panel[q],
         \/ panel'[p] = Absent
         \/ /\ panel'[p].version = panel[p].version + 1
            /\ \E t \in Titles : folder[t] = panel'[p].folder,
         touched' = touched \cup {p}
  PROVE  IInv'
<1>1. /\ UNCHANGED <<release, pass, created, faults>>
      /\ edits' = edits + 1 /\ edits' \in 0..MaxEdit /\ edits \in Nat /\ edits' \in Nat
      /\ MaxEdit \in Nat /\ MaxRelease \in Nat
  BY PanelsAssumption DEF UserDoes, UserOnly, IInv, TypeOK
<1>2. \A q \in Panel : q # p => (Current(q)' <=> Current(q))
  BY <1>1 DEF Current, FileModel, TitleNow, apply_grafana_model_defaults
<1>3. Folders'
  <2>1. \A q \in Panel : panel'[q] # Absent =>
          \E t \in Titles : folder[t] = panel'[q].folder
    BY DEF IInv, Folders
  <2> QED
    BY <1>1, <2>1 DEF IInv, Folders
<1>4. Versions'
  <2>1. SUFFICES ASSUME NEW q \in Panel, panel'[q] # Absent
                 PROVE  panel'[q].version + (IF Current(q)' THEN 0 ELSE 1)
                          <= 2 * edits' + release[Owner[q]]
    BY <1>1 DEF Versions
  <2>2. panel[q] # Absent
    BY <2>1
  <2>3. panel[q].version + (IF Current(q) THEN 0 ELSE 1)
          <= 2 * edits + release[Owner[q]]
    BY <2>2 DEF IInv, Versions
  <2>4. panel[q].version \in Nat /\ release[Owner[q]] \in Nat
    BY <2>2, PanelFacts, ModelFacts DEF IInv
  <2>5. CASE q = p
    <3>1. panel'[q].version = panel[q].version + 1
      BY <2>1, <2>5
    <3> QED
      BY <1>1, <2>3, <2>4, <3>1
  <2>6. CASE q # p
    <3>1. panel'[q].version = panel[q].version /\ (Current(q)' <=> Current(q))
      BY <1>2, <2>6
    <3> QED
      BY <1>1, <2>3, <2>4, <3>1
  <2> QED
    BY <2>5, <2>6
<1>5. TypeOK'
  <2>1. panel' \in [Panel -> {Absent} \cup Element]
    <3>1. SUFFICES ASSUME NEW q \in Panel, panel'[q] # Absent
                   PROVE  panel'[q] \in Element
      OBVIOUS
    <3>2. panel'[q].version + (IF Current(q)' THEN 0 ELSE 1)
            <= 2 * edits' + release[Owner[q]]
      BY <1>1, <1>4, <3>1 DEF Versions
    <3>3. /\ release[Owner[q]] \in Nat /\ release[Owner[q]] <= MaxRelease
          /\ edits' <= MaxEdit
      BY <1>1, ModelFacts DEF IInv
    <3>4. /\ panel'[q] \in [model : Model, folder : 1..MaxFolder, version : Nat \ {0}]
          /\ panel'[q].version \in Nat /\ panel'[q].version >= 1
      BY <3>1
    <3>5. panel'[q].version \in 1..(2 * MaxEdit + MaxRelease)
      BY <1>1, <3>2, <3>3, <3>4
    <3> QED
      BY <3>4, <3>5 DEF Element
  <2> QED
    BY <1>1, <2>1 DEF IInv, TypeOK
<1>6. Position'
  <2>1. (Cur)' = Cur /\ \A q : (TitleNow(Owner[q]))' = TitleNow(Owner[q])
    BY <1>1 DEF Cur, TitleNow
  <2>2. ASSUME pass.pc = "write"
        PROVE  Seen'
    <3>1. Seen /\ Cur \in Panel
      BY <2>2, OrderFacts DEF IInv, Position, AtPanel, Cur
    <3>2. CASE Cur # p
      BY <1>1, <2>1, <3>1, <3>2 DEF Seen
    <3>3. CASE Cur = p
      <4>1. /\ panel[p].version \in Nat /\ pass.read # Absent
            /\ panel[p] = pass.read \/ panel[p].version > pass.read.version
        BY <3>1, <3>3, PanelFacts DEF Seen, IInv
      <4>2. pass.read.version \in Nat
        BY <4>1, PassFields, ElementFields DEF IInv
      <4>3. panel'[p] = Absent \/ panel'[p].version > pass.read.version
        BY <4>1, <4>2
      <4> QED
        BY <1>1, <2>1, <3>3, <4>1, <4>3 DEF Seen
    <3> QED
      BY <3>2, <3>3
  <2>3. \A t \in Titles : folder'[t] = pass.folder /\ pass.pc \in InFolder
           => t = (TitleNow(Owner[Cur]))'
    BY <1>1, <2>1 DEF IInv, Position, TitleNow
  <2> QED
    BY <1>1, <2>1, <2>2, <2>3 DEF IInv, Position
<1>7. Published'
  BY <1>1, <1>2, PublishedKept
<1> QED
  BY <1>3, <1>4, <1>5, <1>6, <1>7 DEF IInv

LEMMA EditKeeps ==
  ASSUME IInv, NEW p \in Panel, Edit(p) \/ Delete(p) \/ \E t \in Titles : Move(p, t)
  PROVE  IInv'
<1> DEFINE Typed == [model : Model, folder : 1..MaxFolder, version : Nat \ {0}]
<1>1. /\ panel \in [Panel -> {Absent} \cup Element] /\ panel[p] # Absent
      /\ Element \subseteq Typed
  <2>1. panel \in [Panel -> {Absent} \cup Element] /\ panel[p] # Absent
    BY DEF Edit, Delete, Move, IInv, TypeOK
  <2>2. 1..(2 * MaxEdit + MaxRelease) \subseteq Nat \ {0}
    BY PanelsAssumption
  <2>3. Element \subseteq Typed
    BY <2>2 DEF Element
  <2> QED
    BY <2>1, <2>3
<1>2. /\ panel[p] \in Element /\ panel[p].model \in Model
      /\ panel[p].folder \in 1..MaxFolder
      /\ panel[p].version \in Nat /\ panel[p].version + 1 \in Nat \ {0}
      /\ \E t \in Titles : folder[t] = panel[p].folder
  BY <1>1, PanelFacts, ElementFields DEF IInv, Folders
<1>3. CASE Edit(p)
  <2> DEFINE m == [panel[p].model EXCEPT !.rel = Mine]
  <2>1. PICK e : e = [panel[p] EXCEPT !.model = m, !.version = panel[p].version + 1]
    OBVIOUS
  <2>2. m \in Model
    BY <1>2, Zenon DEF Model
  <2>3. panel' = [panel EXCEPT ![p] = e]
    BY <1>3, <2>1, Zenon DEF Edit
  <2> HIDE DEF m
  <2>4. panel[p] \in Typed
    BY <1>1, <1>2, Zenon
  <2>5. e \in Typed /\ e.version = panel[p].version + 1 /\ e.folder = panel[p].folder
    BY <1>2, <2>1, <2>2, <2>4
  <2> HIDE DEF Typed
  <2>6. /\ panel' \in [Panel -> {Absent} \cup Typed]
        /\ panel'[p] = e /\ \A q \in Panel : q # p => panel'[q] = panel[q]
    BY <1>1, <2>3, <2>5
  <2> USE DEF Typed
  <2> QED
    BY <1>1, <1>2, <1>3, <2>5, <2>6, UserPanelStep DEF Edit
<1>4. CASE Delete(p)
  <2> HIDE DEF Typed
  <2>1. /\ panel' \in [Panel -> {Absent} \cup Typed]
        /\ panel'[p] = Absent /\ \A q \in Panel : q # p => panel'[q] = panel[q]
    BY <1>1, <1>4 DEF Delete
  <2> USE DEF Typed
  <2> QED
    BY <1>1, <1>4, <2>1, UserPanelStep DEF Delete
<1>5. CASE \E t \in Titles : Move(p, t)
  <2>1. PICK t \in Titles : Move(p, t)
    BY <1>5
  <2>2. PICK e : e = [panel[p] EXCEPT !.folder = folder[t],
                                      !.version = panel[p].version + 1]
    OBVIOUS
  <2>3. folder[t] \in 1..MaxFolder
    <3>1. folder[t] \in 0..MaxFolder /\ folder[t] # 0
      BY <2>1, Zenon DEF Move, IInv, TypeOK
    <3> QED
      BY <3>1, PanelsAssumption
  <2>4. panel' = [panel EXCEPT ![p] = e]
    BY <2>1, <2>2, Zenon DEF Move
  <2>5. panel[p] \in Typed
    BY <1>1, <1>2, Zenon
  <2>6. e \in Typed /\ e.version = panel[p].version + 1 /\ e.folder = folder[t]
    BY <1>2, <2>2, <2>3, <2>5
  <2> HIDE DEF Typed
  <2>7. /\ panel' \in [Panel -> {Absent} \cup Typed]
        /\ panel'[p] = e /\ \A q \in Panel : q # p => panel'[q] = panel[q]
    BY <1>1, <2>4, <2>6
  <2> USE DEF Typed
  <2> QED
    BY <1>1, <2>1, <2>6, <2>7, UserPanelStep DEF Move
<1> QED
  BY <1>3, <1>4, <1>5

\* A folder a user creates or deletes is not one the pass is in, or it is gone.
LEMMA UserFolderStep ==
  ASSUME IInv, UserDoes, UNCHANGED <<release, panel, pass, faults, touched>>,
         created' \in 0..MaxFolder, created' >= created,
         folder' \in [Titles -> 0..MaxFolder], Folders',
         \A t \in Titles : folder'[t] \in {folder[t], 0} \/ folder'[t] > created,
         \A p \in Panel : Current(p) => Current(p)'
  PROVE  IInv'
<1>1. edits' = edits + 1 /\ edits' \in 0..MaxEdit /\ edits \in Nat /\ edits' \in Nat
  BY PanelsAssumption DEF UserDoes, IInv, TypeOK
<1>2. TypeOK'
  BY <1>1 DEF IInv, TypeOK
<1>3. Versions'
  BY <1>1, VersionsKept
<1>4. Published'
  BY PublishedKept
<1>5. Position'
  <2>1. (Cur)' = Cur /\ (TitleNow(Owner[Cur]))' = TitleNow(Owner[Cur])
    BY DEF Cur, TitleNow
  <2>2. Seen' <=> Seen
    BY <2>1 DEF Seen
  <2>3. ASSUME pass.pc \in InFolder
        PROVE  /\ pass.folder \in 1..created'
               /\ \A t \in Titles : folder'[t] = pass.folder
                    => t = TitleNow(Owner[Cur])
    <3>1. /\ pass.folder \in 1..created /\ created \in Nat /\ created' \in Nat
          /\ \A t \in Titles : folder[t] = pass.folder => t = TitleNow(Owner[Cur])
      BY <2>3, PanelsAssumption DEF IInv, Position, TypeOK
    <3>2. \A t \in Titles : folder'[t] \in Nat
      OBVIOUS
    <3> QED
      BY <3>1, <3>2
  <2> QED
    BY <2>1, <2>2, <2>3 DEF IInv, Position
<1> QED
  BY <1>2, <1>3, <1>4, <1>5 DEF IInv

LEMMA FolderKeeps ==
  ASSUME IInv, NEW t \in Titles, CreateFolder(t) \/ DeleteFolder(t)
  PROVE  IInv'
<1>1. CASE CreateFolder(t)
  <2>1. /\ UserDoes /\ NewFolder(t) /\ UNCHANGED <<release, panel, pass, faults, touched>>
    BY <1>1 DEF CreateFolder
  <2>2. /\ created' \in 0..MaxFolder /\ created' = created + 1 /\ created \in Nat
        /\ folder' \in [Titles -> 0..MaxFolder]
        /\ folder'[t] = created + 1
        /\ \A u \in Titles : u # t => folder'[u] = folder[u]
        /\ Folders'
        /\ \A p \in Panel : Current(p) => Current(p)'
    BY <2>1, NewFolderFacts
  <2>3. \A u \in Titles : folder'[u] \in {folder[u], 0} \/ folder'[u] > created
    BY <2>2
  <2> QED
    BY <2>1, <2>2, <2>3, UserFolderStep
<1>2. CASE DeleteFolder(t)
  <2>1. /\ UserDoes /\ UNCHANGED <<release, panel, pass, faults, touched, created>>
        /\ folder[t] # 0
        /\ \A p \in Panel : panel[p] # Absent => panel[p].folder # folder[t]
        /\ folder' = [folder EXCEPT ![t] = 0]
    BY <1>2 DEF DeleteFolder, UserOnly
  <2>2. /\ created \in 0..MaxFolder /\ 0 \in 0..MaxFolder /\ created \in Nat
    BY PanelsAssumption DEF IInv, TypeOK
  <2>3. /\ folder' \in [Titles -> 0..MaxFolder] /\ folder'[t] = 0
        /\ \A u \in Titles : u # t => folder'[u] = folder[u]
    BY <2>1, <2>2 DEF IInv, TypeOK
  <2>4. Folders'
    <3>1. \A u \in Titles : folder'[u] <= created
      BY <2>2, <2>3 DEF IInv, Folders
    <3>2. \A u, v \in Titles : folder'[u] = folder'[v] /\ folder'[u] # 0 => u = v
      BY <2>3 DEF IInv, Folders
    <3>3. \A p \in Panel : panel[p] # Absent =>
             \E u \in Titles : folder'[u] = panel[p].folder
      BY <2>1, <2>3 DEF IInv, Folders
    <3> QED
      BY <2>1, <3>1, <3>2, <3>3 DEF Folders
  <2>5. ASSUME NEW p \in Panel, Current(p)
        PROVE  Current(p)'
    <3>1. panel[p] # Absent /\ folder[TitleNow(Owner[p])] = panel[p].folder
      BY <2>5 DEF Current
    <3>2. TitleNow(Owner[p]) \in Titles /\ TitleNow(Owner[p]) # t
      BY <2>1, <3>1, ModelFacts DEF IInv
    <3> QED
      BY <2>1, <2>3, <2>5, <3>2, CurrentKept
  <2>6. \A u \in Titles : folder'[u] \in {folder[u], 0} \/ folder'[u] > created
    BY <2>3
  <2> QED
    BY <2>1, <2>2, <2>3, <2>4, <2>5, <2>6, UserFolderStep
<1> QED
  BY <1>1, <1>2

\* A release of the plugin allows for the write it will take.
LEMMA InstallKeeps ==
  ASSUME IInv, NEW o \in Plugin, Install(o)
  PROVE  IInv'
<1>1. /\ release' = [release EXCEPT ![o] = @ + 1] /\ release[o] < MaxRelease
      /\ pass' = [Begun EXCEPT !.pc = "idle"]
      /\ UNCHANGED <<folder, panel, created, edits, faults, touched>>
  BY DEF Install
<1>2. /\ release' \in [Plugin -> Release] /\ release'[o] = release[o] + 1
      /\ release[o] \in Nat
      /\ \A u \in Plugin : u # o => release'[u] = release[u]
  BY <1>1, PanelsAssumption DEF IInv, TypeOK, Release
<1>3. pass' \in Pass /\ pass'.pc = "idle"
  <2>1. 0 \in 0..MaxFolder /\ 1 \in 1..(Len(Order) + 1)
    BY PanelsAssumption, OrderFacts
  <2> QED
    BY <1>1, <2>1 DEF Begun, Pass
<1>4. TypeOK'
  BY <1>1, <1>2, <1>3 DEF IInv, TypeOK
<1>5. Folders'
  BY <1>1 DEF IInv, Folders
<1>6. Versions'
  <2>1. SUFFICES ASSUME NEW p \in Panel, panel[p] # Absent
                 PROVE  panel[p].version + (IF Current(p)' THEN 0 ELSE 1)
                          <= 2 * edits + release'[Owner[p]]
    BY <1>1 DEF Versions
  <2>2. panel[p].version + (IF Current(p) THEN 0 ELSE 1)
          <= 2 * edits + release[Owner[p]]
    BY <2>1 DEF IInv, Versions
  <2>3. /\ panel[p].version \in Nat /\ release[Owner[p]] \in Nat /\ edits \in Nat
        /\ Owner[p] \in Plugin
    BY <2>1, PanelFacts, ModelFacts DEF IInv
  <2>4. CASE Owner[p] = o
    <3>1. release'[Owner[p]] = release[Owner[p]] + 1
      BY <1>2, <2>4
    <3> QED
      BY <2>2, <2>3, <3>1
  <2>5. CASE Owner[p] # o
    <3>1. release'[Owner[p]] = release[Owner[p]]
      BY <1>2, <2>3, <2>5
    <3>2. Current(p) => Current(p)'
      BY <1>1, <3>1, CurrentKept
    <3> QED
      BY <2>2, <2>3, <3>1, <3>2
  <2> QED
    BY <2>4, <2>5
<1> QED
  BY <1>3, <1>4, <1>5, <1>6 DEF IInv, Position, Published, AtPanel, InFolder

-----------------------------------------------------------------------------
(***************************************************************************)
(* The theorems                                                            *)
(***************************************************************************)

LEMMA PanelsInit ==
  ASSUME Init
  PROVE  IInv
<1>1. /\ pass = [Begun EXCEPT !.pc = "idle"] /\ pass.pc = "idle" /\ pass \in Pass
  <2>1. 0 \in 0..MaxFolder /\ 1 \in 1..(Len(Order) + 1)
    BY PanelsAssumption, OrderFacts
  <2> QED
    BY <2>1 DEF Init, Begun, Pass
<1>2. TypeOK
  BY <1>1, PanelsAssumption DEF Init, TypeOK, Release
<1> QED
  BY <1>1, <1>2 DEF Init, IInv, Folders, Versions, Position, Published, AtPanel,
     InFolder

LEMMA PanelsNext ==
  ASSUME IInv, [Next]_vars
  PROVE  IInv'
<1>1. CASE Launch
  BY <1>1, LaunchKeeps
<1>2. CASE provision_library_panels
  BY <1>2, HealthyKeeps, ListKeeps, CreateKeeps, GetKeeps, UpsertKeeps
     DEF provision_library_panels, ensure_folder
<1>3. CASE \E p \in Panel : Edit(p) \/ Delete(p) \/ \E t \in Titles : Move(p, t)
  BY <1>3, EditKeeps
<1>4. CASE \E t \in Titles : CreateFolder(t) \/ DeleteFolder(t)
  BY <1>4, FolderKeeps
<1>5. CASE \E o \in Plugin : Install(o)
  BY <1>5, InstallKeeps
<1>6. CASE UNCHANGED vars
  <2>1. UNCHANGED <<release, folder, panel, pass, created, edits, faults, touched>>
    BY <1>6 DEF vars
  <2>2. TypeOK' /\ Folders'
    BY <2>1 DEF IInv, TypeOK, Folders
  <2>3. \A p : Current(p)' = Current(p)
    BY <2>1, CurrentSame
  <2>4. Versions' /\ Published'
    BY <2>1, <2>3 DEF IInv, Versions, Published
  <2>5. Position'
    BY <2>1 DEF IInv, Position, Seen, Cur, TitleNow
  <2> QED
    BY <2>2, <2>4, <2>5 DEF IInv
<1> QED
  BY <1>1, <1>2, <1>3, <1>4, <1>5, <1>6 DEF Next

\* Through every edit, lost request and release a pass (provision_library_panels)
\* keeps knowing what it has read and published.
THEOREM PanelsInvariant == Spec => []IInv
BY PanelsInit, PanelsNext, PTL DEF Spec

\* A pass that reports success (provision_library_panels returns Ok) has
\* published every panel of the plugins it was given that users left alone.
THEOREM PanelsPublished == Spec => []PassInv
<1>1. IInv => SuccessIsComplete
  <2>1. SUFFICES ASSUME IInv, pass.pc = "done", NEW p \in Panel,
                        p \notin touched, Owner[p] \in pass.of
                 PROVE  Current(p)
    BY DEF SuccessIsComplete
  <2>2. PICK i \in 1..Len(Order) : Order[i] = p
    BY OrderFacts
  <2>3. i < pass.at
    BY <2>1, OrderFacts DEF IInv, Position
  <2> QED
    BY <2>1, <2>2, <2>3 DEF IInv, Published
<1>2. IInv => PassInv
  BY <1>1 DEF IInv, PassInv
<1> QED
  BY <1>2, PanelsInvariant, PTL

\* Only upsert changes a panel without a user's doing.
LEMMA OnlyUpsertWrites ==
  ASSUME IInv, [Next]_vars, panel' # panel, edits' = edits
  PROVE  /\ pass.pc = "write" /\ Accepts /\ FolderThere
         /\ ~(pass.read # Absent /\ UpToDate)
         /\ \A p \in Panel : p # Cur => panel'[p] = panel[p]
<1>1. edits \in Nat
  BY PanelsAssumption DEF IInv, TypeOK
<1>2. ~UserDoes
  BY <1>1 DEF UserDoes
<1>3. upsert
  <2>1. ~(Launch \/ wait_healthy \/ list_folders \/ create_folder
          \/ get_library_element)
    BY DEF Launch, wait_healthy, list_folders, create_folder, get_library_element
  <2>2. ~\E p \in Panel : Edit(p) \/ Delete(p) \/ \E t \in Titles : Move(p, t)
    BY <1>2 DEF Edit, Delete, Move
  <2>3. ~\E t \in Titles : CreateFolder(t) \/ DeleteFolder(t)
    BY <1>2 DEF CreateFolder, DeleteFolder
  <2>4. ~\E o \in Plugin : Install(o)
    BY DEF Install
  <2> QED
    BY <2>1, <2>2, <2>3, <2>4 DEF Next, vars, provision_library_panels, ensure_folder
<1>4. /\ pass.pc = "write" /\ Accepts /\ FolderThere
      /\ ~(pass.read # Absent /\ UpToDate)
      /\ panel' = [panel EXCEPT ![Cur] =
           Stored(IF pass.read = Absent THEN 1 ELSE panel[Cur].version + 1)]
  BY <1>3 DEF upsert, Write
<1>5. \A p \in Panel : p # Cur => panel'[p] = panel[p]
  BY <1>4 DEF IInv, TypeOK
<1> QED
  BY <1>4, <1>5

\* An edit between get_library_element and the write is not overwritten: the
\* version that is sent is the one that was read.
THEOREM PanelsEditsAreSeen == Spec => EditsAreSeen
<1> DEFINE Kept == \A p \in Panel :
                     panel'[p] # panel[p] /\ edits' = edits => panel[p] = pass.read
<1>1. ASSUME IInv, [Next]_vars
      PROVE  [Kept]_vars
  <2>1. SUFFICES ASSUME NEW p \in Panel, panel'[p] # panel[p], edits' = edits
                 PROVE  panel[p] = pass.read
    OBVIOUS
  <2>2. p = Cur
    BY <1>1, <2>1, OnlyUpsertWrites
  <2> QED
    BY <1>1, <2>1, <2>2, OnlyUpsertWrites, WriteFacts
<1>2. Spec => [][Kept]_vars
  BY <1>1, PanelsInvariant, PTL DEF Spec
<1> QED
  BY <1>2 DEF EditsAreSeen

\* A panel that is as its file says, in the pass's folder, is not written
\* (upsert compares after apply_grafana_model_defaults).
THEOREM PanelsNoNeedlessWrite == Spec => NoNeedlessWrite
<1> DEFINE Kept == \A p \in Panel :
                     panel'[p] # panel[p] /\ edits' = edits /\ panel[p] # Absent
                       => panel[p].model # apply_grafana_model_defaults(FileModel(p))
                          \/ panel[p].folder # pass.folder
<1>1. ASSUME IInv, [Next]_vars
      PROVE  [Kept]_vars
  <2>1. SUFFICES ASSUME NEW p \in Panel, panel'[p] # panel[p], edits' = edits,
                        panel[p] # Absent
                 PROVE  panel[p].model # apply_grafana_model_defaults(FileModel(p))
                          \/ panel[p].folder # pass.folder
    OBVIOUS
  <2>2. p = Cur
    BY <1>1, <2>1, OnlyUpsertWrites
  <2>3. panel[p] = pass.read /\ ~UpToDate
    BY <1>1, <2>1, <2>2, OnlyUpsertWrites, WriteFacts
  <2> QED
    BY <2>2, <2>3 DEF UpToDate
<1>2. Spec => [][Kept]_vars
  BY <1>1, PanelsInvariant, PTL DEF Spec
<1> QED
  BY <1>2 DEF NoNeedlessWrite
=============================================================================
