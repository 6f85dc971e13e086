----------------------------- MODULE LibraryPanels -----------------------------
(***************************************************************************)
(* Publishing the plugins' library panels in a Grafana that has just come  *)
(* up (reconcile/library_panels.rs, grafana.rs: provision_library_panels). *)
(* A pass asks the catalog again which plugins there are and goes through  *)
(* their panels in a fixed order; each needs its plugin's folder, is       *)
(* looked up, and is created or patched where it differs.  The first error *)
(* ends the pass, which only the next launch repeats.                      *)
(*                                                                         *)
(* Meanwhile users edit, move and delete panels and folders, and a request *)
(* or its answer may be lost.  Grafana itself is not under src/: a panel   *)
(* is patched only with its current version and is stored with defaults    *)
(* filled in; folder titles are unique, folders identified by number.      *)
(***************************************************************************)
EXTENDS Naturals, Sequences

CONSTANTS
  Order,       \* the panels of all plugins, in the order they are read
  Owner,       \* the plugin each panel belongs to
  Title,       \* Title[o][r]: the display name of plugin o in release r
  Terse,       \* panels whose files leave out fields Grafana fills in
  Bad,         \* <<panel, release>>: the file does not parse or the uid is not valid
  MaxRelease,
  MaxFolder,   \* bound: folders ever created
  MaxEdit,     \* bound: what users do
  MaxFault     \* bound: requests and answers lost

Panel == {Order[i] : i \in 1..Len(Order)}
Plugin == {Owner[p] : p \in Panel}
Release == 1..MaxRelease
Titles == UNION {{Title[o][r] : r \in Release} : o \in Plugin}
Mine == 0      \* the release of what a user wrote

ASSUME PanelsAssumption ==
  /\ Order \in Seq(Panel)
  /\ MaxRelease \in Nat \ {0} /\ MaxFolder \in Nat
  /\ MaxEdit \in Nat /\ MaxFault \in Nat

VARIABLES
  release,   \* of each installed plugin
  folder,    \* the folder of each title, or 0
  panel,     \* the library elements of Grafana
  pass,      \* the pass under way
  created, edits, faults,
  touched    \* history: panels users changed since the pass began

vars == <<release, folder, panel, pass, created, edits, faults, touched>>

(***************************************************************************)
(* State                                                                   *)
(***************************************************************************)

\* A model says what release it is of and whether it has the defaults.
Model == [rel : {Mine} \cup Release, full : BOOLEAN]
Element == [model : Model, folder : 1..MaxFolder, version : 1..(2 * MaxEdit + MaxRelease)]
Absent == <<>>

\* of: the plugins the catalog gave; at: the position in Order; folder: what
\* ensure_folder returned; read: what get_library_element returned.
Pass == [pc : {"idle", "health", "list", "folder", "get", "write", "done", "failed"},
         of : SUBSET Plugin, at : 1..(Len(Order) + 1), folder : 0..MaxFolder,
         read : {Absent} \cup Element]

Begun == [pc |-> "health", of |-> {}, at |-> 1, folder |-> 0, read |-> Absent]

TypeOK ==
  /\ release \in [Plugin -> Release]
  /\ folder \in [Titles -> 0..MaxFolder]
  /\ panel \in [Panel -> {Absent} \cup Element]
  /\ pass \in Pass
  /\ created \in 0..MaxFolder /\ edits \in 0..MaxEdit /\ faults \in 0..MaxFault
  /\ touched \in SUBSET Panel

Init ==
  /\ release = [o \in Plugin |-> 1]
  /\ folder = [t \in Titles |-> 0]
  /\ panel = [p \in Panel |-> Absent]
  /\ pass = [Begun EXCEPT !.pc = "idle"]
  /\ created = 0 /\ edits = 0 /\ faults = 0
  /\ touched = {}

Cur == Order[pass.at]
TitleNow(o) == Title[o][release[o]]
FileModel(p) == [rel |-> release[Owner[p]], full |-> p \notin Terse]

IsBad(p) == <<p, release[Owner[p]]>> \in Bad

\* A field that is missing in the file is empty in Grafana.
apply_grafana_model_defaults(m) == [m EXCEPT !.full = TRUE]

(***************************************************************************)
(* The pass                                                                *)
(***************************************************************************)

Environment == <<release, edits, touched>>
Abort == pass' = [pass EXCEPT !.pc = "failed"]
Lose == faults < MaxFault /\ faults' = faults + 1

\* The position of the first panel from i on of the plugins in S.
Skip(i, S) ==
  LET left == {j \in i..Len(Order) : Owner[Order[j]] \in S} IN
  IF left = {} THEN Len(Order) + 1 ELSE CHOOSE j \in left : \A k \in left : j <= k

\* The next panel; its folder is resolved anew when the plugin is another.
Advance ==
  LET i == Skip(pass.at + 1, pass.of) IN
  pass' = [pass EXCEPT !.at = i, !.read = Absent,
             !.pc = IF i > Len(Order) THEN "done"
                    ELSE IF Owner[Order[i]] = Owner[Cur] THEN "get" ELSE "list"]

\* build_resolved_plugins: the catalog may give any part of the plugins, and
\* then the others are passed over without an error.
Launch ==
  /\ pass.pc \in {"idle", "done", "failed"}
  /\ \E S \in SUBSET Plugin :
       /\ IF S = Plugin THEN UNCHANGED faults ELSE Lose
       /\ pass' = [Begun EXCEPT !.of = S, !.at = Skip(1, S)]
  /\ touched' = {}
  /\ UNCHANGED <<release, folder, panel, created, edits>>

wait_healthy ==
  /\ pass.pc = "health"
  /\ \/ /\ pass' = [pass EXCEPT !.pc = IF pass.at > Len(Order) THEN "done" ELSE "list"]
        /\ UNCHANGED faults
     \/ Lose /\ Abort
  /\ UNCHANGED <<Environment, folder, panel, created>>

\* Mutant: the folder is created without looking for it.
list_folders_not ==
  /\ pass.pc = "list"
  /\ \/ pass' = [pass EXCEPT !.pc = "folder"] /\ UNCHANGED faults
     \/ Lose /\ Abort
  /\ UNCHANGED <<Environment, folder, panel, created>>

list_folders ==
  /\ pass.pc = "list"
  /\ \/ /\ LET f == folder[TitleNow(Owner[Cur])] IN
             pass' = IF f = 0 THEN [pass EXCEPT !.pc = "folder"]
                     ELSE [pass EXCEPT !.pc = "get", !.folder = f]
        /\ UNCHANGED faults
     \/ Lose /\ Abort
  /\ UNCHANGED <<Environment, folder, panel, created>>

\* External: Grafana creates a folder unless there is one of that title.
NewFolder(t) ==
  /\ folder[t] = 0 /\ created < MaxFolder
  /\ created' = created + 1
  /\ folder' = [folder EXCEPT ![t] = created + 1]

create_folder ==
  /\ pass.pc = "folder"
  /\ LET t == TitleNow(Owner[Cur]) IN
     \/ /\ NewFolder(t)
        /\ \/ pass' = [pass EXCEPT !.pc = "get", !.folder = created'] /\ UNCHANGED faults
           \/ Lose /\ Abort
     \/ /\ folder[t] # 0 /\ Abort
        /\ UNCHANGED <<folder, created, faults>>
     \/ Lose /\ Abort /\ UNCHANGED <<folder, created>>
  /\ UNCHANGED <<Environment, panel>>

\* The folder of the first panel's plugin serves all its panels.
ensure_folder == list_folders \/ create_folder

\* The uid and the file come first.
get_library_element ==
  /\ pass.pc = "get"
  /\ \/ (IF IsBad(Cur) THEN Abort
         ELSE pass' = [pass EXCEPT !.pc = "write", !.read = panel[Cur]]) /\ UNCHANGED faults
     \/ Lose /\ Abort
  /\ UNCHANGED <<Environment, folder, panel, created>>

\* Mutant: the file is compared as it is.
UpToDate_raw ==
  pass.read.model = FileModel(Cur) /\ pass.read.folder = pass.folder

\* Mutant: the folder is not compared.
UpToDate_anywhere ==
  pass.read.model = apply_grafana_model_defaults(FileModel(Cur))

UpToDate ==
  /\ pass.read.model = apply_grafana_model_defaults(FileModel(Cur))
  /\ pass.read.folder = pass.folder

\* External: what Grafana stores.
Stored(v) == [model |-> apply_grafana_model_defaults(FileModel(Cur)),
              folder |-> pass.folder, version |-> v]
FolderThere == \E t \in Titles : folder[t] = pass.folder

\* Mutant: the version is looked up again for the patch.
SentVersion_again == panel[Cur].version

\* The patch carries the version that came with what was compared.
SentVersion == pass.read.version

\* External: an element is created if there is none and patched if it has the
\* version that is sent.
Accepts ==
  IF pass.read = Absent THEN panel[Cur] = Absent
  ELSE panel[Cur] # Absent /\ panel[Cur].version = SentVersion

\* create_library_element or patch_library_element: done, done though the
\* answer is lost, refused, or lost.
Write ==
  \/ /\ Accepts /\ FolderThere
     /\ panel' = [panel EXCEPT ![Cur] =
          Stored(IF pass.read = Absent THEN 1 ELSE panel[Cur].version + 1)]
     /\ \/ Advance /\ UNCHANGED faults
        \/ Lose /\ Abort
  \/ /\ ~(Accepts /\ FolderThere) /\ Abort
     /\ UNCHANGED <<panel, faults>>
  \/ Lose /\ Abort /\ UNCHANGED panel

upsert ==
  /\ pass.pc = "write"
  /\ IF pass.read # Absent /\ UpToDate
     THEN Advance /\ UNCHANGED <<panel, faults>>
     ELSE Write
  /\ UNCHANGED <<Environment, folder, created>>

provision_library_panels ==
  wait_healthy \/ ensure_folder \/ get_library_element \/ upsert

(***************************************************************************)
(* Users and publishers                                                    *)
(***************************************************************************)

UserDoes == edits < MaxEdit /\ edits' = edits + 1
UserOnly == UNCHANGED <<release, pass, created, faults>>

Edit(p) ==
  /\ UserDoes /\ panel[p] # Absent
  /\ panel' = [panel EXCEPT ![p].model.rel = Mine, ![p].version = @ + 1]
  /\ touched' = touched \cup {p}
  /\ UNCHANGED folder /\ UserOnly

Move(p, t) ==
  /\ UserDoes /\ panel[p] # Absent /\ folder[t] \notin {0, panel[p].folder}
  /\ panel' = [panel EXCEPT ![p].folder = folder[t], ![p].version = @ + 1]
  /\ touched' = touched \cup {p}
  /\ UNCHANGED folder /\ UserOnly

Delete(p) ==
  /\ UserDoes /\ panel[p] # Absent
  /\ panel' = [panel EXCEPT ![p] = Absent]
  /\ touched' = touched \cup {p}
  /\ UNCHANGED folder /\ UserOnly

\* A folder of that title, perhaps just before the pass creates it.
CreateFolder(t) ==
  /\ UserDoes /\ NewFolder(t)
  /\ UNCHANGED <<release, panel, pass, faults, touched>>

\* An empty folder.
DeleteFolder(t) ==
  /\ UserDoes /\ folder[t] # 0
  /\ \A p \in Panel : panel[p] # Absent => panel[p].folder # folder[t]
  /\ folder' = [folder EXCEPT ![t] = 0]
  /\ UNCHANGED <<panel, touched>> /\ UserOnly

\* A launch installs a new release before it starts Grafana.
Install(o) ==
  /\ pass.pc \in {"idle", "done", "failed"} /\ release[o] < MaxRelease
  /\ release' = [release EXCEPT ![o] = @ + 1]
  /\ pass' = [Begun EXCEPT !.pc = "idle"]
  /\ UNCHANGED <<folder, panel, created, edits, faults, touched>>

(***************************************************************************)
(* Specification                                                           *)
(***************************************************************************)

Next ==
  \/ Launch \/ provision_library_panels
  \/ \E p \in Panel : Edit(p) \/ Delete(p) \/ \E t \in Titles : Move(p, t)
  \/ \E t \in Titles : CreateFolder(t) \/ DeleteFolder(t)
  \/ \E o \in Plugin : Install(o)

Spec == Init /\ [][Next]_vars

\* A pass goes on by itself, and the user launches again.
FairSpec == Spec /\ WF_vars(provision_library_panels) /\ WF_vars(Launch)

(***************************************************************************)
(* Properties                                                              *)
(***************************************************************************)

Current(p) ==
  /\ panel[p] # Absent
  /\ panel[p].model = apply_grafana_model_defaults(FileModel(p))
  /\ panel[p].folder = folder[TitleNow(Owner[p])]

\* A pass that reports success has published every panel of the plugins it was
\* given: all that users left alone since it began show the installed release,
\* in its plugin's folder.
SuccessIsComplete ==
  pass.pc = "done" =>
    \A p \in Panel \ touched : Owner[p] \in pass.of => Current(p)

\* Together with the types of the state.
PassInv == TypeOK /\ SuccessIsComplete

\* A pass replaces only what it read: an edit made between its look and its
\* write is not overwritten by it.
EditsAreSeen ==
  [][\A p \in Panel :
       panel'[p] # panel[p] /\ edits' = edits => panel[p] = pass.read]_vars

\* A pass leaves alone what is already as the files say, so that relaunching
\* does not count versions up or disturb whoever is editing.
NoNeedlessWrite ==
  [][\A p \in Panel :
       panel'[p] # panel[p] /\ edits' = edits /\ panel[p] # Absent
         => panel[p].model # apply_grafana_model_defaults(FileModel(p))
            \/ panel[p].folder # pass.folder]_vars

\* When users, publishers and faults are done, every panel before the first bad
\* one is published and stays so, whatever earlier passes left behind.
GoodPrefixPublished ==
  <>[](\A i \in 1..Len(Order) :
         (\A j \in 1..i : ~IsBad(Order[j])) => Current(Order[i]))
================================================================================
