--------------------------- MODULE DesktopLayout ---------------------------
(***************************************************************************)
(* public/js/core/desktop/desktop-layout.js: where pinned modules are on   *)
(* the desktop.  A layout is a sequence of items; an item is the sequence  *)
(* of its modules, with a folder's id, or NoFolder for a single icon.      *)
(* moveItem() is never called; labels are left out.                        *)
(***************************************************************************)
EXTENDS Naturals, Sequences, SequencesExt

NoFolder == 0

Icon(m) == [folder |-> NoFolder, modules |-> <<m>>]

AllModules(layout) == FlattenSeq([i \in DOMAIN layout |-> layout[i].modules])

Folders(layout) == {layout[i].folder : i \in DOMAIN layout} \ {NoFolder}

Indexed(layout, i) == i \in DOMAIN layout

WithoutModule(ms, m) ==
  FoldLeft(LAMBDA kept, x : IF x = m THEN kept ELSE Append(kept, x), << >>, ms)

\* Mutant: the dragged icon stays where it was.
CreateFolderFromDrop_Copies(layout, dragged, target, id) ==
  IF \/ dragged = target \/ ~Indexed(layout, dragged) \/ ~Indexed(layout, target)
     \/ layout[dragged].folder # NoFolder \/ layout[target].folder # NoFolder
  THEN layout
  ELSE [layout EXCEPT ![target] =
         [folder |-> id, modules |-> layout[target].modules \o layout[dragged].modules]]

\* An icon dropped on an icon: a folder with both, where the target was.
CreateFolderFromDrop(layout, dragged, target, id) ==
  IF \/ dragged = target \/ ~Indexed(layout, dragged) \/ ~Indexed(layout, target)
     \/ layout[dragged].folder # NoFolder \/ layout[target].folder # NoFolder
  THEN layout
  ELSE RemoveAt([layout EXCEPT ![target] =
         [folder |-> id, modules |-> layout[target].modules \o layout[dragged].modules]],
         dragged)

\* An icon dropped on the folder with this id.
MergeIntoFolder(layout, dragged, id) ==
  IF \/ ~Indexed(layout, dragged) \/ layout[dragged].folder # NoFolder \/ id \notin Folders(layout)
  THEN layout
  ELSE LET m == layout[dragged].modules[1]
           f == CHOOSE i \in DOMAIN layout : layout[i].folder = id
       IN  IF m \in Range(layout[f].modules) THEN layout
           ELSE RemoveAt([layout EXCEPT ![f].modules = Append(@, m)], dragged)

\* Out of a folder, to the end of the desktop; an emptied folder goes.
EjectFromFolder(layout, id, m) ==
  IF id \notin Folders(layout) THEN layout
  ELSE LET f == CHOOSE i \in DOMAIN layout : layout[i].folder = id
           rest == WithoutModule(layout[f].modules, m)
       IN  IF m \notin Range(layout[f].modules) THEN layout
           ELSE Append(IF rest = << >> THEN RemoveAt(layout, f)
                       ELSE [layout EXCEPT ![f].modules = rest], Icon(m))

\* Off the desktop, wherever it is: item by item, but for an emptied one.
RemoveModule(layout, m) ==
  LET Rest(item) == WithoutModule(item.modules, m)
  IN  FoldLeft(LAMBDA next, item : IF Rest(item) = << >> THEN next
                                   ELSE Append(next, [folder |-> item.folder, modules |-> Rest(item)]),
               << >>, layout)

\* togglePin
TogglePin(layout, m) ==
  IF m \in Range(AllModules(layout)) THEN RemoveModule(layout, m) ELSE Append(layout, Icon(m))
=============================================================================
