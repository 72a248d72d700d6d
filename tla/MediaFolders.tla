---------------------------- MODULE MediaFolders ----------------------------
(***************************************************************************)
(* The folders of the media library (media_library/views.py, services.py). *)
(* No request holds a transaction: what it loaded may have changed or gone *)
(* when it writes, and the database deletes a folder's subfolders with it. *)
(***************************************************************************)
EXTENDS Naturals, FiniteSets

CONSTANTS
    Folders,     \* folders there can be
    Names,       \* their names
    Clerks,      \* requests that can be in progress together
    MaxChores    \* bound: requests

Root == "root"
NoFolder == "no folder"

\* The top level and a missing row are no keys of folders.
ASSUME FoldersAssumption ==
    /\ Root \notin Folders /\ NoFolder \notin Folders
    /\ Clerks # {} /\ MaxChores \in Nat

MaxDepth == 3

VARIABLES
    above,      \* the parent of each folder, Root, or NoFolder
    named,      \* the name of each folder
    holds,      \* the folder of the library's asset
    clerk,      \* requests in progress
    chores,
    late,       \* history: folders put under one whose contents had been moved
    vanished,   \* history: folders that went with another
    overlapped  \* history: two deletions have been in progress together

FolderVars == <<above, named, holds, clerk, chores, late, vanished, overlapped>>

Off == [pc |-> "off"]
Has(f) == above[f] # NoFolder
FreshFolder(f) == ~Has(f) /\ f \notin vanished
Below(f) == {g \in Folders : above[g] = f}
Takes(c) == clerk[c] = Off /\ chores < MaxChores /\ chores' = chores + 1

\* How deep a folder is: a top-level folder is at depth 1.
DepthOf(f) == IF above[f] = Root THEN 1 ELSE IF above[above[f]] = Root THEN 2 ELSE 3

\* unique_folder_name_per_parent, which does not bind the top level (NULL).
Clashes(f, holder, name) == \E g \in Folders \ {f} : holder # Root /\ above[g] = holder /\ named[g] = name

DeletesFolder(c) == clerk[c].pc \in {"move", "moved", "emptied"}

\* Under a folder whose deletion has already moved its contents.
Emptied(f) == \E c \in Clerks : clerk[c].pc = "emptied" /\ clerk[c].folder = f

-----------------------------------------------------------------------------
\* create_folder: check_folder_depth, and the rows it saw ...
FolderCreate(c) ==
    /\ Takes(c)
    /\ \E f \in Folders, holder \in {Root} \cup {g \in Folders : Has(g)}, name \in Names :
         /\ FreshFolder(f) /\ \A o \in Clerks : clerk[o] # Off => clerk[o].folder # f
         /\ clerk' = [clerk EXCEPT ![c] =
              IF holder # Root /\ (DepthOf(holder) >= MaxDepth \/ Clashes(f, holder, name)) THEN Off
              ELSE [pc |-> "create", folder |-> f, parent |-> holder, name |-> name]]
    /\ UNCHANGED <<above, named, holds, late, vanished, overlapped>>

\* ... and the insert, refused when the parent is gone or the name was taken.
InsertFolder(c) ==
    LET w == clerk[c] IN
    /\ w.pc = "create"
    /\ clerk' = [clerk EXCEPT ![c] = Off]
    /\ IF (w.parent # Root /\ ~Has(w.parent)) \/ Clashes(w.folder, w.parent, w.name)
         THEN UNCHANGED <<above, named, late>>
         ELSE /\ above' = [above EXCEPT ![w.folder] = w.parent]
              /\ named' = [named EXCEPT ![w.folder] = w.name]
              /\ late' = IF w.parent # Root /\ Emptied(w.parent) THEN late \cup {w.folder} ELSE late
    /\ UNCHANGED <<holds, chores, vanished, overlapped>>

\* folder_rename: the duplicate is looked for, and the constraint has the last word.
FolderRename(c) ==
    /\ Takes(c)
    /\ \E f \in Folders, name \in Names :
         /\ Has(f) /\ ~Clashes(f, above[f], name)
         /\ named' = [named EXCEPT ![f] = name]
    /\ UNCHANGED <<above, holds, clerk, late, vanished, overlapped>>

\* asset_move.
AssetMove(c) ==
    /\ Takes(c)
    /\ \E f \in {Root} \cup {g \in Folders : Has(g)} : holds' = f
    /\ UNCHANGED <<above, named, clerk, late, vanished, overlapped>>

\* folder_delete loads the folder; ...
FolderDelete(c) ==
    /\ Takes(c)
    /\ \E f \in Folders :
         /\ Has(f)
         /\ clerk' = [clerk EXCEPT ![c] = [pc |-> "move", folder |-> f, parent |-> above[f]]]
    /\ overlapped' = (overlapped \/ \E o \in Clerks : DeletesFolder(o))
    /\ UNCHANGED <<above, named, holds, late, vanished>>

Gives(f, holder) == [g \in Folders |-> IF above[g] = f THEN holder ELSE above[g]]

\* ... the assets go to the parent it had, if that is still there; ...
MoveAssets(c) ==
    LET w == clerk[c]
        broken == w.parent # Root /\ ~Has(w.parent)
    IN /\ w.pc = "move"
       /\ holds' = IF holds = w.folder /\ ~broken THEN w.parent ELSE holds
       /\ clerk' = [clerk EXCEPT ![c] = IF broken THEN Off ELSE [w EXCEPT !.pc = "moved"]]
       /\ UNCHANGED <<above, named, chores, late, vanished, overlapped>>

\* Mutant: the subfolders are left where they are.
MutantMoveSubfolders(c) ==
    /\ clerk[c].pc = "moved"
    /\ clerk' = [clerk EXCEPT ![c].pc = "emptied"]
    /\ UNCHANGED <<above, named, holds, chores, late, vanished, overlapped>>

\* ... then the subfolders, all or none of them; ...
MoveSubfolders(c) ==
    LET w == clerk[c]
        refused == \/ w.parent # Root /\ ~Has(w.parent) /\ Below(w.folder) # {}
                   \/ \E g \in Below(w.folder) : Clashes(g, w.parent, named[g])
    IN /\ w.pc = "moved"
       /\ above' = IF refused THEN above ELSE Gives(w.folder, w.parent)
       /\ late' = IF ~refused /\ w.parent # Root /\ Emptied(w.parent) THEN late \cup Below(w.folder) ELSE late
       /\ clerk' = [clerk EXCEPT ![c] = IF refused THEN Off ELSE [w EXCEPT !.pc = "emptied"]]
       /\ UNCHANGED <<named, holds, chores, vanished, overlapped>>

\* What the database deletes with a folder: all that is under it.
Cascade(f) ==
    {g \in Folders :
       \A S \in SUBSET Folders : (Below(f) \subseteq S /\ \A h \in S : Below(h) \subseteq S) => g \in S}

\* ... and the folder goes, with what has come into it meanwhile.
DeleteFolder(c) ==
    LET f == clerk[c].folder
        with == Cascade(f)
        gone == with \cup {f}
    IN /\ clerk[c].pc = "emptied"
       /\ clerk' = [clerk EXCEPT ![c] = Off]
       /\ above' = [g \in Folders |-> IF Has(f) /\ g \in gone THEN NoFolder ELSE above[g]]
       /\ holds' = IF Has(f) /\ holds \in gone THEN Root ELSE holds
       /\ vanished' = IF Has(f) THEN vanished \cup gone ELSE vanished
       /\ UNCHANGED <<named, chores, late, overlapped>>

-----------------------------------------------------------------------------
FoldersInit ==
    /\ above = [f \in Folders |-> NoFolder]
    /\ named = [f \in Folders |-> CHOOSE name \in Names : TRUE]
    /\ holds = Root
    /\ clerk = [c \in Clerks |-> Off]
    /\ chores = 0
    /\ late = {}
    /\ vanished = {}
    /\ overlapped = FALSE

FoldersNext ==
    \E c \in Clerks :
        \/ FolderCreate(c) \/ InsertFolder(c) \/ FolderRename(c) \/ AssetMove(c)
        \/ FolderDelete(c) \/ MoveAssets(c) \/ MoveSubfolders(c) \/ DeleteFolder(c)

FoldersSpec == FoldersInit /\ [][FoldersNext]_FolderVars

-----------------------------------------------------------------------------
\* A folder goes because somebody deletes it, and never with another one,
\* however creations and deletions meet; unless it, or one it is under, was put
\* under a folder whose contents had been moved already.
FoldersGoWhenAsked ==
    [][\A f \in Folders :
         (Has(f) /\ above'[f] = NoFolder) =>
            \/ \E c \in Clerks : clerk[c].pc = "emptied" /\ clerk[c].folder = f
            \/ \E g \in late : f = g \/ f \in Cascade(g)]_FolderVars

\* Going up from a folder leads to the top level, and never round in a circle.
FoldersFormTrees == \A S \in SUBSET {f \in Folders : Has(f)} : S # {} => \E f \in S : above[f] \notin S

\* Where check_folder_depth lets a folder be put under f, and where it stops.
HasRoomBelow(f) == above[f] = Root \/ (above[f] \in Folders /\ above[above[f]] = Root)
WithinDepth(f) == above[f] = Root \/ (above[f] \in Folders /\ HasRoomBelow(above[f]))

\* Folders are nested three levels deep at most, although the depth is only looked
\* at before the insert and folders move meanwhile; unless two deletions overlap:
\* then subfolders may go to a parent that has itself come lower since.
FoldersAreShallow == ~overlapped => \A f \in Folders : Has(f) => WithinDepth(f)

\* The folders stay a tree of three levels, and it loses what is deleted.
FoldersAreKept == [](FoldersFormTrees /\ FoldersAreShallow) /\ FoldersGoWhenAsked
=============================================================================
