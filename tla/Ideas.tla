-------------------------------- MODULE Ideas --------------------------------
(***************************************************************************)
(* The board of ideas (composer/views.py): ideas in columns, dragged,      *)
(* edited and made into posts.  A request loads a row, and saves either    *)
(* some fields of its copy (edit, create_post) or all of them (move).      *)
(***************************************************************************)
EXTENDS Naturals, FiniteSets

CONSTANTS
    IdeaIds,      \* ideas there can be
    Columns,      \* columns (IdeaGroup) there can be
    IdeaPosts,    \* posts that can be made from ideas
    Pictures,     \* media an idea can have
    Editors,      \* requests that can be in progress together
    MaxTouches    \* bound: requests

ASSUME IdeasAssumption ==
    /\ Cardinality(Columns) >= 1
    /\ Editors # {}
    /\ MaxTouches \in Nat

Nothing == "nothing"
NoIdea == [row |-> FALSE]
Away == [pc |-> "away"]

VARIABLES
    idea,       \* the row of each idea, with the first of its attachments
    columns,    \* the columns that exist
    ideaPosts,  \* the posts that exist
    used,       \* ids that have been given
    editor,     \* requests in progress
    touches,
    strayed     \* history: ideas that came to a column that was going or gone

IdeaVars == <<idea, columns, ideaPosts, used, editor, touches, strayed>>

Lives(i) == idea[i] # NoIdea
Starts(e) == editor[e] = Away /\ touches < MaxTouches /\ touches' = touches + 1
Ends(e) == editor' = [editor EXCEPT ![e] = Away]

\* A column somebody has found empty and is about to delete, or that is gone.
Going(c) == c \notin columns \/ \E e \in Editors : editor[e].pc = "drop" /\ editor[e].column = c

\* The column that a page names, as the request finds it.
Found(c) == IF c \in columns THEN c ELSE Nothing

-----------------------------------------------------------------------------
(* Columns *)

\* _idea_columns: a board without columns gets its default ones, one of them
\* here, with an introductory idea.
BoardOpens(e) ==
    /\ Starts(e)
    /\ columns = {}
    /\ editor' = [editor EXCEPT ![e] = [pc |-> "seed"]]
    /\ UNCHANGED <<idea, columns, ideaPosts, used, strayed>>

NewIdea(column, picture) == [row |-> TRUE, column |-> column, post |-> Nothing, cover |-> picture, first |-> picture]

SeedBoard(e) ==
    /\ editor[e].pc = "seed"
    /\ \E c \in Columns \ used, i \in IdeaIds \ used :
         /\ columns' = columns \cup {c}
         /\ idea' = [idea EXCEPT ![i] = NewIdea(c, Nothing)]
         /\ used' = used \cup {c, i}
    /\ Ends(e)
    /\ UNCHANGED <<ideaPosts, touches, strayed>>

IdeaGroupCreate(e) ==
    /\ Starts(e)
    /\ \E c \in Columns \ used : columns' = columns \cup {c} /\ used' = used \cup {c}
    /\ UNCHANGED <<idea, ideaPosts, editor, strayed>>

\* Column must be empty before deleting.
IsEmpty(c) == ~\E i \in IdeaIds : Lives(i) /\ idea[i].column = c

IdeaGroupDelete(e) ==
    /\ Starts(e)
    /\ \E c \in columns : IsEmpty(c) /\ editor' = [editor EXCEPT ![e] = [pc |-> "drop", column |-> c]]
    /\ UNCHANGED <<idea, columns, ideaPosts, used, strayed>>

\* The ideas that are in the column by now lose it (SET_NULL).
DropColumn(e) ==
    LET c == editor[e].column IN
    /\ editor[e].pc = "drop"
    /\ columns' = columns \ {c}
    /\ idea' = [i \in IdeaIds |-> IF Lives(i) /\ idea[i].column = c THEN [idea[i] EXCEPT !.column = Nothing] ELSE idea[i]]
    /\ Ends(e)
    /\ UNCHANGED <<ideaPosts, used, touches, strayed>>

-----------------------------------------------------------------------------
(* Ideas *)

\* idea_create in the column the page names, or in the first one.
IdeaCreate(e) ==
    /\ Starts(e)
    /\ \E i \in IdeaIds \ used, c \in used \cap Columns, picture \in {Nothing} \cup Pictures :
         /\ idea' = [idea EXCEPT ![i] = NewIdea(Found(c), picture)]
         /\ used' = used \cup {i}
         /\ strayed' = IF Going(c) THEN strayed \cup {i} ELSE strayed
    /\ UNCHANGED <<columns, ideaPosts, editor>>

\* idea_edit, idea_move and idea_create_post load the row.
Loads(e, pc) ==
    /\ Starts(e)
    /\ \E i \in IdeaIds, c \in used \cap Columns, picture \in {Nothing} \cup Pictures :
         /\ Lives(i)
         /\ pc # "edit" => picture = Nothing
         /\ pc = "post" => c = CHOOSE d \in used \cap Columns : TRUE
         /\ editor' = [editor EXCEPT ![e] =
              [pc |-> pc, idea |-> i, copy |-> idea[i], picture |-> picture,
               column |-> IF Found(c) = Nothing THEN idea[i].column ELSE c]]
    /\ UNCHANGED <<idea, columns, ideaPosts, used, strayed>>

IdeaEdit(e) == Loads(e, "edit")
IdeaMove(e) == Loads(e, "move")
IdeaCreatePost(e) == Loads(e, "post")

Strays(i, c) == strayed' = IF c = Nothing \/ Going(c) THEN strayed \cup {i} ELSE strayed

\* A foreign key that is gone refuses the write.
Refers(column, post) == column \in columns \cup {Nothing} /\ post \in ideaPosts \cup {Nothing}

\* Mutant: the whole row of the copy is saved.
MutantEdited(e) ==
    [editor[e].copy EXCEPT !.column = editor[e].column, !.first = editor[e].picture, !.cover = editor[e].picture]

\* The fields that idea_edit saves; _sync_idea_media_attachments moves the
\* cover when it differs from the one in the copy.
Edited(e) ==
    LET w == editor[e] IN
    [idea[w.idea] EXCEPT !.column = w.column,
                         !.first = w.picture,
                         !.cover = IF w.copy.cover = w.picture THEN @ ELSE w.picture]

SaveEdit(e) ==
    LET w == editor[e] IN
    /\ w.pc = "edit"
    /\ IF Lives(w.idea) /\ Refers(w.column, Nothing)
         THEN idea' = [idea EXCEPT ![w.idea] = Edited(e)] /\ Strays(w.idea, w.column)
         ELSE UNCHANGED <<idea, strayed>>
    /\ Ends(e)
    /\ UNCHANGED <<columns, ideaPosts, used, touches>>

\* idea_move saves the whole row, even of an idea deleted in the meantime.
SaveMove(e) ==
    LET w == editor[e] IN
    /\ w.pc = "move"
    /\ IF Refers(w.column, w.copy.post)
         THEN /\ idea' = [idea EXCEPT ![w.idea] =
                   [w.copy EXCEPT !.column = w.column,
                                  !.first = IF Lives(w.idea) THEN idea[w.idea].first ELSE Nothing]]
              /\ Strays(w.idea, w.column)
         ELSE UNCHANGED <<idea, strayed>>
    /\ Ends(e)
    /\ UNCHANGED <<columns, ideaPosts, used, touches>>

\* idea_create_post: the post, and the idea's pointer to it.
SavePost(e) ==
    LET w == editor[e] IN
    /\ w.pc = "post"
    /\ IF Lives(w.idea)
         THEN \E p \in IdeaPosts \ used :
                /\ ideaPosts' = ideaPosts \cup {p}
                /\ used' = used \cup {p}
                /\ idea' = [idea EXCEPT ![w.idea].post = p]
         ELSE UNCHANGED <<ideaPosts, used, idea>>
    /\ Ends(e)
    /\ UNCHANGED <<columns, touches, strayed>>

IdeaDelete(e) ==
    /\ Starts(e)
    /\ \E i \in IdeaIds : Lives(i) /\ idea' = [idea EXCEPT ![i] = NoIdea]
    /\ UNCHANGED <<columns, ideaPosts, used, editor, strayed>>

\* post_delete (SET_NULL).
PostDelete(e) ==
    /\ Starts(e)
    /\ \E p \in ideaPosts :
         /\ ideaPosts' = ideaPosts \ {p}
         /\ idea' = [i \in IdeaIds |-> IF Lives(i) /\ idea[i].post = p THEN [idea[i] EXCEPT !.post = Nothing] ELSE idea[i]]
    /\ UNCHANGED <<columns, used, editor, strayed>>

-----------------------------------------------------------------------------
IdeasInit ==
    /\ idea = [i \in IdeaIds |-> NoIdea]
    /\ columns = {}
    /\ ideaPosts = {}
    /\ used = {}
    /\ editor = [e \in Editors |-> Away]
    /\ touches = 0
    /\ strayed = {}

IdeasNext ==
    \E e \in Editors :
        \/ BoardOpens(e) \/ SeedBoard(e) \/ IdeaGroupCreate(e) \/ IdeaGroupDelete(e) \/ DropColumn(e)
        \/ IdeaCreate(e) \/ IdeaEdit(e) \/ IdeaMove(e) \/ IdeaCreatePost(e)
        \/ SaveEdit(e) \/ SaveMove(e) \/ SavePost(e) \/ IdeaDelete(e) \/ PostDelete(e)

IdeasSpec == IdeasInit /\ [][IdeasNext]_IdeaVars

-----------------------------------------------------------------------------
\* An idea keeps the post that was made from it, whatever is edited meanwhile,
\* until that post is deleted or another is made; only a drag that had loaded
\* the idea before puts the whole row back.
IdeaKeepsItsPost ==
    [][\A i \in IdeaIds :
         (Lives(i) /\ idea'[i] # NoIdea /\ idea'[i].post # idea[i].post) =>
            \/ idea[i].post \notin ideaPosts'
            \/ idea'[i].post \in ideaPosts' \ ideaPosts
            \/ \E e \in Editors : editor[e].pc = "move" /\ editor[e].idea = i /\ editor[e].copy.post # idea[i].post]_IdeaVars

\* An idea is in a column of the board, where it can be seen; unless it was put
\* into a column that had been deleted, or that somebody had found empty and
\* was about to delete.
IdeasAreOnTheBoard ==
    \A i \in IdeaIds : Lives(i) => idea[i].column \in columns \/ i \in strayed

\* An idea is neither lost from the board nor parted from its post.
IdeasAreKept == []IdeasAreOnTheBoard /\ IdeaKeepsItsPost
=============================================================================
