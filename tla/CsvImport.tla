------------------------------ MODULE CsvImport ------------------------------
(***************************************************************************)
(* The import of posts from a CSV file (composer/views.py: csv_upload,     *)
(* csv_preview, csv_confirm_import).  The rows and the mapping of their    *)
(* columns wait in the user's session, which every request reads when it   *)
(* begins and saves as a whole when it ends; the import itself has no      *)
(* transaction and runs row by row within a request.                       *)
(***************************************************************************)
EXTENDS Naturals, FiniteSets

CONSTANTS
    Files,        \* files the user uploads
    CsvRows,      \* rows 1..CsvRows of each
    Tabs,         \* the user's tabs
    MaxClicks     \* bound: requests of the user, and requests that are cut

NoCsv == "no file"

ASSUME CsvAssumption == {CsvRows, MaxClicks} \subseteq Nat /\ CsvRows > 0 /\ NoCsv \notin Files

Blank == [file |-> NoCsv, mapping |-> NoCsv]
Unasked == [pc |-> "unasked"]

VARIABLES
    session_csv,   \* csv_import_ and csv_mapping_: the file, and the file the mapping is for
    tab,           \* the page of each tab: where the user is, and with which file
    asked,         \* the request of each tab
    clicks,
    imported,      \* posts there are of each row
    given,         \* files that have been uploaded: the same rows again are another file
    crossed,       \* history: an import overlapped another request of the user
    cut            \* history: an import was cut

CsvVars == <<session_csv, tab, asked, clicks, imported, given, crossed, cut>>

Clicks == clicks < MaxClicks /\ clicks' = clicks + 1
InFlight == {t \in Tabs : asked[t] # Unasked}

\* A request reads the session when it begins.
Asks(t, what, file) ==
    /\ asked[t] = Unasked /\ Clicks
    /\ asked' = [asked EXCEPT ![t] = [pc |-> what, had |-> session_csv, file |-> file]]
    /\ crossed' = (crossed \/ \E o \in InFlight : asked[o].pc = "import" \/ what = "import")
    /\ UNCHANGED <<session_csv, tab, imported, cut>>

\* ... and saves it when it ends.
Answers(t, session, shownPage) ==
    /\ session_csv' = session
    /\ tab' = [tab EXCEPT ![t] = shownPage]
    /\ asked' = [asked EXCEPT ![t] = Unasked]
    /\ UNCHANGED <<clicks, imported, given, crossed, cut>>

-----------------------------------------------------------------------------
\* csv_upload keeps the rows; a mapping of before stays.
CsvUpload(t) == \E f \in Files \ given : Asks(t, "upload", f) /\ given' = given \cup {f}
Uploaded(t) ==
    /\ asked[t].pc = "upload"
    /\ Answers(t, [asked[t].had EXCEPT !.file = asked[t].file], "mapping")

\* csv_preview keeps the mapping of the columns, made for the file of its page.
CsvPreview(t) ==
    /\ tab[t] = "mapping"
    /\ session_csv.file # NoCsv
    /\ Asks(t, "preview", session_csv.file)
    /\ UNCHANGED given

Previewed(t) ==
    /\ asked[t].pc = "preview"
    /\ Answers(t, [asked[t].had EXCEPT !.mapping = asked[t].file], "preview")

\* Any other page of the application.
OtherPage(t) == Asks(t, "other", NoCsv) /\ UNCHANGED given
OtherShown(t) == asked[t].pc = "other" /\ Answers(t, asked[t].had, "elsewhere")

\* csv_confirm_import needs both; ...
CsvConfirm(t) ==
    /\ tab[t] = "preview"
    /\ session_csv.file # NoCsv /\ session_csv.mapping # NoCsv
    /\ Asks(t, "import", session_csv.file)
    /\ UNCHANGED given

RowsDone(t) == IF "row" \in DOMAIN asked[t] THEN asked[t].row ELSE 0

\* ... a row becomes a post, or is an error and does not (or does: its platform posts
\* come after it).
ImportRow(t) ==
    LET r == <<asked[t].file, RowsDone(t) + 1>> IN
    /\ asked[t].pc = "import" /\ RowsDone(t) < CsvRows
    /\ imported' \in {imported, [imported EXCEPT ![r] = IF @ < 2 THEN @ + 1 ELSE @]}
    /\ asked' = [asked EXCEPT ![t] = [pc |-> "import", had |-> @.had, file |-> @.file, row |-> RowsDone(t) + 1]]
    /\ UNCHANGED <<session_csv, tab, clicks, given, crossed, cut>>

\* Mutant: the session is left as it was.
MutantCleaned(session) == session

\* ... and the session is cleaned.
Cleaned(session) == Blank

Imported(t) ==
    /\ asked[t].pc = "import" /\ RowsDone(t) = CsvRows
    /\ Answers(t, Cleaned(asked[t].had), "preview")

\* The worker is stopped: the session stays as it was, and so do the posts.
CsvCut(t) ==
    /\ asked[t] # Unasked /\ Clicks
    /\ asked' = [asked EXCEPT ![t] = Unasked]
    /\ cut' = (cut \/ asked[t].pc = "import")
    /\ UNCHANGED <<session_csv, tab, imported, given, crossed>>

-----------------------------------------------------------------------------
CsvInit ==
    /\ session_csv = Blank
    /\ tab = [t \in Tabs |-> "elsewhere"]
    /\ asked = [t \in Tabs |-> Unasked]
    /\ clicks = 0
    /\ imported = [r \in Files \X (1..CsvRows) |-> 0]
    /\ given = {}
    /\ crossed = FALSE /\ cut = FALSE

CsvNext ==
    \E t \in Tabs :
        \/ CsvUpload(t) \/ Uploaded(t) \/ CsvPreview(t) \/ Previewed(t) \/ OtherPage(t) \/ OtherShown(t)
        \/ CsvConfirm(t) \/ ImportRow(t) \/ Imported(t) \/ CsvCut(t)

CsvSpec == CsvInit /\ [][CsvNext]_CsvVars

-----------------------------------------------------------------------------
\* The rows of a file become posts once, in whichever tabs the user uploads, previews
\* and confirms; unless an import overlapped another request of the user, which
\* saves the session it had read, or was cut before the session was cleaned.
RowsImportedOnce ==
    crossed \/ cut \/ \A r \in Files \X (1..CsvRows) : imported[r] <= 1
=============================================================================
