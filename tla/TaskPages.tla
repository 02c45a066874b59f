---- MODULE TaskPages ----
(***************************************************************************)
(* Paged reads of the Tasks while Tasks are admitted: a cursor names the   *)
(* last Task of the page and the last Task there was on the first page     *)
(* (packages/task-authority/src/task-id-cursor.ts), and a client asks for  *)
(* page after page (listAllTasks and usageReport of                        *)
(* apps/cli/src/server-client.ts).                                         *)
(*                                                                         *)
(* Abstractions.  A Task is the rank of its identity: a new Task may have  *)
(* any, and no Task is ever removed.                                       *)
(***************************************************************************)
EXTENDS Integers, SequencesExt

CONSTANTS
    TaskRanks,  \* 1..n
    PageSize    \* 200 in the code

ASSUME PagesAssumption == TaskRanks \subseteq Nat \ {0} /\ PageSize \in Nat \ {0}

VARIABLES
    rows,   \* the Tasks there are
    pages   \* the client's read

pageVars == <<rows, pages>>

NoCursor == [upper |-> 0, after |-> 0]

PagesInit ==
    /\ rows = {}
    /\ pages = [cursor |-> NoCursor, listed |-> <<>>, first |-> {}, step |-> "start"]

AdmitTask ==
    /\ pages.step # "done"
    /\ \E task \in TaskRanks \ rows : rows' = rows \cup {task}
    /\ UNCHANGED pages

\* pageTaskIds: the Tasks of the range, the page, the next cursor.
\* Fault: the cursor's own Task is listed again.
InRange_Closed(task, cursor, upper) == task >= cursor.after /\ task <= upper
InRange(task, cursor, upper) == task > cursor.after /\ task <= upper

Upper(cursor) ==
    IF cursor # NoCursor THEN cursor.upper
    ELSE CHOOSE task \in rows : \A other \in rows : other <= task

\* The Tasks of the range after those that are on the page already.
Remaining(cursor, page) ==
    {task \in rows : InRange(task, cursor, Upper(cursor)) /\ (page # <<>> => task > Last(page))}

Extended(cursor, page) ==
    IF Remaining(cursor, page) = {} THEN page
    ELSE Append(page, CHOOSE task \in Remaining(cursor, page) :
                          \A other \in Remaining(cursor, page) : task <= other)

\* In order, and no more than fit.
Page(cursor) ==
    LET first[k \in 0..PageSize] == IF k = 0 THEN <<>> ELSE Extended(cursor, first[k - 1])
    IN  first[PageSize]

NextCursor(cursor, page) ==
    IF page # <<>> /\ \E task \in rows : task > Last(page) /\ task <= Upper(cursor)
    THEN [upper |-> Upper(cursor), after |-> Last(page)] ELSE NoCursor

\* decodeTaskIdCursor and the check that the page makes of it.
Valid(cursor) == cursor = NoCursor \/ ({cursor.upper, cursor.after} \subseteq rows /\ cursor.after <= cursor.upper)

ReadTaskPage ==
    LET page == IF rows = {} THEN <<>> ELSE Page(pages.cursor)
        next == NextCursor(pages.cursor, page)
    IN  /\ pages.step \in {"start", "next"}
        /\ pages' = IF ~Valid(pages.cursor) THEN [pages EXCEPT !.step = "error"] ELSE
                    [cursor |-> next, listed |-> pages.listed \o page,
                     first |-> IF pages.step = "start" THEN rows ELSE pages.first,
                     step |-> IF next = NoCursor THEN "done"
                              ELSE IF next = pages.cursor THEN "error" ELSE "next"]
        /\ UNCHANGED rows

PagesNext == AdmitTask \/ ReadTaskPage

PagesSpec == PagesInit /\ [][PagesNext]_pageVars

(***************************************************************************)
(* Properties.                                                              *)
(***************************************************************************)
\* The pages end, list every Task of the first page's moment, and none twice, whatever is
\* admitted between them.
PagesListEachTaskOnce ==
    /\ pages.step # "error"
    /\ \A i, j \in DOMAIN pages.listed : i < j => pages.listed[i] < pages.listed[j]
    /\ pages.step = "done" => pages.first \subseteq ToSet(pages.listed)
====
