------------------------------- MODULE Dialogs -------------------------------
(***************************************************************************)
(* The form dialogs of both browser consoles, one at a time: opening,      *)
(* typing, cancelling, submitting, and what the answer of a submission     *)
(* does to the form, which may have been closed and opened again since.    *)
(*                                                                         *)
(* A dialog is described by what distinguishes it:                         *)
(*   blanks  opening it empties the form; otherwise the form is as it was  *)
(*   edits   it also opens on an existing item, with the item's fields     *)
(*   checks  submitting an incomplete form is refused                      *)
(*   clears  a success empties the form and ends editing                   *)
(*   holds   the button is busy until the list is fetched again            *)
(*   creates what the server does with a new item: it "adds" it, it        *)
(*           "refuses" a name that exists, it "ignores" such a name and    *)
(*           answers as if it had not, or it "rejects" every submission,   *)
(*           for want of a field the form does not have                    *)
(***************************************************************************)
EXTENDS Naturals, FiniteSets

CONSTANTS
    Items,   \* identifiers the server can give to items
    Texts,   \* contents of a complete form
    Empty,   \* the content of an incomplete form
    NoItem   \* the form has no identifier, or the server no such item

ASSUME DialogsAssumption ==
    /\ NoItem \notin Items \cup Texts \cup {Empty}
    /\ "new" \notin Items

VARIABLES
    dialog,   \* which dialog it is
    show,     \* it is open
    editing,  \* its title says that an item is edited
    form,     \* the item the form belongs to, and its content
    busy,     \* the submit button is loading
    job,      \* the submission in flight
    stored,   \* the server: the content of each item
    asked,    \* what the dialog was last opened for: "new" or an item
    left      \* history: the item of a cancelled edit that is still in the form

dialogVars == <<dialog, show, editing, form, busy, job, stored, asked, left>>

CameraFormV1 == [blanks |-> FALSE, edits |-> FALSE, checks |-> FALSE,
                 clears |-> FALSE, holds |-> FALSE, creates |-> "rejects"]

ImportDialogV1 == [CameraFormV1 EXCEPT !.blanks = TRUE, !.checks = TRUE,
                                        !.creates = "adds"]

CameraFormV2 == [CameraFormV1 EXCEPT !.checks = TRUE, !.creates = "ignores"]

RegisterFormV2 == [CameraFormV1 EXCEPT !.clears = TRUE, !.holds = TRUE,
                                        !.creates = "adds"]

PipelineFormV2 == [CameraFormV1 EXCEPT !.holds = TRUE, !.creates = "refuses"]

RuleFormV2 == [RegisterFormV2 EXCEPT !.edits = TRUE, !.creates = "refuses"]

DialogKinds == {CameraFormV1, ImportDialogV1, CameraFormV2, RegisterFormV2,
                PipelineFormV2, RuleFormV2}

Blank == [item |-> NoItem, text |-> Empty]
NoJob == [stage |-> "none", item |-> NoItem, text |-> Empty, asked |-> "new",
          left |-> NoItem]

Form == [item: Items \cup {NoItem}, text: Texts \cup {Empty}]
Job == [stage: {"sent", "done", "reload"}, item: Items \cup {NoItem},
        text: Texts \cup {Empty}, asked: Items \cup {"new"},
        left: Items \cup {NoItem}]

DialogsTypeOK ==
    /\ dialog \in DialogKinds
    /\ show \in BOOLEAN
    /\ editing \in BOOLEAN
    /\ form \in Form
    /\ busy \in BOOLEAN
    /\ job \in Job \cup {NoJob}
    /\ stored \in [Items -> Texts \cup {Empty, NoItem}]
    /\ asked \in Items \cup {"new"}
    /\ left \in Items \cup {NoItem}

DialogsInit ==
    /\ dialog \in DialogKinds
    /\ show = FALSE
    /\ editing = FALSE
    /\ form = Blank
    /\ busy = FALSE
    /\ job = NoJob
    /\ stored \in [Items -> Texts \cup {Empty, NoItem}]
    /\ asked = "new"
    /\ left = NoItem

-----------------------------------------------------------------------------
(* The user. *)

\* The button that opens the dialog for a new item.
OpenNew ==
    /\ ~show
    /\ show' = TRUE
    /\ asked' = "new"
    /\ form' = IF dialog.blanks THEN Blank ELSE form
    /\ UNCHANGED <<dialog, editing, busy, job, stored, left>>

\* The edit button of a row, with the fields the row shows.
OpenEdit(x, text) ==
    /\ ~show
    /\ dialog.edits
    /\ show' = TRUE
    /\ asked' = x
    /\ editing' = TRUE
    /\ form' = [item |-> x, text |-> text]
    /\ left' = NoItem
    /\ UNCHANGED <<dialog, busy, job, stored>>

Type(text) ==
    /\ show
    /\ form.text # text
    /\ form' = [form EXCEPT !.text = text]
    /\ UNCHANGED <<dialog, show, editing, busy, job, stored, asked, left>>

\* Closing the dialog resets nothing, and stops no submission.
Cancel ==
    /\ show
    /\ show' = FALSE
    /\ left' = form.item
    /\ UNCHANGED <<dialog, editing, form, busy, job, stored, asked>>

Submit ==
    /\ show
    /\ ~busy
    /\ dialog.checks => form.text # Empty
    /\ busy' = TRUE
    /\ job' = [stage |-> "sent", text |-> form.text, asked |-> asked, left |-> left,
               item |-> IF editing THEN form.item ELSE NoItem]
    /\ UNCHANGED <<dialog, show, editing, form, stored, asked, left>>

-----------------------------------------------------------------------------
(* The server. *)

\* The content of the submission, its name included, is stored already.
Taken == \E y \in Items : stored[y] = job.text

Creatable ==
    \/ dialog.creates = "adds"
    \/ dialog.creates \in {"refuses", "ignores"} /\ ~Taken

\* A plausible bug: a creation is answered in a way the page does not know.
MutatedSave(x) ==
    /\ job.stage = "sent"
    /\ IF job.item = NoItem THEN stored[x] = NoItem /\ Creatable
                             ELSE x = job.item /\ stored[x] # NoItem
    /\ stored' = [stored EXCEPT ![x] = job.text]
    /\ job' = [job EXCEPT !.stage = IF job.item = NoItem THEN "created" ELSE "done"]
    /\ UNCHANGED <<dialog, show, editing, form, busy, asked, left>>

\* It changes the item that is named, or else creates one.
Save(x) ==
    /\ job.stage = "sent"
    /\ IF job.item = NoItem THEN stored[x] = NoItem /\ Creatable
                             ELSE x = job.item /\ stored[x] # NoItem
    /\ stored' = [stored EXCEPT ![x] = job.text]
    /\ job' = [job EXCEPT !.stage = "done"]
    /\ UNCHANGED <<dialog, show, editing, form, busy, asked, left>>

\* A camera that runs is left as it is, and one that stopped is started again
\* with what was submitted, which is what is stored; the answer is a success.
Keep ==
    /\ job.stage = "sent"
    /\ job.item = NoItem
    /\ dialog.creates = "ignores"
    /\ Taken
    /\ job' = [job EXCEPT !.stage = "done"]
    /\ UNCHANGED <<dialog, show, editing, form, busy, stored, asked, left>>

-----------------------------------------------------------------------------
(* The answers, which do not ask whether the dialog is still the same one. *)

\* A plausible bug: the form is left to the next opening.
MutatedSucceed ==
    /\ job.stage = "done"
    /\ show' = FALSE
    /\ IF dialog.holds
       THEN job' = [job EXCEPT !.stage = "reload"] /\ UNCHANGED busy
       ELSE job' = NoJob /\ busy' = FALSE
    /\ UNCHANGED <<dialog, editing, form, left, stored, asked>>

Succeed ==
    /\ job.stage = "done"
    /\ show' = FALSE
    /\ IF dialog.clears
       THEN form' = Blank /\ editing' = FALSE /\ left' = NoItem
       ELSE UNCHANGED <<form, editing, left>>
    /\ IF dialog.holds
       THEN job' = [job EXCEPT !.stage = "reload"] /\ UNCHANGED busy
       ELSE job' = NoJob /\ busy' = FALSE
    /\ UNCHANGED <<dialog, stored, asked>>

\* An error of the server, or the call or its answer is lost.
FailSubmit ==
    /\ job.stage \in {"sent", "done"}
    /\ busy' = FALSE
    /\ job' = NoJob
    /\ UNCHANGED <<dialog, show, editing, form, stored, asked, left>>

\* The list was fetched, or could not be.
EndReload ==
    /\ job.stage = "reload"
    /\ busy' = FALSE
    /\ job' = NoJob
    /\ UNCHANGED <<dialog, show, editing, form, stored, asked, left>>

DialogsNext ==
    \/ OpenNew
    \/ \E x \in Items, text \in Texts \cup {Empty} : OpenEdit(x, text)
    \/ \E x \in Items : Save(x)
    \/ Keep
    \/ \E text \in Texts \cup {Empty} : Type(text)
    \/ Cancel
    \/ Submit
    \/ Succeed
    \/ FailSubmit
    \/ EndReload

DialogsSpec == DialogsInit /\ [][DialogsNext]_dialogVars

-----------------------------------------------------------------------------
(* Properties. *)

\* An open dialog is for the item whose edit button was pressed, and what is
\* submitted from it names that item, whatever answers came late.  A dialog
\* opened for something new, and its submission, belongs to no item, or to the
\* one whose edit was cancelled last: that form stays, and submitting it
\* changes that item and no other.
OpensWhatWasAsked ==
    /\ show => form.item \in IF asked = "new" THEN {NoItem, left} ELSE {asked}
    /\ job.stage \in {"sent", "done"}
          => job.item \in IF job.asked = "new" THEN {NoItem, job.left}
                                               ELSE {job.asked}
=============================================================================
