----------------------------- MODULE MomentAdmin -----------------------------
(***************************************************************************)
(* Moments, as the admin site writes them: a form uploads a photo in two   *)
(* sizes and saves a row that refers to it, buttons of the list publish,   *)
(* withdraw and delete.  The API updates a row with all its columns, most  *)
(* of them from an earlier read.                                           *)
(*                                                                         *)
(* One action is one call (presign, a PUT to S3, a statement) with the     *)
(* code that runs on its answer, or one event of the page.  Text, fastener *)
(* and colour travel like the status and are left out.  A photo is named   *)
(* by its file, a time of capture by the file it was read from.            *)
(***************************************************************************)
EXTENDS Naturals, Sequences, FiniteSets

CONSTANTS
  Files,         \* the photos the user may choose
  Forms,         \* forms that are open, or left while they submit
  Requests,      \* submissions, previews and buttons under way
  MaxMoments,    \* bound: rows ever inserted
  MaxKeys,       \* bound: image keys ever issued
  MaxPresses,    \* bound: submissions, previews and buttons
  MaxFailures,   \* bound: calls that fail
  Null

VARIABLES
  rows,          \* table moments; Null for a deleted one
  photo,         \* the file that was compressed for each image key
  objects,       \* the bucket: pairs of key and size
  stamps,        \* publications stamped so far, standing for new Date()
  cached,        \* detail queries of the tab: the row as last fetched
  form,          \* state and refs of each MomentForm
  screen,        \* the form that is mounted; Null on the list
  at, job,       \* each request: its next call and what it holds
  presses, failures,
  crossed        \* history: rows updated over a change the writer had not seen

table == <<rows, stamps, crossed>>
bucket == <<photo, objects>>
page == <<cached, form, screen>>
vars == <<table, bucket, page, at, job, presses, failures>>

Statuses == {"draft", "published"}
Sizes == {"orig", "thumb"}
Moments == 1..MaxMoments

Row == [image : Nat, captured : Files, status : Statuses, date : Nat]

FormState ==
  [moment : Moments \union {Null}, status : Statuses,
   file : Files \union {Null},
   uploaded : [file : Files, key : Nat] \union {Null},
   made : Nat, unsure : Nat]

Calls == {"idle", "presign", "put", "insert", "find", "update", "delete",
          "reread", "deleted"}
Kinds == {"preview", "save", "publish", "withdraw", "delete"}

Job ==
  [kind : Kinds, form : Forms \union {Null}, moment : Moments \union {Null},
   file : Files \union {Null}, status : Statuses \union {Null},
   image : Nat \union {Null}, read : Row \union {Null}, date : Nat]

ASSUME MomentConstants ==
  /\ MaxMoments \in Nat
  /\ Null \notin Files \union Forms \union Requests \union Nat
  /\ Null \notin Row /\ Null \notin FormState /\ Null \notin Job
  /\ Null \notin [file : Files, key : Nat]

Stored(key) == \A size \in Sizes : <<key, size>> \in objects

Init ==
  /\ \/ rows = <<>> /\ photo = <<>> /\ objects = {}
     \/ \E file \in Files :
          /\ rows = <<[image |-> 1, captured |-> file, status |-> "draft",
                       date |-> 0]>>
          /\ photo = <<file>>
          /\ objects = {1} \X Sizes
  /\ stamps = 0 /\ crossed = {}
  /\ cached = [m \in Moments |-> Null]
  /\ form = [f \in Forms |-> Null] /\ screen = Null
  /\ at = [r \in Requests |-> "idle"] /\ job = [r \in Requests |-> Null]
  /\ presses = 0 /\ failures = 0

-----------------------------------------------------------------------------
(* The form.                                                               *)

Of(f) == {r \in Requests : at[r] # "idle" /\ job[r].form = f}

NewForm(m, status) ==
  [moment |-> m, status |-> status, file |-> Null, uploaded |-> Null,
   made |-> 0, unsure |-> 0]

OpenNew(f) ==
  /\ screen = Null /\ form[f] = Null
  /\ form' = [form EXCEPT ![f] = NewForm(Null, "published")]
  /\ screen' = f
  /\ UNCHANGED <<table, bucket, cached, at, job, presses, failures>>

\* MomentEditPage: shown at once with what is cached, while it is fetched
\* again; otherwise when it has been fetched.
OpenEdit(f, m) ==
  /\ screen = Null /\ form[f] = Null
  /\ m \in DOMAIN rows
  /\ \E row \in {cached[m], rows[m]} \ {Null} :
       /\ form' = [form EXCEPT ![f] = NewForm(m, row.status)]
       /\ cached' = [cached EXCEPT ![m] = row]
  /\ screen' = f
  /\ UNCHANGED <<table, bucket, at, job, presses, failures>>

\* A form lasts while it is mounted or a request other than r holds it.
Lasting(r, mounted, state) ==
  [f \in Forms |-> IF f = mounted \/ Of(f) \ {r} # {} THEN state[f] ELSE Null]

Leave ==
  /\ screen # Null
  /\ screen' = Null
  /\ form' = Lasting(Null, Null, form)
  /\ UNCHANGED <<table, bucket, cached, at, job, presses, failures>>

\* The background fetch of the detail query: an error, of a deleted moment
\* too, takes the place of the form.
Refetch ==
  /\ screen # Null
  /\ LET m == form[screen].moment
     IN /\ m # Null
        /\ \/ /\ rows[m] # Null
              /\ cached' = [cached EXCEPT ![m] = rows[m]]
              /\ UNCHANGED <<form, screen, presses, failures>>
           \/ /\ rows[m] = Null \/ failures < MaxFailures
              /\ failures' = IF rows[m] = Null THEN failures ELSE failures + 1
              /\ cached' = [cached EXCEPT ![m] = Null]
              /\ screen' = Null
              /\ form' = Lasting(Null, Null, form)
  /\ UNCHANGED <<table, bucket, at, job, presses>>

\* selectFile; the choice is open while a request of the form is under way.
SelectFile(f, file) ==
  /\ screen = f /\ file # form[f].file
  /\ form' = [form EXCEPT ![f].file = file]
  /\ UNCHANGED <<table, bucket, cached, screen, at, job, presses, failures>>

SetStatus(f) ==
  /\ screen = f
  /\ form' = [form EXCEPT ![f].status =
       CHOOSE status \in Statuses : status # form[f].status]
  /\ UNCHANGED <<table, bucket, cached, screen, at, job, presses, failures>>

-----------------------------------------------------------------------------
(* Preview and submission.  The two buttons are disabled while a request   *)
(* of their form is under way, from the upload on; other fields are not.   *)

\* Slip: they are disabled while the row is saved only.
DisabledWhileSaving(f) ==
  \E r \in Of(f) : at[r] \notin {"presign", "put"}
Disabled(f) == Of(f) # {}

Goto(r, call) == at' = [at EXCEPT ![r] = call]
Hold(r, j) == job' = [job EXCEPT ![r] = j]

Finish(r) == Goto(r, "idle") /\ Hold(r, Null)

\* The image is there: what is previewed or saved with it is the file, the
\* status and, of a moment without a new file, no date.
Resolve(r, j, refs) ==
  LET state == [form EXCEPT ![j.form] = refs]
  IN \/ /\ j.kind = "preview"
        /\ Finish(r)
        /\ form' = Lasting(r, screen, state)
     \/ /\ j.kind = "save"
        /\ Goto(r, IF j.moment = Null THEN "insert" ELSE "find") /\ Hold(r, j)
        /\ form' = state

\* Slip: the photo uploaded last is taken for the file.
UploadedLast(ref, file) == ref # Null
Uploaded(ref, file) == ref # Null /\ ref.file = file

\* handleSubmit and handlePreview, up to the first call of resolveImageKey.
Press(r, f, kind) ==
  /\ presses < MaxPresses /\ presses' = presses + 1
  /\ at[r] = "idle" /\ screen = f
  /\ ~Disabled(f)
  /\ LET m == form[f].moment
         file == form[f].file
         j == [kind |-> kind, form |-> f, moment |-> m, file |-> file,
               status |-> form[f].status, image |-> Null,
               read |-> Null, date |-> 0]
     IN \/ /\ file # Null /\ Uploaded(form[f].uploaded, file)
           /\ Resolve(r, [j EXCEPT !.image = form[f].uploaded.key], form[f])
        \/ /\ file # Null /\ ~Uploaded(form[f].uploaded, file)
           /\ Goto(r, "presign") /\ Hold(r, j)
           /\ UNCHANGED form
        \/ /\ file = Null /\ m # Null
           /\ Resolve(r, [j EXCEPT !.image = cached[m].image], form[f])
  /\ UNCHANGED <<table, bucket, cached, screen, failures>>

Presign(r) ==
  /\ at[r] = "presign"
  /\ Len(photo) < MaxKeys
  /\ photo' = Append(photo, job[r].file)
  /\ Goto(r, "put") /\ Hold(r, [job[r] EXCEPT !.image = Len(photo) + 1])
  /\ UNCHANGED <<table, objects, page, presses, failures>>

\* Slip: the upload is taken for done with its first object.
OneStored(key, size) == TRUE
AllStored(key, size) == \A other \in Sizes \ {size} : <<key, other>> \in objects

PutObject(r, size) ==
  LET f == job[r].form
      key == job[r].image
  IN /\ at[r] = "put" /\ <<key, size>> \notin objects
     /\ objects' = objects \union {<<key, size>>}
     /\ \/ /\ AllStored(key, size)
           /\ Resolve(r, job[r],
                [form[f] EXCEPT !.uploaded = [file |-> job[r].file, key |-> key]])
        \/ /\ ~AllStored(key, size)
           /\ UNCHANGED <<form, at, job>>
     /\ UNCHANGED <<table, photo, cached, screen, presses, failures>>

-----------------------------------------------------------------------------
(* The list.  A button is disabled while the last request of its kind is   *)
(* for its row and the page stays, so that after another button or another *)
(* page requests for one row overlap; the list may be older than the row.  *)

PressInList(r, m, kind, status) ==
  /\ presses < MaxPresses /\ presses' = presses + 1
  /\ at[r] = "idle" /\ screen = Null
  /\ m \in DOMAIN rows
  /\ Goto(r, IF kind = "delete" THEN "delete" ELSE "find")
  /\ Hold(r, [kind |-> kind, form |-> Null, moment |-> m, file |-> Null,
              status |-> status, image |-> Null,
              read |-> Null, date |-> 0])
  /\ UNCHANGED <<table, bucket, page, failures>>

-----------------------------------------------------------------------------
(* The API.                                                                *)

\* Slip: a moment that is published again gets a new date.
EachPublication(status, date) == status = "published"
FirstPublication(status, date) == status = "published" /\ date = 0

DateOf(status, date) == IF FirstPublication(status, date) THEN stamps + 1 ELSE date
Stamp(status, date) ==
  stamps' = IF FirstPublication(status, date) THEN stamps + 1 ELSE stamps

Insert(r) ==
  LET j == job[r]
  IN /\ at[r] = "insert"
     /\ Len(rows) < MaxMoments
     /\ Stamp(j.status, 0)
     /\ rows' = Append(rows, [image |-> j.image, captured |-> j.file,
                              status |-> j.status, date |-> DateOf(j.status, 0)])
     /\ form' = [form EXCEPT ![j.form].made = @ + 1]
     /\ Goto(r, "reread") /\ Hold(r, [j EXCEPT !.moment = Len(rows) + 1])
     /\ UNCHANGED <<crossed, bucket, cached, screen, presses, failures>>

\* An error is answered, or nothing is: the form may be submitted again.
Refuse(r) ==
  LET f == job[r].form
      unsure == at[r] = "reread" /\ form[f].moment = Null
  IN /\ Finish(r)
     /\ form' = Lasting(r, screen,
          IF f # Null /\ unsure THEN [form EXCEPT ![f].unsure = @ + 1] ELSE form)
     /\ UNCHANGED <<cached, screen>>

FindMoment(r) ==
  LET j == job[r]
      row == rows[job[r].moment]
  IN /\ at[r] = "find"
     /\ \/ row = Null /\ Refuse(r) /\ UNCHANGED stamps
        \/ /\ row # Null
           /\ Stamp(j.status, row.date)
           /\ Goto(r, "update")
           /\ Hold(r, [j EXCEPT !.read = row, !.date = DateOf(j.status, row.date)])
           /\ UNCHANGED page
     /\ UNCHANGED <<rows, crossed, bucket, presses, failures>>

\* Every column from the request or from the read; only the time of capture
\* stays in the table when it is not sent.
Merged(j, row) ==
  [image |-> IF j.image = Null THEN j.read.image ELSE j.image,
   captured |-> IF j.file = Null THEN row.captured ELSE j.file,
   status |-> j.status,
   date |-> j.date]

\* The row is not what the handler read, or its photo is not the one that the
\* page sends as the photo it had.
Overtaken(j, row) ==
  \/ row # j.read
  \/ j.file = Null /\ j.image \notin {Null, row.image}

UpdateMoment(r) ==
  LET m == job[r].moment
  IN /\ at[r] = "update"
     /\ \/ rows[m] = Null /\ UNCHANGED <<rows, crossed>>
        \/ /\ rows[m] # Null
           /\ rows' = [rows EXCEPT ![m] = Merged(job[r], @)]
           /\ crossed' = IF Overtaken(job[r], rows[m]) THEN crossed \union {m} ELSE crossed
     /\ Goto(r, "reread")
     /\ UNCHANGED <<stamps, bucket, page, job, presses, failures>>

DeleteMoment(r) ==
  LET m == job[r].moment
  IN /\ at[r] = "delete"
     /\ \/ rows[m] = Null /\ Refuse(r) /\ UNCHANGED rows
        \/ /\ rows[m] # Null
           /\ rows' = [rows EXCEPT ![m] = Null]
           /\ Goto(r, "deleted")
           /\ UNCHANGED <<job, page>>
     /\ UNCHANGED <<stamps, crossed, bucket, presses, failures>>

\* onSuccess: invalidateQueries fetches the moment on the screen again, and a
\* form then navigates to the list, wherever the user is by now.
Succeed(r, fetched) ==
  LET f == job[r].form
      shown == IF screen = Null THEN Null ELSE form[screen].moment
      row == IF fetched THEN rows[shown] ELSE Null
      stays == f = Null /\ (shown = Null \/ row # Null)
  IN /\ Finish(r)
     /\ cached' = IF shown = Null THEN cached ELSE [cached EXCEPT ![shown] = row]
     /\ screen' = IF stays THEN screen ELSE Null
     /\ form' = Lasting(r, screen', form)

Answer(r) ==
  /\ \/ at[r] = "reread" /\ rows[job[r].moment] # Null
     \/ at[r] = "deleted"
  /\ \/ Succeed(r, TRUE) /\ UNCHANGED failures
     \/ /\ screen # Null /\ failures < MaxFailures
        /\ failures' = failures + 1
        /\ Succeed(r, FALSE)
  /\ UNCHANGED <<table, bucket, presses>>

AnswerGone(r) ==
  /\ at[r] = "reread" /\ rows[job[r].moment] = Null
  /\ Refuse(r)
  /\ UNCHANGED <<table, bucket, presses, failures>>

\* A call that fails, or whose answer is lost.  The other PUT of an upload is
\* not called off, and the one that failed may have been stored.
CallFails(r) ==
  /\ at[r] # "idle" /\ failures < MaxFailures
  /\ failures' = failures + 1
  /\ Refuse(r)
  /\ \/ UNCHANGED objects
     \/ at[r] = "put" /\ \E sizes \in SUBSET Sizes :
          objects' = objects \union ({job[r].image} \X sizes)
  /\ UNCHANGED <<table, photo, presses>>

-----------------------------------------------------------------------------
Editing ==
  \/ \E f \in Forms :
       \/ OpenNew(f) \/ SetStatus(f)
       \/ \E m \in Moments : OpenEdit(f, m)
       \/ \E file \in Files \union {Null} : SelectFile(f, file)
  \/ Leave
  \/ Refetch

Pressing ==
  \E r \in Requests :
    \/ \E f \in Forms : Press(r, f, "preview") \/ Press(r, f, "save")
    \/ \E m \in Moments :
         \/ PressInList(r, m, "publish", "published")
         \/ PressInList(r, m, "withdraw", "draft")
         \/ PressInList(r, m, "delete", Null)

Calling ==
  \E r \in Requests :
    \/ Presign(r)
    \/ \E size \in Sizes : PutObject(r, size)
    \/ Insert(r) \/ FindMoment(r) \/ UpdateMoment(r) \/ DeleteMoment(r)
    \/ Answer(r) \/ AnswerGone(r) \/ CallFails(r)

Next == Editing \/ Pressing \/ Calling

Spec == Init /\ [][Next]_vars

-----------------------------------------------------------------------------
TypeOK ==
  /\ rows \in Seq(Row \union {Null})
  /\ photo \in Seq(Files)
  /\ stamps \in Nat
  /\ cached \in [Moments -> Row \union {Null}]
  /\ form \in [Forms -> FormState \union {Null}]
  /\ screen \in Forms \union {Null}
  /\ at \in [Requests -> Calls]
  /\ job \in [Requests -> Job \union {Null}]

\* The photo of a row and its date come from the same file, whatever was
\* previewed, chosen again or sent twice before - unless an update crossed
\* another one of the row.
PhotoOfDate ==
  \A m \in DOMAIN rows :
    rows[m] # Null /\ m \notin crossed => photo[rows[m].image] = rows[m].captured

\* A row never refers to an image of which one size is missing.
ImageStored == \A m \in DOMAIN rows : rows[m] # Null => Stored(rows[m].image)

\* A form makes one moment, and another one only after it was not told of the
\* one before.
OneMomentPerForm ==
  \A f \in Forms : form[f] # Null => form[f].made <= 1 + form[f].unsure

\* The date of the first publication stays, through withdrawals, edits and
\* publications, unless an update crossed another one of the row.
PublicationKept ==
  [][\A m \in DOMAIN rows :
       rows[m] # Null /\ rows'[m] # Null /\ m \notin crossed'
         => rows[m].date \in {0, rows'[m].date}]_vars
=============================================================================
