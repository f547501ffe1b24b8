-------------------------- MODULE MomentAdminProofs --------------------------
(***************************************************************************)
(* Proofs about MomentAdmin for any photos, forms, requests and bounds.    *)
(*                                                                         *)
(* Image keys are issued once, an object is never overwritten or deleted   *)
(* and a row number is not used again, so that what a request has learnt   *)
(* of them stays true while other requests go on (Grows).  Of the form a   *)
(* request only needs that it is there and edits the moment it was for.    *)
(***************************************************************************)
EXTENDS MomentAdmin, SequenceTheorems, TLAPS

-----------------------------------------------------------------------------
(* The inductive invariant *)

\* An image that is there in both sizes.
Kept(key) == key \in DOMAIN photo /\ Stored(key)

\* An image that is there, and of that file.
ImageOf(key, file) == Kept(key) /\ photo[key] = file

RowsKept ==
  /\ \A m \in DOMAIN rows : rows[m] # Null => Kept(rows[m].image)
  /\ \A m \in Moments : cached[m] # Null => Kept(cached[m].image)

\* The moment of a form exists, and its upload is what it says.
FormKept(f) ==
  form[f] # Null =>
    /\ form[f].moment # Null => form[f].moment \in DOMAIN rows
    /\ form[f].uploaded # Null =>
         ImageOf(form[f].uploaded.key, form[f].uploaded.file)

\* The form that is mounted shows a moment that is in the cache.
ScreenShown ==
  screen # Null =>
    /\ form[screen] # Null
    /\ form[screen].moment # Null => cached[form[screen].moment] # Null

Uploads == {"presign", "put"}
Saves == {"insert", "find", "update"}

\* What a request holds at each of its calls.
JobKept(r) ==
  /\ at[r] # "idle" =>
       /\ job[r] \in Job
       /\ job[r].moment # Null => job[r].moment \in DOMAIN rows
  /\ at[r] \in Uploads \union {"insert"} =>
       job[r].form # Null /\ job[r].file # Null
  /\ at[r] \in Uploads => job[r].kind \in {"preview", "save"}
  /\ at[r] = "insert" => job[r].moment = Null /\ job[r].image # Null
  /\ at[r] \in Uploads \union Saves => job[r].status \in Statuses
  /\ at[r] = "put" =>
       job[r].image \in DOMAIN photo /\ photo[job[r].image] = job[r].file
  /\ at[r] \in Saves =>
       /\ job[r].image # Null => Kept(job[r].image)
       /\ job[r].file # Null =>
            job[r].image # Null /\ photo[job[r].image] = job[r].file
  /\ at[r] \in {"find", "update", "delete", "reread"} => job[r].moment # Null
  /\ at[r] \in {"delete", "deleted"} => job[r].form = Null
  /\ at[r] = "update" =>
       /\ job[r].read # Null
       /\ Kept(job[r].read.image)
       /\ job[r].read.date \in {0, job[r].date}

\* The form of a request outlives it, and until there is a new moment the
\* request is about the moment of the form.
FormHeld(r) ==
  at[r] # "idle" /\ job[r].form # Null =>
    /\ form[job[r].form] # Null
    /\ at[r] \in Uploads \union {"insert"} =>
         job[r].moment = form[job[r].form].moment

OneRequestPerForm ==
  \A q, r \in Requests :
    /\ at[q] # "idle" /\ at[r] # "idle"
    /\ job[q].form = job[r].form /\ job[r].form # Null
    => q = r

\* Between the insert and its answer a form may have made one moment more than
\* it knows of.
Unanswered(f) == \E r \in Requests : at[r] = "reread" /\ job[r].form = f

MadeCounted(f) ==
  form[f] # Null =>
    /\ form[f].made <= 1 + form[f].unsure
    /\ ~Unanswered(f) => form[f].made <= form[f].unsure
    /\ form[f].moment # Null => form[f].made = 0

ImageInv ==
  /\ RowsKept /\ ScreenShown
  /\ \A f \in Forms : FormKept(f)
  /\ \A r \in Requests : JobKept(r)

FormInv ==
  /\ \A r \in Requests : FormHeld(r)
  /\ OneRequestPerForm
  /\ \A f \in Forms : MadeCounted(f)

Inv == TypeOK /\ ImageInv /\ FormInv /\ PhotoOfDate

-----------------------------------------------------------------------------
(* Images, forms and requests that a step leaves alone.                    *)

\* Keys, objects and row numbers are only ever added.
Grows ==
  /\ DOMAIN rows \subseteq DOMAIN rows'
  /\ objects \subseteq objects'
  /\ DOMAIN photo \subseteq DOMAIN photo'
  /\ \A key \in DOMAIN photo : photo'[key] = photo[key]

\* The cache only forgets, or repeats a row.
CacheFollows ==
  \A m \in Moments : \/ cached'[m] \in {Null, cached[m]}
                     \/ (m \in DOMAIN rows /\ cached'[m] = rows[m])

LEMMA KeptStays ==
  ASSUME Grows
  PROVE  \A key : Kept(key) => Kept(key)' /\ photo'[key] = photo[key]
BY DEF Grows, Kept, Stored

LEMMA JobStays ==
  ASSUME Grows, NEW q \in Requests, JobKept(q),
         at'[q] = at[q], job'[q] = job[q]
  PROVE  JobKept(q)'
<1>1. \A key : Kept(key) => Kept(key)' /\ photo'[key] = photo[key]
  BY KeptStays
<1>2. \A key \in DOMAIN photo : key \in DOMAIN photo' /\ photo'[key] = photo[key]
  BY DEF Grows
<1>3. \A m : m \in DOMAIN rows => m \in DOMAIN rows'
  BY DEF Grows
<1> QED
  BY <1>1, <1>2, <1>3 DEF JobKept, Kept, Stored

LEMMA FormStays ==
  ASSUME Grows, NEW f \in Forms, FormKept(f), form'[f] \in {Null, form[f]}
  PROVE  FormKept(f)'
<1>1. \A key : Kept(key) => Kept(key)' /\ photo'[key] = photo[key]
  BY KeptStays
<1> QED
  BY <1>1 DEF Grows, FormKept, ImageOf, Kept, Stored

LEMMA HoldStays ==
  ASSUME NEW q \in Requests, FormHeld(q),
         at'[q] = at[q], job'[q] = job[q],
         at[q] # "idle" /\ job[q].form # Null =>
           /\ form'[job[q].form] # Null
           /\ form'[job[q].form].moment = form[job[q].form].moment
  PROVE  FormHeld(q)'
BY DEF FormHeld

LEMMA OneRequestStays ==
  ASSUME OneRequestPerForm,
         \A q \in Requests : at'[q] # "idle" =>
           at[q] # "idle" /\ job'[q].form = job[q].form
  PROVE  OneRequestPerForm'
BY DEF OneRequestPerForm

LEMMA RowsStay ==
  ASSUME Grows, RowsKept, rows' = rows, CacheFollows
  PROVE  RowsKept'
<1>1. \A key : Kept(key) => Kept(key)'
  BY KeptStays
<1>2. (\A m \in DOMAIN rows : rows[m] # Null => Kept(rows[m].image))'
  BY <1>1 DEF RowsKept, Kept, Stored
<1>3. (\A m \in Moments : cached[m] # Null => Kept(cached[m].image))'
  BY <1>1 DEF RowsKept, CacheFollows, Kept, Stored
<1> QED
  BY <1>2, <1>3 DEF RowsKept

LEMMA LastingForms ==
  ASSUME NEW r, NEW mounted,
         NEW state \in [Forms -> FormState \union {Null}]
  PROVE  /\ Lasting(r, mounted, state) \in [Forms -> FormState \union {Null}]
         /\ \A f \in Forms : Lasting(r, mounted, state)[f] \in {Null, state[f]}
         /\ \A q \in Requests \ {r} : at[q] # "idle" /\ job[q].form \in Forms
              => Lasting(r, mounted, state)[job[q].form] = state[job[q].form]
         /\ mounted \in Forms
              => Lasting(r, mounted, state)[mounted] = state[mounted]
BY DEF Lasting, Of

-----------------------------------------------------------------------------
(* The page: only the form, the screen and the cache change.               *)

LEMMA PageStep ==
  ASSUME Inv, UNCHANGED <<table, bucket, at, job>>
  PROVE  /\ Grows
         /\ \A r \in Requests : JobKept(r)'
         /\ OneRequestPerForm'
         /\ PhotoOfDate'
         /\ \A f \in Forms : Unanswered(f)' = Unanswered(f)
<1>1. Grows
  BY DEF Grows, table, bucket
<1>2. \A r \in Requests : JobKept(r)'
  BY <1>1, JobStays DEF Inv, ImageInv
<1>3. OneRequestPerForm'
  BY OneRequestStays DEF Inv, FormInv
<1>4. PhotoOfDate'
  BY DEF Inv, PhotoOfDate, table, bucket
<1> QED
  BY <1>1, <1>2, <1>3, <1>4 DEF Unanswered

\* A form that a request holds is there.
LEMMA HeldForm ==
  ASSUME Inv, NEW r \in Requests, at[r] # "idle", job[r].form # Null
  PROVE  job[r].form \in Forms /\ form[job[r].form] \in FormState
<1>1. job[r] \in Job
  BY DEF Inv, ImageInv, JobKept
<1> QED
  BY <1>1 DEF Inv, FormInv, FormHeld, TypeOK, Job

LEMMA OpenStep ==
  ASSUME Inv, NEW f \in Forms, NEW m \in Moments \union {Null}, NEW status \in Statuses,
         form[f] = Null, screen = Null, m # Null => m \in DOMAIN rows,
         form' = [form EXCEPT ![f] = NewForm(m, status)],
         screen' = f,
         cached' \in [Moments -> Row \union {Null}],
         CacheFollows,
         m # Null => cached'[m] # Null,
         UNCHANGED <<table, bucket, at, job>>
  PROVE  Inv'
<1>1. NewForm(m, status) \in FormState
  BY DEF NewForm, FormState
<1>2. /\ NewForm(m, status) # Null
      /\ NewForm(m, status).moment = m /\ NewForm(m, status).uploaded = Null
      /\ NewForm(m, status).made = 0 /\ NewForm(m, status).unsure = 0
  BY <1>1, MomentConstants DEF NewForm
<1>3. form' \in [Forms -> FormState \union {Null}]
  BY <1>1 DEF Inv, TypeOK
<1>4. /\ form'[f] = NewForm(m, status)
      /\ \A g \in Forms \ {f} : form'[g] = form[g]
  BY DEF Inv, TypeOK
<1> HIDE DEF NewForm
<1>5. TypeOK'
  BY <1>3 DEF Inv, TypeOK, table, bucket
<1>6. \A r \in Requests : at[r] # "idle" /\ job[r].form # Null => job[r].form \in Forms \ {f}
  BY HeldForm, MomentConstants
<1>7. \A r \in Requests : FormHeld(r)'
  BY <1>4, <1>6, HoldStays, HeldForm DEF Inv, FormInv, FormHeld
<1>8. \A g \in Forms : FormKept(g)'
  <2>1. FormKept(f)'
    BY <1>2, <1>4 DEF FormKept, table
  <2>2. \A g \in Forms \ {f} : FormKept(g)'
    BY <1>4, FormStays, PageStep DEF Inv, ImageInv
  <2> QED
    BY <2>1, <2>2
<1>9. \A g \in Forms : MadeCounted(g)'
  BY <1>2, <1>4, PageStep DEF Inv, FormInv, MadeCounted
<1>10. ScreenShown'
  BY <1>2, <1>4 DEF ScreenShown
<1>11. RowsKept'
  BY PageStep, RowsStay DEF Inv, ImageInv, table
<1> QED
  BY <1>5, <1>7, <1>8, <1>9, <1>10, <1>11, PageStep DEF Inv, ImageInv, FormInv

LEMMA OpenNewKeepsInv ==
  ASSUME Inv, NEW f \in Forms, OpenNew(f)
  PROVE  Inv'
<1>1. cached' = cached
  BY DEF OpenNew
<1>2. cached \in [Moments -> Row \union {Null}]
  BY DEF Inv, TypeOK
<1>3. CacheFollows
  BY <1>1 DEF CacheFollows
<1>4. Null \in Moments \union {Null} /\ "published" \in Statuses
  BY DEF Statuses
<1> QED
  BY <1>1, <1>2, <1>3, <1>4, OpenStep DEF OpenNew

LEMMA OpenEditKeepsInv ==
  ASSUME Inv, NEW f \in Forms, NEW m \in Moments, OpenEdit(f, m)
  PROVE  Inv'
<1>1. PICK row \in {cached[m], rows[m]} \ {Null} :
        /\ form' = [form EXCEPT ![f] = NewForm(m, row.status)]
        /\ cached' = [cached EXCEPT ![m] = row]
  BY DEF OpenEdit
<1>2. /\ cached \in [Moments -> Row \union {Null}]
      /\ rows \in Seq(Row \union {Null})
      /\ m \in DOMAIN rows
  BY DEF Inv, TypeOK, OpenEdit
<1>3. row \in Row /\ row # Null
  BY <1>2
<1>4. cached' \in [Moments -> Row \union {Null}]
  BY <1>1, <1>2, <1>3
<1>5. CacheFollows
  BY <1>1, <1>2 DEF CacheFollows
<1>6. cached'[m] # Null
  BY <1>1, <1>2, <1>3, Zenon
<1>7. row.status \in Statuses
  BY <1>3 DEF Row
<1> QED
  BY <1>1, <1>2, <1>4, <1>5, <1>6, <1>7, OpenStep DEF OpenEdit

\* Whoever leaves the page takes along the forms that no request holds.
LEMMA LeaveStep ==
  ASSUME Inv,
         form' = Lasting(Null, Null, form),
         screen' = Null,
         cached' \in [Moments -> Row \union {Null}],
         CacheFollows,
         UNCHANGED <<table, bucket, at, job>>
  PROVE  Inv'
<1>1. /\ form \in [Forms -> FormState \union {Null}]
      /\ Null \notin Requests
  BY MomentConstants DEF Inv, TypeOK
<1>2. /\ form' \in [Forms -> FormState \union {Null}]
      /\ \A g \in Forms : form'[g] \in {Null, form[g]}
      /\ \A q \in Requests : at[q] # "idle" /\ job[q].form \in Forms
           => form'[job[q].form] = form[job[q].form]
  BY <1>1, LastingForms
<1>3. TypeOK'
  BY <1>2 DEF Inv, TypeOK, table, bucket
<1>4. \A r \in Requests : FormHeld(r)'
  BY <1>2, HoldStays, HeldForm DEF Inv, FormInv, FormHeld
<1>5. \A g \in Forms : FormKept(g)'
  BY <1>2, FormStays, PageStep DEF Inv, ImageInv
<1>6. \A g \in Forms : MadeCounted(g)'
  BY <1>2, PageStep DEF Inv, FormInv, MadeCounted
<1>7. ScreenShown'
  BY DEF ScreenShown
<1>8. RowsKept'
  BY PageStep, RowsStay DEF Inv, ImageInv, table
<1> QED
  BY <1>3, <1>4, <1>5, <1>6, <1>7, <1>8, PageStep DEF Inv, ImageInv, FormInv

LEMMA LeaveKeepsInv ==
  ASSUME Inv, Leave
  PROVE  Inv'
<1>1. cached' = cached /\ cached \in [Moments -> Row \union {Null}]
  BY DEF Leave, Inv, TypeOK
<1>2. CacheFollows
  BY <1>1 DEF CacheFollows
<1> QED
  BY <1>1, <1>2, LeaveStep DEF Leave

LEMMA RefetchKeepsInv ==
  ASSUME Inv, Refetch
  PROVE  Inv'
<1> DEFINE m == form[screen].moment
<1>1. /\ screen \in Forms /\ form[screen] # Null /\ form[screen] \in FormState
      /\ m # Null /\ m \in Moments /\ m \in DOMAIN rows
  BY DEF Refetch, Inv, TypeOK, ImageInv, ScreenShown, FormKept, FormState
<1>2. /\ cached \in [Moments -> Row \union {Null}]
      /\ rows[m] \in Row \union {Null}
  BY <1>1 DEF Inv, TypeOK
<1>3. UNCHANGED <<table, bucket, at, job>>
  BY DEF Refetch
<1>4. CASE /\ rows[m] # Null
           /\ cached' = [cached EXCEPT ![m] = rows[m]]
           /\ UNCHANGED <<form, screen>>
  <2>1. cached' \in [Moments -> Row \union {Null}] /\ CacheFollows
    BY <1>1, <1>2, <1>4 DEF CacheFollows
  <2>2. RowsKept'
    BY <1>3, <2>1, PageStep, RowsStay DEF Inv, ImageInv, table
  <2>3. cached'[m] # Null
    BY <1>1, <1>2, <1>4
  <2>4. ScreenShown'
    BY <1>1, <1>4, <2>3 DEF ScreenShown
  <2>5. TypeOK'
    BY <1>3, <1>4, <2>1 DEF Inv, TypeOK, table, bucket
  <2>6. \A f \in Forms : FormKept(f)'
    BY <1>3, <1>4, FormStays, PageStep DEF Inv, ImageInv
  <2>7. \A r \in Requests : FormHeld(r)'
    BY <1>3, <1>4 DEF Inv, FormInv, FormHeld
  <2>8. \A f \in Forms : MadeCounted(f)'
    BY <1>3, <1>4, PageStep DEF Inv, FormInv, MadeCounted
  <2> QED
    BY <1>3, <2>2, <2>4, <2>5, <2>6, <2>7, <2>8, PageStep
    DEF Inv, ImageInv, FormInv
<1>5. CASE /\ cached' = [cached EXCEPT ![m] = Null]
           /\ screen' = Null
           /\ form' = Lasting(Null, Null, form)
  <2>1. cached' \in [Moments -> Row \union {Null}] /\ CacheFollows
    BY <1>1, <1>2, <1>5 DEF CacheFollows
  <2> QED
    BY <1>3, <1>5, <2>1, LeaveStep
<1> QED
  BY <1>4, <1>5 DEF Refetch

\* A field of the form that is mounted.
LEMMA FieldStep ==
  ASSUME Inv, NEW f \in Forms, NEW state \in FormState, screen = f,
         form' = [form EXCEPT ![f] = state],
         state.moment = form[f].moment, state.uploaded = form[f].uploaded,
         state.made = form[f].made, state.unsure = form[f].unsure,
         UNCHANGED <<table, bucket, cached, screen, at, job>>
  PROVE  Inv'
<1>1. form[f] # Null /\ state # Null /\ form'[f] = state
      /\ \A g \in Forms \ {f} : form'[g] = form[g]
  BY MomentConstants DEF Inv, TypeOK, ImageInv, ScreenShown
<1>2. TypeOK'
  BY DEF Inv, TypeOK, table, bucket
<1>3. RowsKept' /\ ScreenShown'
  BY <1>1 DEF Inv, ImageInv, RowsKept, ScreenShown, Kept, Stored, table, bucket
<1>4. \A g \in Forms : FormKept(g)'
  BY <1>1 DEF Inv, ImageInv, FormKept, ImageOf, Kept, Stored, table, bucket
<1>5. \A r \in Requests : FormHeld(r)'
  BY <1>1 DEF Inv, FormInv, FormHeld
<1>6. \A g \in Forms : MadeCounted(g)'
  BY <1>1, PageStep DEF Inv, FormInv, MadeCounted
<1> QED
  BY <1>2, <1>3, <1>4, <1>5, <1>6, PageStep DEF Inv, ImageInv, FormInv

LEMMA MountedForm ==
  ASSUME Inv, screen # Null
  PROVE  screen \in Forms /\ form[screen] \in FormState
BY DEF Inv, TypeOK, ImageInv, ScreenShown

LEMMA SelectFileKeepsInv ==
  ASSUME Inv, NEW f \in Forms, NEW file \in Files \union {Null}, SelectFile(f, file)
  PROVE  Inv'
<1>1. form[f] \in FormState /\ form \in [Forms -> FormState \union {Null}]
  BY MountedForm, MomentConstants DEF SelectFile, Inv, TypeOK
<1> DEFINE state == [form[f] EXCEPT !.file = file]
<1>2. state \in FormState
  BY <1>1 DEF FormState
<1>3. form' = [form EXCEPT ![f] = state]
  BY <1>1 DEF SelectFile
<1>4. /\ state.moment = form[f].moment /\ state.uploaded = form[f].uploaded
      /\ state.made = form[f].made /\ state.unsure = form[f].unsure
  BY <1>1 DEF FormState
<1> HIDE DEF state
<1> QED
  BY <1>2, <1>3, <1>4, FieldStep DEF SelectFile

LEMMA SetStatusKeepsInv ==
  ASSUME Inv, NEW f \in Forms, SetStatus(f)
  PROVE  Inv'
<1>1. form[f] \in FormState /\ form \in [Forms -> FormState \union {Null}]
  BY MountedForm, MomentConstants DEF SetStatus, Inv, TypeOK
<1> DEFINE other == CHOOSE status \in Statuses : status # form[f].status
           state == [form[f] EXCEPT !.status = other]
<1>2. other \in Statuses
  <2>1. \E status \in Statuses : status # form[f].status
    BY DEF Statuses
  <2> QED
    BY <2>1
<1>3. form' = [form EXCEPT ![f] = state]
  BY <1>1 DEF SetStatus
<1> HIDE DEF other
<1>4. state \in FormState
  BY <1>1, <1>2 DEF FormState
<1>5. /\ state.moment = form[f].moment /\ state.uploaded = form[f].uploaded
      /\ state.made = form[f].made /\ state.unsure = form[f].unsure
  BY <1>1 DEF FormState
<1> HIDE DEF state
<1> QED
  BY <1>3, <1>4, <1>5, FieldStep DEF SetStatus

-----------------------------------------------------------------------------
(* Requests: one of them moves, or ends.                                   *)

KeptNext(key) ==
  key \in DOMAIN photo' /\ \A size \in Sizes : <<key, size>> \in objects'

LEMMA RequestStep ==
  ASSUME Inv, Grows, NEW r \in Requests,
         NEW call \in Calls, NEW j \in Job \union {Null},
         Goto(r, call), Hold(r, j)
  PROVE  /\ at' \in [Requests -> Calls] /\ job' \in [Requests -> Job \union {Null}]
         /\ at'[r] = call /\ job'[r] = j
         /\ \A q \in Requests \ {r} : at'[q] = at[q] /\ job'[q] = job[q]
         /\ \A q \in Requests \ {r} : JobKept(q)'
<1>1. /\ at \in [Requests -> Calls] /\ job \in [Requests -> Job \union {Null}]
      /\ at' = [at EXCEPT ![r] = call] /\ job' = [job EXCEPT ![r] = j]
  BY DEF Inv, TypeOK, Goto, Hold
<1>2. \A q \in Requests \ {r} : at'[q] = at[q] /\ job'[q] = job[q]
  BY <1>1
<1>3. \A q \in Requests \ {r} : JobKept(q)'
  BY <1>2, JobStays DEF Inv, ImageInv
<1> QED
  BY <1>1, <1>2, <1>3

\* A form that changes keeps its moment and its count of moments.
Counted(f, state) ==
  \/ state = form[f]
  \/ /\ form[f] # Null /\ state # Null
     /\ state.moment = form[f].moment
     /\ state.made = form[f].made /\ state.unsure = form[f].unsure

LEMMA CountsStay ==
  ASSUME NEW f \in Forms, MadeCounted(f),
         form'[f] = Null \/ Counted(f, form'[f]),
         Unanswered(f) => Unanswered(f)'
  PROVE  MadeCounted(f)'
BY DEF MadeCounted, Counted

\* The end of a request.
LEMMA EndStep ==
  ASSUME Inv, Grows, NEW r \in Requests, Finish(r),
         NEW state \in [Forms -> FormState \union {Null}], NEW mounted,
         form' = Lasting(r, mounted, state),
         \A f \in Forms : \/ state[f] = form[f]
                          \/ /\ form[f] # Null /\ state[f] # Null
                             /\ state[f].moment = form[f].moment
  PROVE  /\ at' \in [Requests -> Calls] /\ job' \in [Requests -> Job \union {Null}]
         /\ form' \in [Forms -> FormState \union {Null}]
         /\ \A f \in Forms : form'[f] \in {Null, state[f]}
         /\ mounted \in Forms => form'[mounted] = state[mounted]
         /\ \A q \in Requests : JobKept(q)' /\ FormHeld(q)'
         /\ OneRequestPerForm'
         /\ \A f \in Forms :
              Unanswered(f) /\ ~(at[r] = "reread" /\ job[r].form = f)
                => Unanswered(f)'
<1>1. Goto(r, "idle") /\ Hold(r, Null) /\ "idle" \in Calls
  BY DEF Finish, Calls
<1>2. /\ at' \in [Requests -> Calls] /\ job' \in [Requests -> Job \union {Null}]
      /\ at'[r] = "idle"
      /\ \A q \in Requests \ {r} : at'[q] = at[q] /\ job'[q] = job[q]
      /\ \A q \in Requests \ {r} : JobKept(q)'
  BY <1>1, RequestStep
<1>3. /\ form' \in [Forms -> FormState \union {Null}]
      /\ \A f \in Forms : form'[f] \in {Null, state[f]}
      /\ \A q \in Requests \ {r} : at[q] # "idle" /\ job[q].form \in Forms
           => form'[job[q].form] = state[job[q].form]
      /\ mounted \in Forms => form'[mounted] = state[mounted]
  BY LastingForms
<1>4. JobKept(r)' /\ FormHeld(r)'
  BY <1>2 DEF JobKept, FormHeld, Uploads, Saves
<1>5. ASSUME NEW q \in Requests \ {r}
      PROVE  FormHeld(q)'
  <2>1. /\ at'[q] = at[q] /\ job'[q] = job[q]
        /\ FormHeld(q)
    BY <1>2 DEF Inv, FormInv
  <2>2. at[q] # "idle" /\ job[q].form # Null =>
          /\ form'[job[q].form] # Null
          /\ form'[job[q].form].moment = form[job[q].form].moment
    <3>1. SUFFICES ASSUME at[q] # "idle", job[q].form # Null
                   PROVE  /\ form'[job[q].form] # Null
                          /\ form'[job[q].form].moment = form[job[q].form].moment
      OBVIOUS
    <3>2. job[q].form \in Forms /\ form[job[q].form] \in FormState
      BY <3>1, HeldForm
    <3>3. form'[job[q].form] = state[job[q].form] /\ form[job[q].form] # Null
      BY <1>3, <3>1, <3>2, MomentConstants
    <3> QED
      BY <3>2, <3>3
  <2> QED
    BY <2>1, <2>2, HoldStays
<1>6. OneRequestPerForm'
  BY <1>2, OneRequestStays DEF Inv, FormInv
<1>7. \A f \in Forms :
        Unanswered(f) /\ ~(at[r] = "reread" /\ job[r].form = f) => Unanswered(f)'
  BY <1>2 DEF Unanswered
<1> QED
  BY <1>2, <1>3, <1>4, <1>5, <1>6, <1>7

\* The image is there: the end of a preview, or the save goes on.
LEMMA ResolveKeepsInv ==
  ASSUME Inv, Grows, NEW r \in Requests, NEW j \in Job, NEW refs \in FormState,
         Resolve(r, j, refs),
         UNCHANGED <<table, photo, cached, screen>>,
         j.form \in Forms, form[j.form] # Null,
         j.kind \in {"preview", "save"}, j.status \in Statuses,
         j.moment = form[j.form].moment,
         j.moment # Null => j.moment \in DOMAIN rows,
         refs.moment = form[j.form].moment,
         refs.made = form[j.form].made, refs.unsure = form[j.form].unsure,
         refs.uploaded # Null =>
           /\ KeptNext(refs.uploaded.key)
           /\ photo[refs.uploaded.key] = refs.uploaded.file,
         j.image # Null, KeptNext(j.image),
         j.file # Null => photo[j.image] = j.file,
         j.moment = Null => j.file # Null,
         \A q \in Requests \ {r} : at[q] # "idle" => job[q].form # j.form,
         at[r] # "reread",
         at[r] # "idle" => job[r].form = j.form
  PROVE  Inv'
<1> DEFINE f == j.form
           state == [form EXCEPT ![f] = refs]
<1>1. /\ state \in [Forms -> FormState \union {Null}]
      /\ state[f] = refs /\ refs # Null
      /\ \A g \in Forms \ {f} : state[g] = form[g]
  BY MomentConstants DEF Inv, TypeOK
<1>2. \A g \in Forms : Counted(g, state[g])
  BY <1>1 DEF Counted
<1>3. RowsKept'
  <2>1. CacheFollows
    BY DEF CacheFollows
  <2> QED
    BY <2>1, RowsStay DEF Inv, ImageInv, table
<1>4. PhotoOfDate'
  BY DEF Inv, PhotoOfDate, table
<1>5. ASSUME \A g \in Forms : form'[g] \in {Null, state[g]}
      PROVE  \A g \in Forms : FormKept(g)'
  <2>1. \A g \in Forms \ {f} : FormKept(g)'
    BY <1>1, <1>5, FormStays DEF Inv, ImageInv
  <2>2. FormKept(f)'
    BY <1>1, <1>5 DEF FormKept, ImageOf, Kept, KeptNext, Stored, table
  <2> QED
    BY <2>1, <2>2
<1>6. ASSUME \A g \in Forms : form'[g] \in {Null, state[g]},
             \A g \in Forms : Unanswered(g) => Unanswered(g)'
      PROVE  \A g \in Forms : MadeCounted(g)'
  BY <1>2, <1>6, CountsStay, Zenon DEF Inv, FormInv
<1>7. ASSUME screen # Null => form'[screen] = state[screen]
      PROVE  ScreenShown'
  BY <1>1, <1>7 DEF Inv, TypeOK, ImageInv, ScreenShown
<1> HIDE DEF state
<1>8. CASE j.kind = "preview" /\ Finish(r) /\ form' = Lasting(r, screen, state)
  <2>1. /\ at' \in [Requests -> Calls] /\ job' \in [Requests -> Job \union {Null}]
        /\ form' \in [Forms -> FormState \union {Null}]
        /\ \A g \in Forms : form'[g] \in {Null, state[g]}
        /\ screen \in Forms => form'[screen] = state[screen]
        /\ \A q \in Requests : JobKept(q)' /\ FormHeld(q)'
        /\ OneRequestPerForm'
        /\ \A g \in Forms :
             Unanswered(g) /\ ~(at[r] = "reread" /\ job[r].form = g)
               => Unanswered(g)'
    <3>1. \A g \in Forms : \/ state[g] = form[g]
                           \/ /\ form[g] # Null /\ state[g] # Null
                              /\ state[g].moment = form[g].moment
      BY <1>2 DEF Counted
    <3> QED
      BY <1>1, <1>8, <3>1, EndStep
  <2>2. ScreenShown'
    BY <1>7, <2>1 DEF Inv, TypeOK
  <2>3. (\A g \in Forms : FormKept(g)') /\ (\A g \in Forms : MadeCounted(g)')
    BY <1>5, <1>6, <2>1
  <2>4. TypeOK'
    BY <2>1 DEF Inv, TypeOK, table
  <2> QED
    BY <1>3, <1>4, <2>1, <2>2, <2>3, <2>4 DEF Inv, ImageInv, FormInv
<1>9. CASE /\ j.kind = "save"
           /\ Goto(r, IF j.moment = Null THEN "insert" ELSE "find") /\ Hold(r, j)
           /\ form' = state
  <2> DEFINE call == IF j.moment = Null THEN "insert" ELSE "find"
  <2>1. call \in Calls /\ call \in {"insert", "find"}
    BY DEF Calls
  <2>2. /\ at' \in [Requests -> Calls] /\ job' \in [Requests -> Job \union {Null}]
        /\ at'[r] = call /\ job'[r] = j
        /\ \A q \in Requests \ {r} : at'[q] = at[q] /\ job'[q] = job[q]
        /\ \A q \in Requests \ {r} : JobKept(q)'
    BY <1>9, <2>1, RequestStep
  <2>3. JobKept(r)'
    BY <2>2, MomentConstants
    DEF JobKept, Kept, KeptNext, Stored, Uploads, Saves, table
  <2>4. FormHeld(r)'
    BY <1>1, <1>9, <2>2 DEF FormHeld
  <2>5. ASSUME NEW q \in Requests \ {r}
        PROVE  FormHeld(q)'
    <3>1. /\ at'[q] = at[q] /\ job'[q] = job[q]
          /\ FormHeld(q)
      BY <2>2 DEF Inv, FormInv
    <3>2. at[q] # "idle" => job[q].form # f
      OBVIOUS
    <3>3. at[q] # "idle" /\ job[q].form # Null => job[q].form \in Forms
      BY HeldForm
    <3>4. at[q] # "idle" /\ job[q].form # Null =>
            form'[job[q].form] = form[job[q].form]
      BY <1>1, <1>9, <3>2, <3>3
    <3> QED
      BY <3>1, <3>4, HoldStays DEF FormHeld
  <2>6. OneRequestPerForm'
    BY <2>2 DEF Inv, FormInv, OneRequestPerForm
  <2>7. \A g \in Forms : Unanswered(g) => Unanswered(g)'
    BY <2>2 DEF Unanswered
  <2>8. ScreenShown' /\ (\A g \in Forms : FormKept(g)')
                     /\ (\A g \in Forms : MadeCounted(g)')
    BY <1>5, <1>6, <1>7, <1>9, <2>7
  <2>9. TypeOK'
    BY <1>1, <1>9, <2>2 DEF Inv, TypeOK, table
  <2> QED
    BY <1>3, <1>4, <2>2, <2>3, <2>4, <2>5, <2>6, <2>8, <2>9
    DEF Inv, ImageInv, FormInv
<1> QED
  BY <1>8, <1>9 DEF Resolve, state

-----------------------------------------------------------------------------
(* Preview, submission and upload.                                         *)

\* A request that goes on with its form, its kind and its moment.
LEMMA GoOnStep ==
  ASSUME Inv, Grows, NEW r \in Requests, NEW call \in Calls, NEW j \in Job,
         at[r] # "idle", Goto(r, call), Hold(r, j),
         j.form = job[r].form,
         call \in Uploads \union {"insert"} =>
           /\ at[r] \in Uploads \union {"insert"} /\ j.moment = job[r].moment,
         at[r] # "reread" \/ call = "reread",
         UNCHANGED <<form, screen>>
  PROVE  /\ at' \in [Requests -> Calls] /\ job' \in [Requests -> Job \union {Null}]
         /\ at'[r] = call /\ job'[r] = j
         /\ \A q \in Requests \ {r} : JobKept(q)'
         /\ FormInv'
<1>1. /\ at' \in [Requests -> Calls] /\ job' \in [Requests -> Job \union {Null}]
      /\ at'[r] = call /\ job'[r] = j
      /\ \A q \in Requests \ {r} : at'[q] = at[q] /\ job'[q] = job[q]
      /\ \A q \in Requests \ {r} : JobKept(q)'
  BY RequestStep
<1>2. \A q \in Requests : FormHeld(q)'
  BY <1>1 DEF Inv, FormInv, FormHeld
<1>3. OneRequestPerForm'
  BY <1>1, OneRequestStays DEF Inv, FormInv
<1>4. \A f \in Forms : Unanswered(f) => Unanswered(f)'
  BY <1>1 DEF Unanswered
<1>5. \A f \in Forms : MadeCounted(f)'
  BY <1>4, CountsStay DEF Inv, FormInv, Counted
<1> QED
  BY <1>1, <1>2, <1>3, <1>5 DEF FormInv

LEMMA PressKeepsInv ==
  ASSUME Inv, NEW r \in Requests, NEW f \in Forms,
         NEW kind \in {"preview", "save"}, Press(r, f, kind)
  PROVE  Inv'
<1> DEFINE m == form[f].moment
           file == form[f].file
           j == [kind |-> kind, form |-> f, moment |-> m, file |-> file,
                 status |-> form[f].status, image |-> Null,
                 read |-> Null, date |-> 0]
<1>1. /\ at[r] = "idle" /\ screen = f /\ Of(f) = {}
      /\ UNCHANGED <<table, bucket, cached, screen>>
  BY DEF Press, Disabled
<1>2. /\ form[f] \in FormState /\ form[f] # Null
      /\ m # Null => m \in DOMAIN rows /\ m \in Moments /\ cached[m] # Null
  BY <1>1, MountedForm, MomentConstants
  DEF Inv, TypeOK, ImageInv, ScreenShown, FormKept, FormState
<1>3. j \in Job
  BY <1>2 DEF FormState, Job, Kinds
<1>4. /\ j.form = f /\ j.kind = kind /\ j.moment = m /\ j.file = file
      /\ j.status = form[f].status /\ j.image = Null
      /\ form[f].status \in Statuses
  BY <1>2 DEF FormState
<1>5. Grows
  BY <1>1 DEF Grows, table, bucket
<1>6. \A q \in Requests \ {r} : at[q] # "idle" => job[q].form # f
  BY <1>1 DEF Of
<1>7. form[f].uploaded # Null =>
        /\ form[f].uploaded.key \in Nat
        /\ KeptNext(form[f].uploaded.key)
        /\ photo[form[f].uploaded.key] = form[f].uploaded.file
  BY <1>1, <1>2 DEF Inv, ImageInv, FormKept, ImageOf, Kept, KeptNext, Stored,
     bucket, FormState
<1>8. form[f].status \in Statuses /\ photo' = photo
  BY <1>1, <1>2, <1>4 DEF FormState, bucket
<1>9. m \in Moments \union {Null} /\ file \in Files \union {Null}
  BY <1>2 DEF FormState
<1>10. CASE /\ file # Null /\ Uploaded(form[f].uploaded, file)
            /\ Resolve(r, [j EXCEPT !.image = form[f].uploaded.key], form[f])
  <2> DEFINE i == [j EXCEPT !.image = form[f].uploaded.key]
  <2>1. form[f].uploaded # Null /\ form[f].uploaded.file = file
    BY <1>10 DEF Uploaded
  <2>2. /\ i \in Job /\ i.form = f /\ i.kind = kind /\ i.moment = m
        /\ i.file = file /\ i.status = form[f].status
        /\ i.image = form[f].uploaded.key
    BY <1>3, <1>4, <1>7, <2>1 DEF Job
  <2>3. i.image # Null
    BY <1>7, <2>1, <2>2, MomentConstants
  <2>4. Resolve(r, i, form[f])
    BY <1>10
  <2> HIDE DEF i, j, m, file
  <2> QED
    BY <1>1, <1>2, <1>5, <1>6, <1>7, <1>8, <1>10, <2>1, <2>2, <2>3, <2>4,
       ResolveKeepsInv DEF m, file
<1>11. CASE file = Null /\ m # Null
            /\ Resolve(r, [j EXCEPT !.image = cached[m].image], form[f])
  <2> DEFINE i == [j EXCEPT !.image = cached[m].image]
  <2>1. cached[m].image \in Nat /\ KeptNext(cached[m].image)
    BY <1>1, <1>2, <1>11 DEF Inv, TypeOK, ImageInv, RowsKept, Kept, KeptNext,
       Stored, bucket, Row
  <2>2. /\ i \in Job /\ i.form = f /\ i.kind = kind /\ i.moment = m
        /\ i.file = file /\ i.status = form[f].status
        /\ i.image = cached[m].image
    BY <1>3, <1>4, <2>1 DEF Job
  <2>3. i.image # Null
    BY <2>1, <2>2, MomentConstants
  <2>4. Resolve(r, i, form[f])
    BY <1>11
  <2> HIDE DEF i, j, m, file
  <2> QED
    BY <1>1, <1>2, <1>5, <1>6, <1>7, <1>8, <1>11, <2>1, <2>2, <2>3, <2>4,
       ResolveKeepsInv DEF m, file
<1>12. CASE /\ file # Null
            /\ Goto(r, "presign") /\ Hold(r, j)
            /\ UNCHANGED form
  <2>1. "presign" \in Calls
    BY DEF Calls
  <2> HIDE DEF j, m, file
  <2>2. /\ at' \in [Requests -> Calls] /\ job' \in [Requests -> Job \union {Null}]
        /\ at'[r] = "presign" /\ job'[r] = j
        /\ \A q \in Requests \ {r} : at'[q] = at[q] /\ job'[q] = job[q]
        /\ \A q \in Requests \ {r} : JobKept(q)'
    BY <1>3, <1>5, <1>12, <2>1, RequestStep
  <2>3. JobKept(r)'
    BY <1>1, <1>2, <1>3, <1>4, <1>12, <2>2, MomentConstants
    DEF JobKept, Uploads, Saves, table
  <2>4. \A q \in Requests : FormHeld(q)'
    BY <1>2, <1>4, <1>12, <2>2 DEF Inv, FormInv, FormHeld, m
  <2>5. OneRequestPerForm'
    BY <1>4, <1>6, <2>2 DEF Inv, FormInv, OneRequestPerForm
  <2>6. \A g \in Forms : Unanswered(g) => Unanswered(g)'
    BY <1>1, <2>2 DEF Unanswered
  <2>7. \A g \in Forms : MadeCounted(g)'
    BY <1>12, <2>6, CountsStay DEF Inv, FormInv, Counted
  <2>8. RowsKept' /\ ScreenShown' /\ PhotoOfDate'
    BY <1>1, <1>12 DEF Inv, ImageInv, RowsKept, ScreenShown, PhotoOfDate,
       Kept, Stored, table, bucket
  <2>9. \A g \in Forms : FormKept(g)'
    BY <1>5, <1>12, FormStays DEF Inv, ImageInv
  <2>10. TypeOK'
    BY <1>1, <1>12, <2>2 DEF Inv, TypeOK, table, bucket
  <2> QED
    BY <2>2, <2>3, <2>4, <2>5, <2>7, <2>8, <2>9, <2>10
    DEF Inv, ImageInv, FormInv
<1> QED
  BY <1>10, <1>11, <1>12 DEF Press

LEMMA PresignKeepsInv ==
  ASSUME Inv, NEW r \in Requests, Presign(r)
  PROVE  Inv'
<1> DEFINE len == Len(photo)
           j == [job[r] EXCEPT !.image = len + 1]
<1>1. /\ at[r] = "presign" /\ JobKept(r)
      /\ job[r] \in Job /\ job[r].file \in Files
      /\ photo \in Seq(Files) /\ photo' = Append(photo, job[r].file)
      /\ UNCHANGED <<table, objects, cached, form, screen>>
  BY DEF Presign, Inv, TypeOK, ImageInv, JobKept, Uploads, Job, page
<1>2. /\ len \in Nat /\ DOMAIN photo = 1..len
      /\ photo' \in Seq(Files) /\ DOMAIN photo' = 1..(len + 1)
      /\ \A key \in 1..len : photo'[key] = photo[key]
      /\ photo'[len + 1] = job[r].file
  BY <1>1
<1>3. Goto(r, "put") /\ Hold(r, j) /\ "put" \in Calls
  BY DEF Presign, Calls
<1> HIDE DEF len
<1>4. Grows
  BY <1>1, <1>2 DEF Grows, table
<1>5. /\ j \in Job /\ j.form = job[r].form /\ j.moment = job[r].moment
      /\ j.file = job[r].file /\ j.status = job[r].status
      /\ j.kind = job[r].kind /\ j.image = len + 1
  BY <1>1, <1>2 DEF Job
<1> HIDE DEF j
<1>6. /\ at' \in [Requests -> Calls] /\ job' \in [Requests -> Job \union {Null}]
      /\ at'[r] = "put" /\ job'[r] = j
      /\ \A q \in Requests \ {r} : JobKept(q)'
      /\ FormInv'
  BY <1>1, <1>3, <1>4, <1>5, GoOnStep DEF Uploads
<1>7. JobKept(r)'
  BY <1>1, <1>2, <1>5, <1>6 DEF JobKept, Uploads, Saves, table
<1>8. RowsKept' /\ ScreenShown' /\ PhotoOfDate'
  <2>1. RowsKept'
    BY <1>1, <1>4, RowsStay DEF Inv, ImageInv, CacheFollows, table
  <2>2. ScreenShown'
    BY <1>1 DEF Inv, ImageInv, ScreenShown
  <2>3. PhotoOfDate'
    BY <1>1, <1>4 DEF Inv, ImageInv, RowsKept, Kept, Grows, PhotoOfDate, table
  <2> QED
    BY <2>1, <2>2, <2>3
<1>9. \A g \in Forms : FormKept(g)'
  BY <1>1, <1>4, FormStays DEF Inv, ImageInv
<1>10. TypeOK'
  BY <1>1, <1>2, <1>6 DEF Inv, TypeOK, table
<1> QED
  BY <1>6, <1>7, <1>8, <1>9, <1>10 DEF Inv, ImageInv

LEMMA PutObjectKeepsInv ==
  ASSUME Inv, NEW r \in Requests, NEW size \in Sizes, PutObject(r, size)
  PROVE  Inv'
<1> DEFINE f == job[r].form
           key == job[r].image
           file == job[r].file
           refs == [form[f] EXCEPT !.uploaded = [file |-> file, key |-> key]]
<1>1. /\ at[r] = "put" /\ objects' = objects \union {<<key, size>>}
      /\ UNCHANGED <<table, photo, cached, screen>>
  BY DEF PutObject
<1>2. JobKept(r) /\ FormHeld(r)
  BY DEF Inv, ImageInv, FormInv
<1>3. /\ job[r] \in Job /\ f # Null /\ f \in Forms /\ file \in Files
      /\ job[r].kind \in {"preview", "save"} /\ job[r].status \in Statuses
      /\ job[r].moment # Null => job[r].moment \in DOMAIN rows
      /\ key \in DOMAIN photo /\ photo[key] = file
  BY <1>1, <1>2 DEF JobKept, Uploads, Job
<1>4. form[f] # Null /\ job[r].moment = form[f].moment /\ form[f] \in FormState
  BY <1>1, <1>2, <1>3 DEF FormHeld, Uploads, Inv, TypeOK
<1>5. key \in Nat /\ key # Null
  BY <1>3, MomentConstants DEF Inv, TypeOK
<1>6. Grows
  BY <1>1 DEF Grows, table
<1>7. \A q \in Requests \ {r} : at[q] # "idle" => job[q].form # f
  BY <1>1, <1>3 DEF Inv, FormInv, OneRequestPerForm
<1>8. CASE AllStored(key, size) /\ Resolve(r, job[r], refs)
  <2>1. KeptNext(key)
    BY <1>1, <1>3, <1>8 DEF KeptNext, AllStored
  <2>2. /\ refs \in FormState /\ refs.moment = form[f].moment
        /\ refs.made = form[f].made /\ refs.unsure = form[f].unsure
        /\ refs.uploaded = [file |-> file, key |-> key]
    BY <1>3, <1>4, <1>5 DEF FormState
  <2>3. refs.uploaded.key = key /\ refs.uploaded.file = file
    BY <2>2
  <2> HIDE DEF refs, f, key, file
  <2>4. refs.uploaded # Null =>
          /\ KeptNext(refs.uploaded.key)
          /\ photo[refs.uploaded.key] = refs.uploaded.file
    BY <1>3, <2>1, <2>3
  <2>5. job[r].moment = Null => job[r].file # Null
    BY <1>3, MomentConstants DEF file
  <2>6. /\ job[r].form = f /\ job[r].image = key /\ job[r].file = file
    BY DEF f, key, file
  <2> QED
    BY <1>1, <1>3, <1>4, <1>5, <1>6, <1>7, <1>8, <2>1, <2>2, <2>4, <2>5, <2>6,
       ResolveKeepsInv
<1>9. CASE UNCHANGED <<form, at, job>>
  <2>1. \A q \in Requests : JobKept(q)'
    BY <1>6, <1>9, JobStays DEF Inv, ImageInv
  <2>2. \A g \in Forms : FormKept(g)'
    BY <1>6, <1>9, FormStays DEF Inv, ImageInv
  <2>3. RowsKept'
    BY <1>1, <1>6, RowsStay DEF Inv, ImageInv, CacheFollows, table
  <2>4. ScreenShown' /\ PhotoOfDate'
    BY <1>1, <1>9 DEF Inv, ImageInv, ScreenShown, PhotoOfDate, table
  <2>5. FormInv'
    BY <1>9 DEF Inv, FormInv, FormHeld, OneRequestPerForm, MadeCounted, Unanswered
  <2>6. TypeOK'
    BY <1>1, <1>9 DEF Inv, TypeOK, table
  <2> QED
    BY <2>1, <2>2, <2>3, <2>4, <2>5, <2>6 DEF Inv, ImageInv
<1> QED
  BY <1>8, <1>9 DEF PutObject

LEMMA PressInListKeepsInv ==
  ASSUME Inv, NEW r \in Requests, NEW m \in Moments, NEW kind \in Kinds,
         NEW status, kind # "delete" => status \in Statuses,
         status \in Statuses \union {Null},
         PressInList(r, m, kind, status)
  PROVE  Inv'
<1> DEFINE j == [kind |-> kind, form |-> Null, moment |-> m, file |-> Null,
                 status |-> status, image |-> Null, read |-> Null, date |-> 0]
           call == IF kind = "delete" THEN "delete" ELSE "find"
<1>1. /\ at[r] = "idle" /\ screen = Null /\ m \in DOMAIN rows
      /\ Goto(r, call) /\ Hold(r, j)
      /\ UNCHANGED <<table, bucket, page>>
  BY DEF PressInList
<1>2. /\ j \in Job /\ j.form = Null /\ j.moment = m /\ j.file = Null
      /\ j.image = Null /\ j.status = status
      /\ m # Null
  BY MomentConstants DEF Job, Kinds, Moments
<1>3. /\ call \in Calls /\ call \in {"find", "delete"}
      /\ call = "find" => status \in Statuses
  BY DEF Calls
<1>4. Grows
  BY <1>1 DEF Grows, table, bucket
<1> HIDE DEF j, call
<1>5. /\ at' \in [Requests -> Calls] /\ job' \in [Requests -> Job \union {Null}]
      /\ at'[r] = call /\ job'[r] = j
      /\ \A q \in Requests \ {r} : at'[q] = at[q] /\ job'[q] = job[q]
      /\ \A q \in Requests \ {r} : JobKept(q)'
  BY <1>1, <1>2, <1>3, <1>4, RequestStep
<1>6. JobKept(r)'
  BY <1>1, <1>2, <1>3, <1>5 DEF JobKept, Uploads, Saves, table
<1>7. /\ UNCHANGED <<rows, crossed, photo, objects, cached, form, screen>>
      /\ stamps' = stamps
  BY <1>1 DEF table, bucket, page
<1>8. \A q \in Requests : FormHeld(q)'
  BY <1>2, <1>5, <1>7 DEF Inv, FormInv, FormHeld
<1>9. OneRequestPerForm'
  BY <1>2, <1>5 DEF Inv, FormInv, OneRequestPerForm
<1>10. \A g \in Forms : Unanswered(g) => Unanswered(g)'
  BY <1>1, <1>5 DEF Unanswered
<1>11. \A g \in Forms : MadeCounted(g)'
  BY <1>7, <1>10, CountsStay DEF Inv, FormInv, Counted
<1>12. RowsKept' /\ ScreenShown' /\ PhotoOfDate'
  BY <1>7 DEF Inv, ImageInv, RowsKept, ScreenShown, PhotoOfDate, Kept, Stored
<1>13. \A g \in Forms : FormKept(g)'
  BY <1>4, <1>7, FormStays DEF Inv, ImageInv
<1>14. TypeOK'
  BY <1>5, <1>7 DEF Inv, TypeOK
<1> QED
  BY <1>5, <1>6, <1>8, <1>9, <1>11, <1>12, <1>13, <1>14
  DEF Inv, ImageInv, FormInv

-----------------------------------------------------------------------------
(* The API                                                                 *)

\* A request whose form is not there any more, or has been told.
LEMMA RefuseKeepsInv ==
  ASSUME Inv, Grows, NEW r \in Requests, at[r] # "idle", Refuse(r),
         UNCHANGED <<table, photo>>
  PROVE  Inv'
<1>0. PICK f : f = job[r].form
  OBVIOUS
<1> DEFINE unsure == at[r] = "reread" /\ form[f].moment = Null
           state == IF f # Null /\ unsure THEN [form EXCEPT ![f].unsure = @ + 1]
                    ELSE form
<1>1. /\ Finish(r) /\ form' = Lasting(r, screen, state)
      /\ UNCHANGED <<cached, screen>>
  BY <1>0 DEF Refuse
<1>2. form \in [Forms -> FormState \union {Null}]
  BY DEF Inv, TypeOK
<1>3. f # Null => f \in Forms /\ form[f] \in FormState /\ form[f] # Null
  BY <1>0, HeldForm, MomentConstants
<1>4. CASE f # Null /\ unsure
  <2> DEFINE told == [form[f] EXCEPT !.unsure = @ + 1]
  <2>1. /\ told \in FormState /\ told # Null
        /\ told.moment = form[f].moment /\ told.uploaded = form[f].uploaded
        /\ told.made = form[f].made /\ told.unsure = form[f].unsure + 1
    BY <1>3, <1>4, MomentConstants DEF FormState
  <2>2. state = [form EXCEPT ![f] = told]
    BY <1>2, <1>3, <1>4
  <2> HIDE DEF told
  <2>3. /\ state \in [Forms -> FormState \union {Null}] /\ state[f] = told
        /\ \A g \in Forms \ {f} : state[g] = form[g]
    BY <1>2, <1>3, <1>4, <2>1, <2>2
  <2> HIDE DEF state
  <2>4. \A g \in Forms : \/ state[g] = form[g]
                         \/ /\ form[g] # Null /\ state[g] # Null
                            /\ state[g].moment = form[g].moment
    BY <1>3, <1>4, <2>1, <2>3
  <2>5. /\ at' \in [Requests -> Calls] /\ job' \in [Requests -> Job \union {Null}]
        /\ form' \in [Forms -> FormState \union {Null}]
        /\ \A g \in Forms : form'[g] \in {Null, state[g]}
        /\ screen \in Forms => form'[screen] = state[screen]
        /\ \A q \in Requests : JobKept(q)' /\ FormHeld(q)'
        /\ OneRequestPerForm'
        /\ \A g \in Forms :
             Unanswered(g) /\ ~(at[r] = "reread" /\ job[r].form = g)
               => Unanswered(g)'
    BY <1>1, <2>3, <2>4, EndStep
  <2>6. \A g \in Forms : FormKept(g)'
    <3>1. \A g \in Forms \ {f} : FormKept(g)'
      BY <2>3, <2>5, FormStays DEF Inv, ImageInv
    <3>2. \A key : Kept(key) => Kept(key)' /\ photo'[key] = photo[key]
      BY KeptStays
    <3>3. FormKept(f)'
      BY <1>3, <1>4, <2>1, <2>3, <2>5, <3>2
      DEF Inv, ImageInv, FormKept, ImageOf, Kept, Stored, table
    <3> QED
      BY <3>1, <3>3
  <2>7. MadeCounted(f)'
    BY <1>0, <1>3, <1>4, <2>1, <2>3, <2>5 DEF Inv, FormInv, MadeCounted, FormState
  <2>8. \A g \in Forms \ {f} : MadeCounted(g)'
    BY <1>0, <2>3, <2>5, CountsStay DEF Inv, FormInv, Counted
  <2>9. RowsKept' /\ PhotoOfDate'
    <3>1. RowsKept'
      BY <1>1, RowsStay DEF Inv, ImageInv, CacheFollows, table
    <3>2. PhotoOfDate'
      BY DEF Inv, PhotoOfDate, table
    <3> QED
      BY <3>1, <3>2
  <2>10. ScreenShown'
    BY <1>1, <2>1, <2>3, <2>5 DEF Inv, TypeOK, ImageInv, ScreenShown
  <2>11. TypeOK'
    BY <1>1, <2>5 DEF Inv, TypeOK, table
  <2> QED
    BY <2>5, <2>6, <2>7, <2>8, <2>9, <2>10, <2>11 DEF Inv, ImageInv, FormInv
<1>5. CASE ~(f # Null /\ unsure)
  <2>1. state = form
    BY <1>5
  <2>2. form' = Lasting(r, screen, form)
    BY <1>1, <2>1
  <2>3. /\ at' \in [Requests -> Calls] /\ job' \in [Requests -> Job \union {Null}]
        /\ form' \in [Forms -> FormState \union {Null}]
        /\ \A g \in Forms : form'[g] \in {Null, form[g]}
        /\ screen \in Forms => form'[screen] = form[screen]
        /\ \A q \in Requests : JobKept(q)' /\ FormHeld(q)'
        /\ OneRequestPerForm'
        /\ \A g \in Forms :
             Unanswered(g) /\ ~(at[r] = "reread" /\ job[r].form = g)
               => Unanswered(g)'
    BY <1>1, <1>2, <2>2, EndStep
  <2>4. \A g \in Forms : FormKept(g)'
    BY <2>3, FormStays DEF Inv, ImageInv
  <2>5. \A g \in Forms : MadeCounted(g)'
    <3>1. SUFFICES ASSUME NEW g \in Forms
                   PROVE  MadeCounted(g)'
      OBVIOUS
    <3>2. CASE at[r] = "reread" /\ job[r].form = g
      <4>1. f = g /\ f # Null /\ form[f].moment # Null /\ form[f] \in FormState
        BY <1>0, <1>3, <1>5, <3>2, MomentConstants
      <4> QED
        BY <2>3, <4>1 DEF Inv, FormInv, MadeCounted, FormState
    <3>3. CASE ~(at[r] = "reread" /\ job[r].form = g)
      BY <2>3, <3>3, CountsStay DEF Inv, FormInv, Counted
    <3> QED
      BY <3>2, <3>3
  <2>6. RowsKept' /\ PhotoOfDate'
    <3>1. RowsKept'
      BY <1>1, RowsStay DEF Inv, ImageInv, CacheFollows, table
    <3>2. PhotoOfDate'
      BY DEF Inv, PhotoOfDate, table
    <3> QED
      BY <3>1, <3>2
  <2>7. ScreenShown'
    BY <1>1, <2>3 DEF Inv, TypeOK, ImageInv, ScreenShown
  <2>8. TypeOK'
    BY <1>1, <2>3 DEF Inv, TypeOK, table
  <2> QED
    BY <2>3, <2>4, <2>5, <2>6, <2>7, <2>8 DEF Inv, ImageInv, FormInv
<1> QED
  BY <1>4, <1>5

LEMMA InsertKeepsInv ==
  ASSUME Inv, NEW r \in Requests, Insert(r)
  PROVE  Inv'
<1>0. PICK f : f = job[r].form
  OBVIOUS
<1> DEFINE j == job[r]
           len == Len(rows)
           row == [image |-> j.image, captured |-> j.file, status |-> j.status,
                   date |-> DateOf(j.status, 0)]
           i == [j EXCEPT !.moment = len + 1]
           state == [form[f] EXCEPT !.made = @ + 1]
<1>1. /\ at[r] = "insert" /\ len < MaxMoments
      /\ rows' = Append(rows, row)
      /\ stamps' = IF FirstPublication(j.status, 0) THEN stamps + 1 ELSE stamps
      /\ form' = [form EXCEPT ![f].made = @ + 1]
      /\ Goto(r, "reread") /\ Hold(r, i)
      /\ UNCHANGED <<crossed, photo, objects, cached, screen>>
  BY <1>0 DEF Insert, Stamp, bucket
<1>2. /\ j \in Job /\ f \in Forms /\ j.file \in Files /\ j.status \in Statuses
      /\ j.image \in Nat /\ Kept(j.image) /\ photo[j.image] = j.file
      /\ j.moment = Null
  <2>1. JobKept(r)
    BY DEF Inv, ImageInv
  <2>2. j \in Job /\ f # Null /\ j.file # Null /\ j.image # Null
        /\ j.status \in Statuses /\ j.moment = Null
    BY <1>0, <1>1, <2>1 DEF JobKept, Saves
  <2>3. Kept(j.image) /\ photo[j.image] = j.file
    BY <1>1, <2>1, <2>2 DEF JobKept, Saves
  <2> QED
    BY <1>0, <2>2, <2>3 DEF Job
<1>3. form[f] \in FormState /\ form[f] # Null /\ form[f].moment = Null
  BY <1>0, <1>1, <1>2, MomentConstants DEF Inv, TypeOK, FormInv, FormHeld
<1>4. /\ row \in Row /\ row # Null /\ row.image = j.image /\ row.captured = j.file
      /\ stamps' \in Nat
  BY <1>1, <1>2, MomentConstants DEF Row, DateOf, Inv, TypeOK
<1> HIDE DEF row
<1>5. /\ len \in Nat /\ DOMAIN rows = 1..len /\ rows \in Seq(Row \union {Null})
      /\ rows' \in Seq(Row \union {Null}) /\ DOMAIN rows' = 1..(len + 1)
      /\ \A m \in 1..len : rows'[m] = rows[m]
      /\ rows'[len + 1] = row
  BY <1>1, <1>4 DEF Inv, TypeOK
<1>6. len + 1 \in Moments
  BY <1>1, <1>5, MomentConstants DEF Moments
<1> HIDE DEF len
<1>7. Grows
  BY <1>1, <1>5 DEF Grows
<1>8. /\ i \in Job /\ i.form = f /\ i.moment = len + 1
  BY <1>0, <1>2, <1>6 DEF Job
<1>9. /\ state \in FormState /\ state # Null
      /\ state.moment = Null /\ state.uploaded = form[f].uploaded
      /\ state.made = form[f].made + 1 /\ state.unsure = form[f].unsure
  BY <1>3, MomentConstants DEF FormState
<1>10. /\ form' \in [Forms -> FormState \union {Null}]
       /\ form'[f] = state
       /\ \A g \in Forms \ {f} : form'[g] = form[g]
  <2>1. form' = [form EXCEPT ![f] = state]
    BY <1>1, <1>2 DEF Inv, TypeOK
  <2> HIDE DEF state
  <2> QED
    BY <1>2, <1>9, <2>1 DEF Inv, TypeOK
<1> HIDE DEF i, state
<1>11. /\ at' \in [Requests -> Calls] /\ job' \in [Requests -> Job \union {Null}]
       /\ at'[r] = "reread" /\ job'[r] = i
       /\ \A q \in Requests \ {r} : at'[q] = at[q] /\ job'[q] = job[q]
       /\ \A q \in Requests \ {r} : JobKept(q)'
  <2>1. "reread" \in Calls
    BY DEF Calls
  <2> QED
    BY <1>1, <1>7, <1>8, <2>1, RequestStep
<1>12. JobKept(r)'
  BY <1>5, <1>8, <1>11, MomentConstants DEF JobKept, Uploads, Saves
<1>13. FormHeld(r)'
  BY <1>8, <1>9, <1>10, <1>11 DEF FormHeld, Uploads
<1>14. \A q \in Requests \ {r} : at[q] # "idle" => job[q].form # f
  BY <1>0, <1>1, <1>2, MomentConstants DEF Inv, FormInv, OneRequestPerForm
<1>15. ASSUME NEW q \in Requests \ {r}
       PROVE  FormHeld(q)'
  <2>1. at[q] # "idle" /\ job[q].form # Null =>
          form'[job[q].form] = form[job[q].form]
    BY <1>10, <1>14, HeldForm
  <2> QED
    BY <1>11, <2>1, HoldStays DEF Inv, FormInv, FormHeld
<1>16. OneRequestPerForm'
  BY <1>0, <1>1, <1>8, <1>11, OneRequestStays DEF Inv, FormInv
<1>17. \A g \in Forms \ {f} : MadeCounted(g)'
  <2>1. \A g \in Forms : Unanswered(g) => Unanswered(g)'
    BY <1>1, <1>11 DEF Unanswered
  <2> QED
    BY <1>10, <2>1, CountsStay DEF Inv, FormInv, Counted
<1>18. MadeCounted(f)'
  <2>1. ~Unanswered(f)
    <3> SUFFICES ASSUME NEW q \in Requests, at[q] = "reread", job[q].form = f
                 PROVE  FALSE
      BY DEF Unanswered
    <3>1. q = r
      BY <1>14
    <3> QED
      BY <1>1, <3>1
  <2>2. Unanswered(f)'
    BY <1>8, <1>11 DEF Unanswered
  <2>3. form[f].made <= form[f].unsure
    BY <1>2, <1>3, <2>1 DEF Inv, FormInv, MadeCounted
  <2>4. form[f].made \in Nat /\ form[f].unsure \in Nat
    BY <1>3 DEF FormState
  <2> QED
    BY <1>9, <1>10, <2>2, <2>3, <2>4 DEF MadeCounted
<1>19. \A g \in Forms : FormKept(g)'
  <2>1. \A g \in Forms \ {f} : FormKept(g)'
    BY <1>7, <1>10, FormStays DEF Inv, ImageInv
  <2>2. FormKept(f)'
    BY <1>1, <1>2, <1>3, <1>9, <1>10
    DEF Inv, ImageInv, FormKept, ImageOf, Kept, Stored
  <2> QED
    BY <2>1, <2>2
<1>20. RowsKept'
  BY <1>1, <1>2, <1>4, <1>5 DEF Inv, ImageInv, RowsKept, Kept, Stored
<1>21. PhotoOfDate'
  BY <1>1, <1>2, <1>4, <1>5 DEF Inv, PhotoOfDate
<1>22. ScreenShown'
  BY <1>1, <1>3, <1>9, <1>10 DEF Inv, TypeOK, ImageInv, ScreenShown
<1>23. TypeOK'
  BY <1>1, <1>4, <1>5, <1>10, <1>11 DEF Inv, TypeOK
<1> QED
  BY <1>11, <1>12, <1>13, <1>15, <1>16, <1>17, <1>18, <1>19, <1>20, <1>21,
     <1>22, <1>23 DEF Inv, ImageInv, FormInv

LEMMA FindMomentKeepsInv ==
  ASSUME Inv, NEW r \in Requests, FindMoment(r)
  PROVE  Inv'
<1> DEFINE j == job[r]
           row == rows[j.moment]
           i == [j EXCEPT !.read = row, !.date = DateOf(j.status, row.date)]
<1>1. at[r] = "find" /\ UNCHANGED <<rows, crossed, photo, objects>>
  BY DEF FindMoment, bucket
<1>2. JobKept(r) /\ j \in Job /\ j.moment \in DOMAIN rows /\ j.status \in Statuses
  BY <1>1 DEF Inv, ImageInv, JobKept, Saves
<1>3. Grows
  BY <1>1 DEF Grows
<1>4. CASE row = Null /\ Refuse(r) /\ UNCHANGED stamps
  BY <1>1, <1>3, <1>4, RefuseKeepsInv DEF table
<1>5. CASE /\ row # Null
           /\ Stamp(j.status, row.date)
           /\ Goto(r, "update")
           /\ Hold(r, i)
           /\ UNCHANGED page
  <2>1. row \in Row /\ Kept(row.image)
    BY <1>2, <1>5 DEF Inv, TypeOK, ImageInv, RowsKept
  <2>2. stamps' \in Nat /\ DateOf(j.status, row.date) \in Nat
        /\ row.date \in {0, DateOf(j.status, row.date)}
    BY <1>5, <2>1 DEF Stamp, DateOf, FirstPublication, Row, Inv, TypeOK
  <2>3. /\ i \in Job /\ i.form = j.form /\ i.moment = j.moment /\ i.file = j.file
        /\ i.image = j.image /\ i.status = j.status /\ i.read = row
        /\ i.date = DateOf(j.status, row.date)
    BY <1>2, <2>1, <2>2 DEF Job
  <2>4. "update" \in Calls /\ Hold(r, i) /\ Goto(r, "update")
        /\ UNCHANGED <<cached, form, screen>>
    BY <1>5 DEF Calls, page
  <2> HIDE DEF i, row
  <2>5. /\ at' \in [Requests -> Calls] /\ job' \in [Requests -> Job \union {Null}]
        /\ at'[r] = "update" /\ job'[r] = i
        /\ \A q \in Requests \ {r} : JobKept(q)'
        /\ FormInv'
    BY <1>1, <1>3, <2>3, <2>4, GoOnStep DEF Uploads
  <2>6. JobKept(r)'
    BY <1>1, <1>2, <1>5, <2>1, <2>2, <2>3, <2>5, MomentConstants
    DEF JobKept, Uploads, Saves, Kept, Stored
  <2>7. RowsKept' /\ ScreenShown' /\ PhotoOfDate'
    BY <1>1, <2>4 DEF Inv, ImageInv, RowsKept, ScreenShown, PhotoOfDate, Kept, Stored
  <2>8. \A g \in Forms : FormKept(g)'
    BY <1>3, <2>4, FormStays DEF Inv, ImageInv
  <2>9. TypeOK'
    BY <1>1, <2>2, <2>4, <2>5 DEF Inv, TypeOK
  <2> QED
    BY <2>5, <2>6, <2>7, <2>8, <2>9 DEF Inv, ImageInv
<1> QED
  BY <1>4, <1>5 DEF FindMoment

\* A request that holds what it held.
LEMMA SameJob ==
  ASSUME Inv, NEW r \in Requests, job' = job, at[r] # "idle"
  PROVE  Hold(r, job[r]) /\ job[r] \in Job /\ JobKept(r)
<1>1. job = [job EXCEPT ![r] = job[r]]
  BY DEF Inv, TypeOK
<1>2. Hold(r, job[r])
  BY <1>1 DEF Hold
<1> QED
  BY <1>2 DEF Inv, ImageInv, JobKept

\* What an update writes when it crossed no other one: the photo it was sent
\* with the date that goes with it, or those that are stored.
LEMMA MergedRow ==
  ASSUME Inv, NEW r \in Requests, at[r] = "update", rows[job[r].moment] # Null
  PROVE  LET j == job[r]
             row == rows[j.moment]
         IN /\ row \in Row
            /\ Merged(j, row) \in Row
            /\ Kept(Merged(j, row).image)
            /\ ~Overtaken(j, row) =>
                 /\ row.date \in {0, Merged(j, row).date}
                 /\ (photo[row.image] = row.captured
                       => photo[Merged(j, row).image] = Merged(j, row).captured)
<1> DEFINE j == job[r]
           row == rows[j.moment]
<1>1. /\ j \in Job /\ j.moment \in DOMAIN rows /\ j.status \in Statuses
      /\ j.image # Null => Kept(j.image)
      /\ j.file # Null => j.image # Null /\ photo[j.image] = j.file
      /\ j.read # Null /\ Kept(j.read.image) /\ j.read.date \in {0, j.date}
  BY DEF Inv, ImageInv, JobKept, Saves
<1>2. row \in Row
  BY <1>1 DEF Inv, TypeOK
<1>3. /\ j.image \in Nat \union {Null} /\ j.file \in Files \union {Null}
      /\ j.read \in Row /\ j.date \in Nat
  BY <1>1 DEF Job
<1>4. /\ Merged(j, row).image = IF j.image = Null THEN j.read.image ELSE j.image
      /\ Merged(j, row).captured = IF j.file = Null THEN row.captured ELSE j.file
      /\ Merged(j, row).date = j.date
      /\ Merged(j, row) \in Row
  BY <1>1, <1>2, <1>3 DEF Merged, Row
<1>5. Kept(Merged(j, row).image)
  BY <1>1, <1>4
<1>6. ASSUME ~Overtaken(j, row)
      PROVE  /\ row.date \in {0, Merged(j, row).date}
             /\ (photo[row.image] = row.captured
                   => photo[Merged(j, row).image] = Merged(j, row).captured)
  <2>1. row = j.read /\ (j.file = Null => j.image \in {Null, row.image})
    BY <1>6 DEF Overtaken
  <2> QED
    BY <1>1, <1>4, <2>1
<1> QED
  BY <1>2, <1>4, <1>5, <1>6

LEMMA UpdateMomentKeepsInv ==
  ASSUME Inv, NEW r \in Requests, UpdateMoment(r)
  PROVE  Inv'
<1>0. PICK m : m = job[r].moment
  OBVIOUS
<1> DEFINE j == job[r]
           row == rows[m]
<1>1. /\ at[r] = "update" /\ Goto(r, "reread") /\ job' = job
      /\ UNCHANGED <<stamps, photo, objects, cached, form, screen>>
  BY DEF UpdateMoment, bucket, page
<1>2. Hold(r, j) /\ j \in Job /\ JobKept(r)
  BY <1>1, SameJob
<1>3. m \in DOMAIN rows /\ m # Null
  BY <1>0, <1>1, <1>2, MomentConstants DEF JobKept
<1>4. /\ rows \in Seq(Row \union {Null}) /\ rows' \in Seq(Row \union {Null})
      /\ DOMAIN rows' = DOMAIN rows
      /\ \A n \in DOMAIN rows \ {m} : rows'[n] = rows[n]
      /\ rows[m] = Null => rows' = rows /\ crossed' = crossed
      /\ rows[m] # Null =>
           /\ rows'[m] = Merged(j, row)
           /\ crossed' = IF Overtaken(j, row) THEN crossed \union {m} ELSE crossed
  <2>1. rows \in Seq(Row \union {Null})
    BY DEF Inv, TypeOK
  <2>2. CASE rows[m] = Null
    BY <1>0, <2>1, <2>2 DEF UpdateMoment
  <2>3. CASE rows[m] # Null
    <3>1. Merged(j, row) \in Row
      BY <1>0, <1>1, <2>3, MergedRow
    <3>2. rows' = [rows EXCEPT ![m] = Merged(j, row)]
          /\ crossed' = IF Overtaken(j, row) THEN crossed \union {m} ELSE crossed
      BY <1>0, <2>3 DEF UpdateMoment
    <3> QED
      BY <1>3, <2>1, <2>3, <3>1, <3>2
  <2> QED
    BY <2>2, <2>3
<1>5. Grows
  BY <1>1, <1>4 DEF Grows
<1>6. /\ at' \in [Requests -> Calls] /\ job' \in [Requests -> Job \union {Null}]
      /\ at'[r] = "reread" /\ job'[r] = j
      /\ \A q \in Requests \ {r} : JobKept(q)'
      /\ FormInv'
  <2>1. "reread" \in Calls /\ "reread" \notin Uploads \union {"insert"}
        /\ at[r] # "idle" /\ j.form = job[r].form
    BY <1>1 DEF Calls, Uploads
  <2> HIDE DEF j
  <2> QED
    BY <1>1, <1>2, <1>5, <2>1, GoOnStep
<1>7. JobKept(r)'
  BY <1>0, <1>1, <1>2, <1>3, <1>4, <1>6 DEF JobKept, Uploads, Saves
<1>8. \A n \in DOMAIN rows : rows'[n] # Null => Kept(rows'[n].image)
  <2>1. rows[m] # Null => Kept(Merged(j, row).image)
    BY <1>0, <1>1, MergedRow
  <2> HIDE DEF j, row
  <2> QED
    BY <1>3, <1>4, <2>1 DEF Inv, ImageInv, RowsKept
<1>9. RowsKept'
  BY <1>1, <1>4, <1>8 DEF Inv, ImageInv, RowsKept, Kept, Stored
<1>10. PhotoOfDate'
  <2>1. rows[m] # Null /\ ~Overtaken(j, row) =>
          (photo[row.image] = row.captured
             => photo[Merged(j, row).image] = Merged(j, row).captured)
    BY <1>0, <1>1, MergedRow
  <2>2. /\ rows[m] # Null => row = rows[m]
        /\ rows[m] # Null /\ m \notin crossed => photo[rows[m].image] = rows[m].captured
    BY <1>3 DEF Inv, PhotoOfDate
  <2> HIDE DEF j, row
  <2>3. rows'[m] # Null /\ m \notin crossed'
          => photo[rows'[m].image] = rows'[m].captured
    BY <1>3, <1>4, <2>1, <2>2
  <2>4. \A n \in DOMAIN rows \ {m} :
          rows'[n] # Null /\ n \notin crossed'
            => photo[rows'[n].image] = rows'[n].captured
    BY <1>4 DEF Inv, PhotoOfDate
  <2> QED
    BY <1>1, <1>4, <2>3, <2>4 DEF PhotoOfDate
<1>11. \A g \in Forms : FormKept(g)'
  BY <1>1, <1>5, FormStays DEF Inv, ImageInv
<1>12. ScreenShown'
  BY <1>1 DEF Inv, ImageInv, ScreenShown
<1>13. TypeOK'
  BY <1>1, <1>4, <1>6 DEF Inv, TypeOK
<1> QED
  BY <1>6, <1>7, <1>9, <1>10, <1>11, <1>12, <1>13 DEF Inv, ImageInv

LEMMA DeleteMomentKeepsInv ==
  ASSUME Inv, NEW r \in Requests, DeleteMoment(r)
  PROVE  Inv'
<1>0. PICK m : m = job[r].moment
  OBVIOUS
<1>1. at[r] = "delete" /\ UNCHANGED <<stamps, crossed, photo, objects>>
  BY DEF DeleteMoment, bucket
<1>2. CASE rows[m] = Null /\ Refuse(r) /\ UNCHANGED rows
  <2>1. Grows /\ UNCHANGED <<table, photo>>
    BY <1>1, <1>2 DEF Grows, table
  <2> QED
    BY <1>1, <1>2, <2>1, RefuseKeepsInv
<1>3. CASE /\ rows[m] # Null
           /\ rows' = [rows EXCEPT ![m] = Null]
           /\ Goto(r, "deleted")
           /\ UNCHANGED <<job, page>>
  <2>1. Hold(r, job[r]) /\ job[r] \in Job /\ JobKept(r)
    BY <1>1, <1>3, SameJob
  <2>2. m \in DOMAIN rows /\ job[r].form = Null
    BY <1>0, <1>1, <2>1 DEF JobKept
  <2>3. /\ rows' \in Seq(Row \union {Null})
        /\ DOMAIN rows' = DOMAIN rows
        /\ \A n \in DOMAIN rows : rows'[n] \in {rows[n], Null}
    BY <1>3, <2>2 DEF Inv, TypeOK
  <2>4. Grows
    BY <1>1, <2>3 DEF Grows
  <2>5. "deleted" \in Calls /\ "deleted" \notin Uploads \union {"insert"}
        /\ UNCHANGED <<form, screen, cached>>
    BY <1>3 DEF Calls, Uploads, page
  <2>6. /\ at' \in [Requests -> Calls] /\ job' \in [Requests -> Job \union {Null}]
        /\ at'[r] = "deleted" /\ job'[r] = job[r]
        /\ \A q \in Requests \ {r} : JobKept(q)'
        /\ FormInv'
    BY <1>1, <1>3, <2>1, <2>4, <2>5, GoOnStep
  <2>7. JobKept(r)'
    BY <1>0, <1>1, <2>1, <2>2, <2>3, <2>6 DEF JobKept, Uploads, Saves
  <2>8. RowsKept'
    BY <1>1, <2>3, <2>5 DEF Inv, ImageInv, RowsKept, Kept, Stored
  <2>9. PhotoOfDate' /\ ScreenShown'
    BY <1>1, <2>3, <2>5 DEF Inv, ImageInv, PhotoOfDate, ScreenShown
  <2>10. \A g \in Forms : FormKept(g)'
    BY <2>4, <2>5, FormStays DEF Inv, ImageInv
  <2>11. TypeOK'
    BY <1>1, <2>3, <2>5, <2>6 DEF Inv, TypeOK
  <2> QED
    BY <2>6, <2>7, <2>8, <2>9, <2>10, <2>11 DEF Inv, ImageInv
<1> QED
  BY <1>0, <1>2, <1>3 DEF DeleteMoment

\* Whom nobody holds is gone.
LEMMA LastingGone ==
  ASSUME NEW r \in Requests, NEW f \in Forms, NEW mounted, f # mounted, NEW state,
         \A q \in Requests \ {r} : at[q] # "idle" => job[q].form # f
  PROVE  Lasting(r, mounted, state)[f] = Null
BY DEF Lasting, Of

LEMMA SucceedKeepsInv ==
  ASSUME Inv, NEW r \in Requests, NEW fetched \in BOOLEAN,
         at[r] \in {"reread", "deleted"}, Succeed(r, fetched),
         UNCHANGED <<table, bucket>>
  PROVE  Inv'
<1>0. PICK f : f = job[r].form
  OBVIOUS
<1>00. PICK shown : shown = IF screen = Null THEN Null ELSE form[screen].moment
  OBVIOUS
<1> DEFINE row == IF fetched THEN rows[shown] ELSE Null
           stays == f = Null /\ (shown = Null \/ row # Null)
<1>1. /\ Finish(r)
      /\ cached' = IF shown = Null THEN cached ELSE [cached EXCEPT ![shown] = row]
      /\ screen' = IF stays THEN screen ELSE Null
      /\ form' = Lasting(r, screen', form)
  BY <1>0, <1>00 DEF Succeed
<1>2. /\ form \in [Forms -> FormState \union {Null}]
      /\ cached \in [Moments -> Row \union {Null}]
  BY DEF Inv, TypeOK
<1>3. shown # Null => shown \in Moments /\ shown \in DOMAIN rows
                      /\ row \in Row \union {Null}
  BY <1>00, MountedForm, MomentConstants
  DEF Inv, TypeOK, ImageInv, ScreenShown, FormKept, FormState
<1>4. Grows
  BY DEF Grows, table, bucket
<1>5. /\ at' \in [Requests -> Calls] /\ job' \in [Requests -> Job \union {Null}]
      /\ form' \in [Forms -> FormState \union {Null}]
      /\ \A g \in Forms : form'[g] \in {Null, form[g]}
      /\ screen' \in Forms => form'[screen'] = form[screen']
      /\ \A q \in Requests : JobKept(q)' /\ FormHeld(q)'
      /\ OneRequestPerForm'
      /\ \A g \in Forms :
           Unanswered(g) /\ ~(at[r] = "reread" /\ job[r].form = g)
             => Unanswered(g)'
  BY <1>1, <1>2, <1>4, EndStep
<1>6. f \in Forms => form'[f] = Null
  <2>1. SUFFICES ASSUME f \in Forms
                 PROVE  form'[f] = Null
    OBVIOUS
  <2>2. f # Null /\ screen' = Null
    BY <1>1, <2>1, MomentConstants
  <2>3. \A q \in Requests \ {r} : at[q] # "idle" => job[q].form # f
    BY <1>0, <2>2 DEF Inv, FormInv, OneRequestPerForm
  <2> QED
    BY <1>1, <2>1, <2>2, <2>3, LastingGone
<1>7. \A g \in Forms : FormKept(g)'
  BY <1>4, <1>5, FormStays DEF Inv, ImageInv
<1>8. \A g \in Forms : MadeCounted(g)'
  <2>1. SUFFICES ASSUME NEW g \in Forms
                 PROVE  MadeCounted(g)'
    OBVIOUS
  <2>2. CASE g = f
    BY <1>6, <2>2 DEF MadeCounted
  <2>3. CASE g # f
    BY <1>0, <1>5, <2>3, CountsStay DEF Inv, FormInv, Counted
  <2> QED
    BY <2>2, <2>3
<1>9. CacheFollows
  BY <1>1, <1>2, <1>3 DEF CacheFollows
<1>10. RowsKept'
  BY <1>4, <1>9, RowsStay DEF Inv, ImageInv, table
<1>11. ScreenShown'
  <2>1. SUFFICES ASSUME screen' # Null
                 PROVE  /\ form'[screen'] # Null
                        /\ form'[screen'].moment # Null
                             => cached'[form'[screen'].moment] # Null
    BY DEF ScreenShown
  <2>2. screen' = screen /\ screen # Null /\ (shown = Null \/ row # Null)
    BY <1>1, <2>1
  <2>3. screen \in Forms /\ form[screen] \in FormState /\ form[screen] # Null
    BY <2>2, MountedForm, MomentConstants
  <2>4. form'[screen'] = form[screen] /\ shown = form[screen].moment
    BY <1>00, <1>5, <2>2, <2>3
  <2>5. shown # Null => cached'[shown] # Null
    BY <1>1, <1>2, <1>3, <2>2
  <2> QED
    BY <2>3, <2>4, <2>5
<1>12. cached' \in [Moments -> Row \union {Null}] /\ screen' \in Forms \union {Null}
  <2>1. screen \in Forms \union {Null}
    BY DEF Inv, TypeOK
  <2> QED
    BY <1>1, <1>2, <1>3, <2>1
<1>13. TypeOK' /\ PhotoOfDate'
  BY <1>5, <1>12 DEF Inv, TypeOK, PhotoOfDate, table, bucket
<1> QED
  BY <1>5, <1>7, <1>8, <1>10, <1>11, <1>13 DEF Inv, ImageInv, FormInv

LEMMA AnswerKeepsInv ==
  ASSUME Inv, NEW r \in Requests, Answer(r)
  PROVE  Inv'
<1>1. at[r] \in {"reread", "deleted"} /\ UNCHANGED <<table, bucket>>
      /\ (Succeed(r, TRUE) \/ Succeed(r, FALSE))
  BY DEF Answer
<1> QED
  BY <1>1, SucceedKeepsInv

LEMMA AnswerGoneKeepsInv ==
  ASSUME Inv, NEW r \in Requests, AnswerGone(r)
  PROVE  Inv'
<1>1. at[r] = "reread" /\ Refuse(r) /\ UNCHANGED <<table, photo>> /\ Grows
  BY DEF AnswerGone, Grows, table, bucket
<1> QED
  BY <1>1, RefuseKeepsInv

LEMMA CallFailsKeepsInv ==
  ASSUME Inv, NEW r \in Requests, CallFails(r)
  PROVE  Inv'
<1>1. at[r] # "idle" /\ Refuse(r) /\ UNCHANGED <<table, photo>>
      /\ objects \subseteq objects'
  BY DEF CallFails
<1>2. Grows
  BY <1>1 DEF Grows, table
<1> QED
  BY <1>1, <1>2, RefuseKeepsInv

-----------------------------------------------------------------------------
(* The properties                                                          *)

LEMMA InitIsInv == Init => Inv
<1> SUFFICES ASSUME Init
             PROVE  Inv
  OBVIOUS
<1>1. /\ stamps = 0 /\ crossed = {} /\ screen = Null
      /\ cached = [m \in Moments |-> Null]
      /\ form = [f \in Forms |-> Null]
      /\ at = [r \in Requests |-> "idle"] /\ job = [r \in Requests |-> Null]
  BY DEF Init
<1>2. FormInv
  BY <1>1 DEF FormInv, FormHeld, OneRequestPerForm, MadeCounted
<1>3. /\ ScreenShown
      /\ \A f \in Forms : FormKept(f)
      /\ \A r \in Requests : JobKept(r)
  BY <1>1 DEF ScreenShown, FormKept, JobKept, Uploads, Saves
<1>4. /\ rows \in Seq(Row \union {Null}) /\ photo \in Seq(Files)
      /\ RowsKept /\ PhotoOfDate
  <2>1. CASE rows = <<>> /\ photo = <<>> /\ objects = {}
    BY <1>1, <2>1 DEF RowsKept, PhotoOfDate
  <2>2. ASSUME NEW file \in Files,
               rows = <<[image |-> 1, captured |-> file, status |-> "draft",
                         date |-> 0]>>,
               photo = <<file>>, objects = {1} \X Sizes
        PROVE  /\ rows \in Seq(Row \union {Null}) /\ photo \in Seq(Files)
               /\ RowsKept /\ PhotoOfDate
    <3> DEFINE row == [image |-> 1, captured |-> file, status |-> "draft", date |-> 0]
    <3>1. row \in Row /\ row.image = 1 /\ row.captured = file
      BY DEF Row, Statuses
    <3>2. rows = <<row>>
      BY <2>2
    <3> HIDE DEF row
    <3>3. /\ rows \in Seq(Row \union {Null}) /\ photo \in Seq(Files)
          /\ DOMAIN rows = {1} /\ rows[1] = row
          /\ DOMAIN photo = {1} /\ photo[1] = file
      BY <2>2, <3>1, <3>2
    <3>4. Stored(1)
      BY <2>2 DEF Stored
    <3> QED
      BY <1>1, <3>1, <3>3, <3>4 DEF RowsKept, PhotoOfDate, Kept
  <2> QED
    BY <2>1, <2>2 DEF Init
<1>5. TypeOK
  BY <1>1, <1>4 DEF TypeOK, Calls
<1> QED
  BY <1>2, <1>3, <1>4, <1>5 DEF Inv, ImageInv

LEMMA NextKeepsInv == Inv /\ [Next]_vars => Inv'
<1>1. ASSUME Inv, UNCHANGED vars
      PROVE  Inv'
  <2>1. UNCHANGED <<rows, stamps, crossed, photo, objects, cached, form, screen, at, job>>
    BY <1>1 DEF vars, table, bucket, page
  <2>2. TypeOK' /\ PhotoOfDate'
    BY <1>1, <2>1 DEF Inv, TypeOK, PhotoOfDate
  <2>3. RowsKept' /\ ScreenShown'
    BY <1>1, <2>1 DEF Inv, ImageInv, RowsKept, ScreenShown, Kept, Stored
  <2>4. Grows
    BY <2>1 DEF Grows
  <2>5. (\A f \in Forms : FormKept(f)') /\ (\A r \in Requests : JobKept(r)')
    BY <1>1, <2>1, <2>4, FormStays, JobStays DEF Inv, ImageInv
  <2>6. FormInv'
    BY <1>1, <2>1 DEF Inv, FormInv, FormHeld, OneRequestPerForm, MadeCounted, Unanswered
  <2> QED
    BY <2>2, <2>3, <2>5, <2>6 DEF Inv, ImageInv
<1>2. ASSUME Inv, Editing
      PROVE  Inv'
  BY <1>2, OpenNewKeepsInv, OpenEditKeepsInv, SetStatusKeepsInv,
     SelectFileKeepsInv, LeaveKeepsInv, RefetchKeepsInv DEF Editing
<1>3. ASSUME Inv, Pressing
      PROVE  Inv'
  <2>1. ASSUME NEW r \in Requests, NEW m \in Moments,
               \/ PressInList(r, m, "publish", "published")
               \/ PressInList(r, m, "withdraw", "draft")
               \/ PressInList(r, m, "delete", Null)
        PROVE  Inv'
    <3>1. /\ "publish" \in Kinds /\ "withdraw" \in Kinds /\ "delete" \in Kinds
          /\ "published" \in Statuses /\ "draft" \in Statuses
      BY DEF Kinds, Statuses
    <3> QED
      BY <1>3, <2>1, <3>1, PressInListKeepsInv
  <2> QED
    BY <1>3, <2>1, PressKeepsInv DEF Pressing
<1>4. ASSUME Inv, Calling
      PROVE  Inv'
  BY <1>4, PresignKeepsInv, PutObjectKeepsInv, InsertKeepsInv, FindMomentKeepsInv,
     UpdateMomentKeepsInv, DeleteMomentKeepsInv, AnswerKeepsInv,
     AnswerGoneKeepsInv, CallFailsKeepsInv DEF Calling
<1> QED
  BY <1>1, <1>2, <1>3, <1>4 DEF Next

LEMMA InvHolds == Spec => []Inv
BY InitIsInv, NextKeepsInv, PTL DEF Spec

\* Every variable keeps its type, for any photos, forms, requests and bounds:
\* no call of the page or the API reaches for a row, a form or a key that is
\* not there (moment-form.tsx:44-233, routes/moments.ts:141-212).
THEOREM MomentTypeCorrect == Spec => []TypeOK
<1>1. Inv => TypeOK
  BY DEF Inv
<1> QED
  BY <1>1, InvHolds, PTL

\* The photo of a row and its captured date come from one file, whatever was
\* previewed, chosen again or sent twice, unless an update crossed another one
\* of the row (moment-form.tsx:99-130, routes/moments.ts:183-196).
THEOREM PhotoOfDateHolds == Spec => []PhotoOfDate
<1>1. Inv => PhotoOfDate
  BY DEF Inv
<1> QED
  BY <1>1, InvHolds, PTL

\* A row refers to an image of which both sizes are stored: it is sent only
\* after both uploads were answered, and objects are never deleted
\* (upload-image.ts:18-28, moment-form.tsx:163-233).
THEOREM ImageStoredHolds == Spec => []ImageStored
<1>1. Inv => ImageStored
  BY DEF Inv, ImageInv, RowsKept, Kept, ImageStored
<1> QED
  BY <1>1, InvHolds, PTL

\* A form makes one moment more than it was left in the dark about, for any
\* number of forms and requests: a second submission waits for the first, and
\* a form that was answered is gone (moment-form.tsx:132-157, 399-416).
THEOREM OneMomentPerFormHolds == Spec => []OneMomentPerForm
<1>1. Inv => OneMomentPerForm
  BY DEF Inv, FormInv, MadeCounted, OneMomentPerForm
<1> QED
  BY <1>1, InvHolds, PTL

\* What a step does to the dates of the rows.
DatesKept ==
  \A m \in DOMAIN rows :
    rows[m] # Null /\ rows'[m] # Null /\ m \notin crossed'
      => rows[m].date \in {0, rows'[m].date}

LEMMA UpdateKeepsDates ==
  ASSUME Inv, NEW r \in Requests, UpdateMoment(r)
  PROVE  DatesKept
<1>0. PICK m : m = job[r].moment
  OBVIOUS
<1> DEFINE j == job[r]
           row == rows[m]
<1>1. at[r] = "update"
  BY DEF UpdateMoment
<1>2. rows \in Seq(Row \union {Null})
  BY DEF Inv, TypeOK
<1>3. CASE rows[m] = Null
  BY <1>0, <1>3 DEF UpdateMoment, DatesKept
<1>4. CASE rows[m] # Null
  <2>1. rows' = [rows EXCEPT ![m] = Merged(j, row)]
        /\ crossed' = IF Overtaken(j, row) THEN crossed \union {m} ELSE crossed
    BY <1>0, <1>4 DEF UpdateMoment
  <2>2. ~Overtaken(j, row) => row.date \in {0, Merged(j, row).date}
    BY <1>0, <1>1, <1>4, MergedRow
  <2> HIDE DEF j
  <2> QED
    BY <1>2, <2>1, <2>2 DEF DatesKept
<1> QED
  BY <1>3, <1>4

LEMMA StepKeepsDates == Inv /\ [Next]_vars => DatesKept
<1> SUFFICES ASSUME Inv, [Next]_vars
             PROVE  DatesKept
  OBVIOUS
<1>1. rows \in Seq(Row \union {Null})
  BY DEF Inv, TypeOK
<1>2. CASE rows' = rows
  BY <1>2 DEF DatesKept
<1>3. CASE \E r \in Requests : Insert(r)
  <2>1. PICK row : rows' = Append(rows, row)
    BY <1>3 DEF Insert
  <2>2. \A m \in DOMAIN rows : rows'[m] = rows[m]
    BY <1>1, <2>1
  <2> QED
    BY <2>2 DEF DatesKept
<1>4. CASE \E r \in Requests : UpdateMoment(r)
  BY <1>4, UpdateKeepsDates
<1>5. CASE \E r \in Requests : DeleteMoment(r)
  <2>1. PICK r \in Requests : DeleteMoment(r)
    BY <1>5
  <2>2. rows' = rows \/ rows' = [rows EXCEPT ![job[r].moment] = Null]
    BY <2>1 DEF DeleteMoment
  <2> QED
    BY <1>1, <2>2 DEF DatesKept
<1>6. Editing => rows' = rows
  BY DEF Editing, OpenNew, OpenEdit, Leave, Refetch, SelectFile, SetStatus, table
<1>7. Pressing => rows' = rows
  BY DEF Pressing, Press, PressInList, table
<1>8. Calling => \/ rows' = rows
                 \/ \E r \in Requests : Insert(r) \/ UpdateMoment(r) \/ DeleteMoment(r)
  BY DEF Calling, Presign, PutObject, FindMoment, Answer, AnswerGone, CallFails, table
<1>9. UNCHANGED vars => rows' = rows
  BY DEF vars, table
<1> QED
  BY <1>2, <1>3, <1>4, <1>5, <1>6, <1>7, <1>8, <1>9 DEF Next

\* The date of the first publication stays, through withdrawals, edits and
\* publications, unless an update crossed another one of the row: it is set
\* when the row that was read has none (routes/moments.ts:177-181).
THEOREM PublicationKeptHolds == Spec => PublicationKept
<1>1. Inv /\ [Next]_vars => DatesKept
  BY StepKeepsDates
<1>2. DatesKept <=>
        \A m \in DOMAIN rows :
          rows[m] # Null /\ rows'[m] # Null /\ m \notin crossed'
            => rows[m].date \in {0, rows'[m].date}
  BY DEF DatesKept
<1> QED
  BY <1>1, <1>2, InvHolds, PTL DEF Spec, PublicationKept
=============================================================================
