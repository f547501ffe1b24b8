------------------------------ MODULE TodoDay ------------------------------
(***************************************************************************)
(* The checklist of a day (admin-api: routes/todo.ts, todo/batch.ts,       *)
(* todo/templates.ts, todo/tree.ts; admin-web: checklist-markdown.ts).     *)
(*                                                                         *)
(* The settings page turns the bullets of a text into a template, a tree   *)
(* of items.  From the generation time on, an invocation of the Lambda     *)
(* every five minutes copies the template into the list of the local day;  *)
(* the button of the page and the first save of the settings do the same.  *)
(* Ticking an item ticks everything below it.                              *)
(*                                                                         *)
(* Every statement is a step of its own, so batches (EventBridge delivers  *)
(* at least once), clicks and saves overlap, and any of them may be lost   *)
(* between two statements.  One user: all queries are by user_id.  The API *)
(* is called with any arguments, whatever a page shows.                    *)
(***************************************************************************)
EXTENDS Integers, SequencesExt

CONSTANTS
  Workers,    \* concurrent invocations of the admin-api Lambda
  Bodies,     \* settings a client may send: [text, items, zone, at]
  HalfDays,   \* generation times and times of day: 0 .. HalfDays - 1
  MaxClock,   \* bound: the clock stops here
  MaxSaves,   \* bound: saves of the settings
  MaxClicks,  \* bound: items ticked or unticked
  MaxCrashes, \* bound: invocations that fail
  MaxEvents,  \* bound: saves, clicks and failures together
  Null

VARIABLES
  clock,      \* the time, in units of which HalfDays make a day
  settings,   \* todo_settings: Null or [text, zone, at]
  template,   \* todo_template_items: template id -> [parent, period]
  crossed,    \* history: have two transactions of saves been open at once,
              \* neither of which had found a row to delete?
  saves,      \* number of saves that have drawn ids (ulid)
  clicks,     \* number of items ticked or unticked
  crashes,    \* number of invocations that have failed
  daily,      \* todo_daily_items: daily id -> [parent, period, done]
  work        \* what each invocation is doing and holds

vars == <<clock, settings, template, crossed, saves, clicks, crashes, daily, work>>

Periods == {"morning", "bedtime"}
Idle == [at |-> "idle"]

\* What the schema of PUT /todo/settings lets through (schemas/todo.ts), with
\* the keys of parents as positions.
ASSUME BodiesAssumption ==
  \A body \in Bodies :
    /\ body.items \in Seq([parent : Nat, period : Periods])
    /\ body.zone \in Int

ASSUME TodoAssumption ==
  /\ HalfDays \in Nat \ {0}
  /\ Null \notin Nat \X Nat
  /\ Null \notin Int \X (Nat \X Nat)

(***************************************************************************)
(* From text to template (checklist-markdown.ts).  A text is a sequence of *)
(* headings, of a period or of something else, and of bullets; other lines *)
(* are skipped by the code and left out here.  An item refers to its       *)
(* parent by position; 0 is no parent.                                     *)
(***************************************************************************)
Line == [heading : Periods \cup {Null}] \cup [indent : Nat]

\* What is left of a stack when its top is popped until it is indented less.
\* Slip: an equal indentation stays.
Deeper(stack, indent) ==
  SubSeq(stack, 1, Max({0} \cup {n \in DOMAIN stack : stack[n].indent <= indent}))
Enclosing(stack, indent) ==
  SubSeq(stack, 1, Max({0} \cup {n \in DOMAIN stack : stack[n].indent < indent}))

Heading(s, line) == [s EXCEPT !.period = line.heading]

Bullet(s, line) ==
  LET stack  == Enclosing(s.stacks[s.period], line.indent)
      parent == IF stack = <<>> THEN 0 ELSE Last(stack).item
      n      == Len(s.items) + 1
  IN [s EXCEPT
       !.items = Append(@, [parent |-> parent, period |-> s.period]),
       !.stacks[s.period] =
          Append(stack, [indent |-> line.indent, item |-> n])]

ParsedLine(s, line) ==
  IF "heading" \in DOMAIN line THEN Heading(s, line)
  ELSE IF s.period = Null THEN s
  ELSE Bullet(s, line)

NoItems == [period |-> Null, items |-> <<>>, stacks |-> [p \in Periods |-> <<>>]]

\* Parse(text)[k]: after the first k lines.
Parse(text) ==
  LET parsed[k \in Nat] ==
        IF k = 0 THEN NoItems ELSE ParsedLine(parsed[k - 1], text[k])
  IN parsed

ParseChecklistMarkdown(text) == Parse(text)[Len(text)].items

\* A page sends its text with what it has parsed; of other clients the text
\* is Null.
ASSUME PageAssumption ==
  \A body \in Bodies : body.text # Null =>
    body.text \in Seq(Line) /\ body.items = ParseChecklistMarkdown(body.text)

(***************************************************************************)
(* What the server accepts (templates.ts).  Keys are positions, so they    *)
(* are unique here.                                                        *)
(***************************************************************************)
NotOwnParent(items) == \A n \in DOMAIN items : items[n].parent # n
Acyclic(items) ==
  \A S \in (SUBSET DOMAIN items) \ {{}} : \E n \in S : items[n].parent \notin S

ValidTemplate(items) ==
  /\ \A n \in DOMAIN items :
       items[n].parent # 0 =>
         /\ items[n].parent \in DOMAIN items
         /\ items[items[n].parent].period = items[n].period
  /\ Acyclic(items)

\* The rows of todo_template_items for the items of a save; id is the number
\* of the save, for the fresh ids it has drawn.
TemplateRows(items, id) ==
  [t \in {<<id, n>> : n \in DOMAIN items} |->
     LET item == items[t[2]] IN
     [parent |-> IF item.parent = 0 THEN Null ELSE <<id, item.parent>>,
      period |-> item.period]]

(***************************************************************************)
(* From template to day (batch.ts).                                        *)
(***************************************************************************)
LocalDate(instant, zone) == (instant + zone) \div HalfDays
LocalTime(instant, zone) == (instant + zone) % HalfDays

DueAfter(s, instant) == LocalTime(instant, s.zone) > s.at
Due(s, instant) == LocalTime(instant, s.zone) >= s.at

DailyItemId(date, t) == <<date, t>>

DailyParent(date, parent) ==
  IF parent = Null THEN Null ELSE DailyItemId(date, parent)

DailyRows(rows, date) ==
  [i \in {DailyItemId(date, t) : t \in DOMAIN rows} |->
     [parent |-> DailyParent(date, rows[i[2]].parent),
      period |-> rows[i[2]].period, done |-> FALSE]]

ItemsOf(date) == {i \in DOMAIN daily : i[1] = date}

MissingLevel(rows, existing) ==
  {i \in DOMAIN rows : i \notin existing /\ rows[i].parent \in existing \cup {Null}}
Missing(rows, existing) == DOMAIN rows \ existing

\* INSERT IGNORE keeps a row that is there; an upsert would not.
Upserted(old, new) == new @@ old
InsertIgnored(old, new) ==
  [i \in DOMAIN old \cup DOMAIN new |-> IF i \in DOMAIN old THEN old[i] ELSE new[i]]

\* collectDescendantIds: the root and everything below it.  Below[k][i]: the
\* root is found from i in at most k steps upwards.
Below(rows, root) ==
  LET below[k \in Nat] ==
        [i \in DOMAIN rows |->
           \/ i = root
           \/ k > 0 /\ rows[i].parent \in DOMAIN rows /\ below[k - 1][rows[i].parent]]
  IN below

Descendants(rows, root) ==
  {root} \cup {i \in DOMAIN rows : Below(rows, root)[Cardinality(DOMAIN rows)][i]}

-----------------------------------------------------------------------------
Init ==
  /\ clock = 0
  /\ settings = Null
  /\ template = <<>>
  /\ crossed = FALSE
  /\ saves = 0
  /\ clicks = 0 /\ crashes = 0
  /\ daily = <<>>
  /\ work = [w \in Workers |-> Idle]

Events == saves + clicks + crashes
Goto(w, next) == work' = [work EXCEPT ![w] = next]
Generating(date) == [at |-> "templates", date |-> date]

\* The batch reads the settings and passes over a user whose hour has not come.
Batch(w) ==
  /\ work[w] = Idle
  /\ settings # Null
  /\ Due(settings, clock)
  /\ Goto(w, Generating(LocalDate(clock, settings.zone)))
  /\ UNCHANGED <<clock, settings, template, crossed, saves, clicks, crashes, daily>>

\* POST /todo/generate; without settings it answers 409.
GenerateByHand(w) ==
  /\ work[w] = Idle
  /\ settings # Null
  /\ Goto(w, Generating(LocalDate(clock, settings.zone)))
  /\ UNCHANGED <<clock, settings, template, crossed, saves, clicks, crashes, daily>>

ReadTemplates(w) ==
  /\ work[w].at = "templates"
  /\ Goto(w, IF template = <<>> THEN Idle
             ELSE [at |-> "existing", date |-> work[w].date,
                   rows |-> DailyRows(template, work[w].date)])
  /\ UNCHANGED <<clock, settings, template, crossed, saves, clicks, crashes, daily>>

ReadExisting(w) ==
  /\ work[w].at = "existing"
  /\ LET missing == Missing(work[w].rows, ItemsOf(work[w].date)) IN
     Goto(w, IF missing = {} THEN Idle
             ELSE [at |-> "insert", rows |-> Restrict(work[w].rows, missing)])
  /\ UNCHANGED <<clock, settings, template, crossed, saves, clicks, crashes, daily>>

Insert(w) ==
  /\ work[w].at = "insert"
  /\ daily' = InsertIgnored(daily, work[w].rows)
  /\ Goto(w, Idle)
  /\ UNCHANGED <<clock, settings, template, crossed, saves, clicks, crashes>>

\* PUT /todo/settings up to the draw of the ids: a body that is not a tree is
\* refused, and whether there was a template is read before the transaction.
SaveSettings(w) ==
  /\ work[w] = Idle
  /\ saves < MaxSaves /\ Events < MaxEvents
  /\ \E body \in Bodies :
       /\ ValidTemplate(body.items)
       /\ Goto(w, [at |-> "delete", body |-> body, id |-> saves + 1,
                   first |-> template = <<>>])
  /\ saves' = saves + 1
  /\ UNCHANGED <<clock, settings, template, crossed, clicks, crashes, daily>>

\* The transaction begins: the DELETE locks the committed rows until the end,
\* and waits for those another transaction has locked.  Where it finds none it
\* locks nothing: TiDB has no locks on gaps.  Slip: without a transaction the
\* locks of a statement end with it.
Open(w) == work[w].at = "replace"

NoLocks == TRUE
RowsFree == \A v \in Workers : Open(v) => work[v].deleted \cap DOMAIN template = {}

DeleteTemplate(w) ==
  /\ work[w].at = "delete"
  /\ RowsFree
  /\ crossed' = \/ crossed
                \/ template = <<>> /\ \E v \in Workers : Open(v) /\ work[v].deleted = {}
  /\ Goto(w, [at |-> "replace", body |-> work[w].body, id |-> work[w].id,
              first |-> work[w].first, deleted |-> DOMAIN template])
  /\ UNCHANGED <<clock, settings, template, saves, clicks, crashes, daily>>

\* The INSERT, the upsert of the settings and the commit, and the decision to
\* generate at once.  The row of the settings is locked from its upsert to the
\* commit, so these follow one another as one step does.
SettingsOf(body) == [text |-> body.text, zone |-> body.zone, at |-> body.at]

Replaced(rows, deleted, inserted) ==
  [t \in (DOMAIN rows \ deleted) \cup DOMAIN inserted |->
     IF t \in DOMAIN inserted THEN inserted[t] ELSE rows[t]]

ReplaceTemplate(w) ==
  /\ Open(w)
  /\ LET body == work[w].body IN
     /\ template' = Replaced(template, work[w].deleted,
                              TemplateRows(body.items, work[w].id))
     /\ settings' = SettingsOf(body)
     /\ Goto(w, IF work[w].first /\ body.items # <<>>
                THEN Generating(LocalDate(clock, body.zone))
                ELSE Idle)
  /\ UNCHANGED <<clock, crossed, saves, clicks, crashes, daily>>

\* PATCH /todo/items/:id reads the item, then the items of its day, and ticks
\* or unticks what it has found.
FindItem(w) ==
  /\ work[w] = Idle
  /\ clicks < MaxClicks /\ Events < MaxEvents
  /\ clicks' = clicks + 1
  /\ \E i \in DOMAIN daily, completed \in BOOLEAN :
       Goto(w, [at |-> "day", item |-> i, completed |-> completed])
  /\ UNCHANGED <<clock, settings, template, crossed, saves, crashes, daily>>

ReadDay(w) ==
  /\ work[w].at = "day"
  /\ LET rows == Restrict(daily, ItemsOf(work[w].item[1])) IN
     Goto(w, [at |-> "update", completed |-> work[w].completed,
              item |-> work[w].item, ids |-> Descendants(rows, work[w].item)])
  /\ UNCHANGED <<clock, settings, template, crossed, saves, clicks, crashes, daily>>

UpdateItems(w) ==
  /\ work[w].at = "update"
  /\ daily' = [i \in DOMAIN daily |->
                 IF i \in work[w].ids
                 THEN [daily[i] EXCEPT !.done = work[w].completed]
                 ELSE daily[i]]
  /\ Goto(w, Idle)
  /\ UNCHANGED <<clock, settings, template, crossed, saves, clicks, crashes>>

\* A statement fails or the environment is lost: the rest is not executed, and
\* an open transaction is rolled back.
Crash(w) ==
  /\ work[w] # Idle
  /\ crashes < MaxCrashes /\ Events < MaxEvents
  /\ crashes' = crashes + 1
  /\ Goto(w, Idle)
  /\ UNCHANGED <<clock, settings, template, crossed, saves, clicks, daily>>

Tick ==
  /\ clock < MaxClock
  /\ clock' = clock + 1
  /\ UNCHANGED <<settings, template, crossed, saves, clicks, crashes, daily, work>>

Generate(w) == ReadTemplates(w) \/ ReadExisting(w) \/ Insert(w)
Save(w) == SaveSettings(w) \/ DeleteTemplate(w) \/ ReplaceTemplate(w)
Toggle(w) == FindItem(w) \/ ReadDay(w) \/ UpdateItems(w)

Next ==
  \/ \E w \in Workers :
       Batch(w) \/ GenerateByHand(w) \/ Generate(w) \/ Save(w) \/ Toggle(w) \/ Crash(w)
  \/ Tick

\* The steps that need nobody: EventBridge goes on invoking, and an invocation
\* that has started goes on.
Advance(w) ==
  \/ Batch(w) \/ Generate(w) \/ DeleteTemplate(w) \/ ReplaceTemplate(w)
  \/ ReadDay(w) \/ UpdateItems(w)

Fairness == \A w \in Workers : WF_vars(Advance(w))

Spec == Init /\ [][Next]_vars
FairSpec == Spec /\ Fairness

-----------------------------------------------------------------------------
\* The page draws a day from its roots downwards and by period
\* (todo-page.tsx:49-94): every item of a day hangs on a root through items
\* of its own day and period, so none is hidden, whatever generations, saves
\* and failures have overlapped.
EveryItemShown ==
  \A i \in DOMAIN daily :
    \E root \in ItemsOf(i[1]) :
      /\ daily[root].parent = Null
      /\ daily[root].period = daily[i].period
      /\ i \in Descendants(Restrict(daily, {j \in ItemsOf(i[1]) :
                                              daily[j].period = daily[root].period}), root)

\* What the user edits next time is what the batch copies: the outline of the
\* stored text, each bullet under the nearest bullet before it in its period
\* that is indented less (todo.ts:441-474, checklist-markdown.ts:25-57).  It is
\* in the template however saves and failures overlap, as one save's whole
\* outline.  And it is all of the template, also when saves overlap, as long as
\* the locks of the DELETE part them: until two of them have found no row to
\* lock, the template then being the union of both.
PeriodAt(text, k) ==
  LET headings == {j \in 1 .. k : "heading" \in DOMAIN text[j]} IN
  IF headings = {} THEN Null ELSE text[Max(headings)].heading

BulletsOf(text) ==
  {k \in DOMAIN text : "indent" \in DOMAIN text[k] /\ PeriodAt(text, k) # Null}

\* The position of the item of a bullet.
NumberOf(text, k) == Cardinality({j \in BulletsOf(text) : j <= k})

\* The bullets a bullet may hang below.
Shallower(text, k) ==
  {j \in BulletsOf(text) : /\ j < k
                           /\ PeriodAt(text, j) = PeriodAt(text, k)
                           /\ text[j].indent < text[k].indent}

IsOutline(rows, text) ==
  /\ {t[2] : t \in DOMAIN rows} = {NumberOf(text, k) : k \in BulletsOf(text)}
  /\ \A t \in DOMAIN rows, k \in BulletsOf(text) : t[2] = NumberOf(text, k) =>
       /\ rows[t].period = PeriodAt(text, k)
       /\ rows[t].parent =
            IF Shallower(text, k) = {} THEN Null
            ELSE <<t[1], NumberOf(text, Max(Shallower(text, k)))>>

RowsOfSave(id) == Restrict(template, {t \in DOMAIN template : t[1] = id})

TemplateIsOutline ==
  settings # Null /\ settings.text # Null =>
    /\ \E id \in 1 .. saves : IsOutline(RowsOfSave(id), settings.text)
    /\ ~crossed => IsOutline(template, settings.text)

\* What was ticked stays ticked, and no item is lost, through repeated and
\* overlapping batches, generations by hand and edits; only an untick of the
\* item or of one above it opens it again (batch.ts:44).
TickedStays ==
  [][\A i \in DOMAIN daily :
       /\ i \in DOMAIN daily'
       /\ daily[i].done /\ ~daily'[i].done =>
            \E w \in Workers :
              /\ work[w].at = "update" /\ ~work[w].completed
              /\ i \in Descendants(daily, work[w].item)]_vars

\* A tick takes its whole subtree with it although the items of the day were
\* read two statements before the update and a batch may insert in between
\* (todo.ts:495-526): nothing below the item is left as it was.
TickTakesSubtree ==
  [][\A w \in Workers :
       work[w].at = "update" /\ work'[w] = Idle /\ daily' # daily =>
         \A i \in Descendants(daily', work[w].item) :
           daily'[i].done = work[w].completed]_vars

\* When its hour has come, today's list is there in the end: repeated by the
\* next batch when one fails, and never missed because saves and batches
\* overlap (batch.ts:48-57).  Time may stand still at any moment.
HourHasCome ==
  settings # Null /\ LocalTime(clock, settings.zone) >= settings.at

TodayComes ==
  (HourHasCome /\ template # <<>>)
    ~> \/ ItemsOf(LocalDate(clock, settings.zone)) # {}
       \/ template = <<>>
       \/ ~HourHasCome

\* "Later edits take effect from the next morning's snapshot"
\* (todo.ts:476): the items of a day come from one save of the settings.
DayOfOneTemplate ==
  \A i, j \in DOMAIN daily : i[1] = j[1] => i[2][1] = j[2][1]
=============================================================================
