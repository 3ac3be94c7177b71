------------------------------ MODULE RecordSave ------------------------------
(***************************************************************************)
(* lmbActiveRecord::save of objects that refer to each other, within one   *)
(* request whose statements lmbAutoTransactionConnection gathers into a    *)
(* transaction and lmbAutoDbTransactionFilter commits.                     *)
(*                                                                         *)
(* As in the package's tests, a course has many lectures and a lecture     *)
(* belongs to a course, which may be null.  Saving a lecture saves its new *)
(* course first, saving a course saves the lectures that were added to it  *)
(* afterwards: the calls nest and come back to objects being saved.        *)
(* The stack of calls is in the state, a frame for every _doSave.          *)
(*                                                                         *)
(* An exception may be raised at any step, by a listener, a validator or   *)
(* the database.  It ends the request unless trySave was called.           *)
(***************************************************************************)
EXTENDS Integers, Sequences, SequencesExt

CONSTANTS
  Courses, Lectures,  \* the objects of a request
  Null,
  Tries     \* the caller also calls trySave

Objects == Courses \union Lectures

ASSUME RecordSaveConstants ==
  /\ Courses \intersect Lectures = {} /\ Null \notin Objects \union Int
  /\ Objects \intersect Int = {}  \* an object is no id
  /\ Tries \in BOOLEAN

VARIABLES
  obj,      \* the fields of each object, _is_new, _is_being_saved, _dirty_props
  added,    \* course -> lectures added to it while it was new
  rows,     \* both tables as the request sees them
  stored,   \* both tables as committed
  in_tx,    \* is_in_transaction
  next_id,  \* the next id the database gives
  stack,    \* calls of _doSave, the innermost first
  trying,   \* the outermost call is a trySave
  request,  \* "open", "done" or "failed"
  answer,   \* the object whose save has just returned, or Null
  meant     \* lecture -> what the caller last made its course: a course or an id

tables == <<rows, stored, in_tx, next_id>>
vars == <<obj, added, tables, stack, trying, request, answer, meant>>

-----------------------------------------------------------------------------
\* isNew
IsNew(x) == obj[x].new \/ obj[x].id = Null

\* set('course', c): the property is dirty unless c has the id that is stored.
WithCourse(o, c) ==
  [o EXCEPT !.course = c,
            !.dirty = IF c # Null /\ obj[c].id = o.course_id THEN @ ELSE @ \union {"course"}]

\* set('course_id', i)
WithCourseId(o, i) ==
  [o EXCEPT !.course_id = i,
            !.dirty = IF i = o.course_id THEN @ ELSE @ \union {"course_id"}]

Row(x) == [of |-> x, id |-> obj[x].id, title |-> obj[x].title, course_id |-> obj[x].course_id]

\* An object made with new, or loaded from a row.
Fresh == [new |-> TRUE, id |-> Null, title |-> 0, course |-> Null, course_id |-> Null,
          dirty |-> {"title"}, saving |-> FALSE]
Loaded(i, c) == [Fresh EXCEPT !.new = FALSE, !.id = i, !.course_id = c, !.dirty = {}]

\* The tables are empty, or hold one lecture and its course.
Init ==
  \E old \in BOOLEAN :
    LET c == CHOOSE x \in Courses : TRUE
        l == CHOOSE x \in Lectures : TRUE
    IN /\ obj = [x \in Objects |-> CASE old /\ x = c -> Loaded(1, Null)
                                     [] old /\ x = l -> Loaded(2, 1)
                                     [] OTHER -> Fresh]
       /\ rows = {Row(x) : x \in {y \in Objects : ~ IsNew(y)}}
       /\ stored = rows
       /\ added = [x \in Courses |-> <<>>]
       /\ in_tx = FALSE
       /\ next_id = 3
       /\ stack = <<>>
       /\ trying = FALSE
       /\ request = "open"
       /\ answer = Null
       /\ meant = [x \in Lectures |-> obj[x].course_id]

-----------------------------------------------------------------------------
\* EachOnce: no check whether the object is being saved.
SavingMutant(x, objects) == FALSE
\* The guard at the start of _doSave.
Saving(x, objects) == objects[x].saving

\* Whether x is inserted or updated is decided before its relations are saved.
Frame(x) == [of |-> x, insert |-> IsNew(x), pc |-> "relations", rest |-> <<>>]

\* x->save() is called, with the objects as they then are, from the frames below.
Call(x, objects, frames) ==
  IF Saving(x, objects)
  THEN obj' = objects /\ stack' = frames
  ELSE /\ obj' = [objects EXCEPT ![x].saving = TRUE]
       /\ stack' = <<Frame(x)>> \o frames

\* The caller's code runs.
Free == stack = <<>> /\ request = "open"

SetTitle(x) ==
  /\ Free
  /\ obj' = [obj EXCEPT ![x].title = 1,
                        ![x].dirty = IF obj[x].title = 1 THEN @ ELSE @ \union {"title"}]
  /\ answer' = Null
  /\ UNCHANGED <<added, tables, stack, trying, request, meant>>

Waiting(l) == \E c \in Courses : Contains(added[c], l)

\* A lecture that waits in a collection is not given another course.
SetCourse(l, c) ==
  /\ Free /\ ~ Waiting(l)
  /\ obj' = [obj EXCEPT ![l] = WithCourse(@, c)]
  /\ meant' = [meant EXCEPT ![l] = c]
  /\ answer' = Null
  /\ UNCHANGED <<added, tables, stack, trying, request>>

\* A column set beside a dirty property is overwritten by it
\* (testChangingParentIdRelationFieldDirectlyDoesNotWorkIfParentObjectIsDirty).
SetCourseId(l, i) ==
  /\ Free /\ i # Null /\ ~ Waiting(l)
  /\ obj' = [obj EXCEPT ![l] = WithCourseId(@, i)]
  /\ meant' = IF "course" \in obj[l].dirty THEN meant ELSE [meant EXCEPT ![l] = i]
  /\ answer' = Null
  /\ UNCHANGED <<added, tables, stack, trying, request>>

\* c->getLectures()->add(l): kept with a new course, else saved at once.
AddLecture(c, l) ==
  /\ Free /\ ~ Waiting(l)
  /\ IF IsNew(c) \/ added[c] # <<>>
     THEN /\ obj' = [obj EXCEPT ![l] = WithCourse(@, c)]
          /\ added' = [added EXCEPT ![c] = Append(@, l)]
          /\ UNCHANGED stack
     ELSE /\ Call(l, [obj EXCEPT ![l] = WithCourseId(WithCourse(@, c), obj[c].id)], <<>>)
          /\ UNCHANGED added
  /\ meant' = [meant EXCEPT ![l] = c]
  /\ trying' = FALSE
  /\ answer' = Null
  /\ UNCHANGED <<tables, request>>

\* save() or trySave() of x.  A call that the guard turns away has returned.
Save(x, try) ==
  /\ Free /\ (try => Tries)
  /\ Call(x, obj, <<>>)
  /\ trying' = try
  /\ answer' = IF Saving(x, obj) THEN x ELSE Null
  /\ UNCHANGED <<added, tables, request, meant>>

-----------------------------------------------------------------------------
At(x, pc) == stack # <<>> /\ stack[1].of = x /\ stack[1].pc = pc

\* The innermost call goes on at pc.
GoTo(pc) == stack' = [stack EXCEPT ![1].pc = pc]

\* _savePreRelationObject returns at once for a column that was set directly.
FieldWins(x) == "course_id" \in obj[x].dirty /\ "course" \notin obj[x].dirty

\* Nothing to do before x is written.
NoRelations(x) ==
  /\ At(x, "relations")
  /\ x \in Courses \/ FieldWins(x) \/ (obj[x].course = Null /\ "course" \notin obj[x].dirty)
  /\ obj' = IF FieldWins(x) /\ obj[x].course_id = Null
            THEN [obj EXCEPT ![x].course = Null] ELSE obj
  /\ GoTo("write")
  /\ UNCHANGED <<added, tables, trying, request, answer, meant>>

\* The course has been set to null.
ForgetCourse(x) ==
  /\ At(x, "relations") /\ x \in Lectures /\ ~ FieldWins(x)
  /\ obj[x].course = Null /\ "course" \in obj[x].dirty
  /\ obj' = [obj EXCEPT ![x].course_id = Null, ![x].dirty = @ \union {"course_id"}]
  /\ GoTo("write")
  /\ UNCHANGED <<added, tables, trying, request, answer, meant>>

\* A new course is saved before its lecture.
SaveCourse(x) ==
  /\ At(x, "relations") /\ x \in Lectures /\ ~ FieldWins(x) /\ obj[x].course # Null
  /\ LET frames == [stack EXCEPT ![1].pc = "assign"]
     IN IF IsNew(obj[x].course) THEN Call(obj[x].course, obj, frames)
        ELSE stack' = frames /\ UNCHANGED obj
  /\ UNCHANGED <<added, tables, trying, request, answer, meant>>

\* KeepsCourseObject: the column is only filled, never changed.
AssignCourseMutant(x) ==
  /\ At(x, "assign")
  /\ obj' = [obj EXCEPT ![x] = IF @.course_id = Null THEN WithCourseId(@, obj[obj[x].course].id)
                                                    ELSE @]
  /\ GoTo("write")
  /\ UNCHANGED <<added, tables, trying, request, answer, meant>>

\* The lecture takes the id of its course.
AssignCourse(x) ==
  /\ At(x, "assign")
  /\ obj' = [obj EXCEPT ![x] = WithCourseId(@, obj[obj[x].course].id)]
  /\ GoTo("write")
  /\ UNCHANGED <<added, tables, trying, request, answer, meant>>

MustInsert(x) == At(x, "write") /\ stack[1].insert

\* x is written; then come the lectures that wait in its collection.
Collect(x) ==
  stack' = [stack EXCEPT ![1].pc = "collection",
                         ![1].rest = IF x \in Courses THEN added[x] ELSE <<>>]

\* newStatement of a modifying statement begins a transaction.
Insert(x) ==
  /\ MustInsert(x)
  /\ obj' = [obj EXCEPT ![x].new = FALSE, ![x].id = next_id]
  /\ rows' = rows \union {[Row(x) EXCEPT !.id = next_id]}
  /\ next_id' = next_id + 1
  /\ in_tx' = TRUE
  /\ Collect(x)
  /\ UNCHANGED <<added, stored, trying, request, answer, meant>>

MustUpdate(x) == At(x, "write") /\ ~ stack[1].insert /\ obj[x].dirty # {}

\* SavedMeansStored: the column of the relation is left out of the update.
ColumnsMutant(x) == obj[x].dirty \intersect {"title"}
\* The dirty properties that are columns of the table.
Columns(x) == obj[x].dirty \intersect {"title", "course_id"}

Updated(r, x) ==
  [r EXCEPT !.title = IF "title" \in Columns(x) THEN obj[x].title ELSE @,
            !.course_id = IF "course_id" \in Columns(x) THEN obj[x].course_id ELSE @]

Update(x) ==
  /\ MustUpdate(x) /\ Columns(x) # {}
  /\ rows' = {IF r.id = obj[x].id THEN Updated(r, x) ELSE r : r \in rows}
  /\ in_tx' = TRUE
  /\ Collect(x)
  /\ UNCHANGED <<obj, added, stored, next_id, trying, request, answer, meant>>

NothingToWrite(x) ==
  /\ At(x, "write") /\ ~ stack[1].insert /\ obj[x].dirty = {}
  /\ Collect(x)
  /\ UNCHANGED <<obj, added, tables, trying, request, answer, meant>>

\* SaveReturns: the collection is not iterated but begun again.
RestMutant(rest) == rest
Rest(rest) == Tail(rest)

SaveLecture(x) ==
  /\ At(x, "collection") /\ stack[1].rest # <<>>
  /\ LET l == Head(stack[1].rest)
     IN Call(l, [obj EXCEPT ![l] = WithCourseId(@, obj[x].id)],
             [stack EXCEPT ![1].rest = Rest(@)])
  /\ UNCHANGED <<added, tables, trying, request, answer, meant>>

Finish(x) ==
  /\ At(x, "collection") /\ stack[1].rest = <<>>
  /\ obj' = [obj EXCEPT ![x].dirty = {}, ![x].saving = FALSE]
  /\ added' = IF x \in Courses THEN [added EXCEPT ![x] = <<>>] ELSE added
  /\ stack' = Tail(stack)
  /\ answer' = IF Len(stack) = 1 THEN x ELSE Null
  /\ UNCHANGED <<tables, trying, request, meant>>

-----------------------------------------------------------------------------

\* An exception leaves every call on the stack: each rolls back, the first one
\* ends the transaction.  The flags and ids of the objects stay as they are.
\* trySave catches it, else it reaches the filter and ends the request.
Raise ==
  /\ rows' = IF in_tx THEN stored ELSE rows
  /\ in_tx' = FALSE
  /\ stack' = <<>>
  /\ request' = IF trying THEN "open" ELSE "failed"
  /\ answer' = Null
  /\ UNCHANGED <<added, stored, next_id, trying, meant>>

\* The validator refuses x.
Invalid(x) ==
  /\ MustInsert(x) \/ MustUpdate(x)
  /\ obj' = [obj EXCEPT ![x].saving = FALSE]
  /\ Raise

\* A listener or the database raises an exception.
Fail(x) ==
  /\ stack # <<>> /\ stack[1].of = x /\ stack[1].pc # "assign"
  /\ Raise
  /\ UNCHANGED obj

\* Only the property is dirty, no column: the statement is UPDATE ... SET with
\* nothing to set, which the database refuses.
EmptyUpdate(x) ==
  /\ MustUpdate(x) /\ Columns(x) = {}
  /\ Raise
  /\ UNCHANGED obj

\* CommitsAll: the transaction is left to be undone when the connection closes.
EndMutant ==
  /\ Free
  /\ rows' = stored
  /\ in_tx' = FALSE
  /\ request' = "done"
  /\ answer' = Null
  /\ UNCHANGED <<obj, added, stored, next_id, stack, trying, meant>>

\* The request ends without an exception, and the filter commits.
End ==
  /\ Free
  /\ stored' = IF in_tx THEN rows ELSE stored
  /\ in_tx' = FALSE
  /\ request' = "done"
  /\ answer' = Null
  /\ UNCHANGED <<obj, added, rows, next_id, stack, trying, meant>>

Step(x) ==
  \/ NoRelations(x) \/ ForgetCourse(x) \/ SaveCourse(x) \/ AssignCourse(x)
  \/ Insert(x) \/ Update(x) \/ NothingToWrite(x)
  \/ SaveLecture(x) \/ Finish(x)
  \/ Invalid(x) \/ Fail(x) \/ EmptyUpdate(x)

Next ==
  \/ \E x \in Objects : SetTitle(x) \/ Step(x)
  \/ \E x \in Objects, try \in BOOLEAN : Save(x, try)
  \/ \E l \in Lectures, c \in Courses \union {Null} : SetCourse(l, c)
  \/ \E l \in Lectures, i \in {obj[c].id : c \in Courses} : SetCourseId(l, i)
  \/ \E c \in Courses, l \in Lectures : AddLecture(c, l)
  \/ End

Spec == Init /\ [][Next]_vars /\ WF_vars(\E x \in Objects : Step(x))

-----------------------------------------------------------------------------
\* Type correctness; outside a transaction the request sees what is committed.
TypeOK ==
  /\ \A x \in Objects :
       /\ obj[x].id \in Nat \union {Null} /\ obj[x].course_id \in Nat \union {Null}
       /\ obj[x].course \in Courses \union {Null}
       /\ obj[x].dirty \subseteq {"title", "course", "course_id"}
  /\ \A r \in rows : r.of \in Objects /\ r.id \in 1 .. next_id - 1
  /\ in_tx \in BOOLEAN /\ (~ in_tx => rows = stored)
  /\ request \in {"open", "done", "failed"}
  /\ \A i, j \in DOMAIN stack : stack[i].of = stack[j].of => i = j

\* However saves of a course and of its lectures lead to each other, an object is
\* inserted once.
EachOnce == \A q, r \in rows : q.of = r.of => q = r
RowsAgree == TypeOK /\ EachOnce

\* When save returns, or trySave answers true ("success status of operation"), the
\* object is in the table as it is in memory.
SavedMeansStored == answer # Null => Row(answer) \in rows

\* When save of a lecture returns, it has the course that the caller set last by the
\* property course, whatever else was set and saved before: the course is then in
\* its table, and the row of the lecture has its id.
KeepsCourseObject ==
  answer \in Lectures /\ meant[answer] \in Courses =>
    \E q, r \in rows : q.of = meant[answer] /\ r.of = answer /\ r.course_id = q.id

\* When a request has ended well, all the objects that were saved in it, and not
\* changed again, are committed; when it has failed, none that was new.
CommitsAll ==
  /\ request = "done" =>
       \A x \in Objects : ~ IsNew(x) /\ obj[x].dirty = {} => Row(x) \in stored
  /\ request = "failed" => rows = stored /\ \A r \in stored : r.id < 3

\* Every save returns or fails, however the objects refer to each other.
SaveReturns == []<>(stack = <<>>)
=============================================================================
