-------------------------- MODULE RecordSaveProofs ---------------------------
(***************************************************************************)
(* Theorems about RecordSave, for any number of courses and lectures: an   *)
(* object is inserted once, however the saves of a course and of its       *)
(* lectures lead to each other, and whichever of them fail; and, as long   *)
(* as trySave is not used, what save and the end of a request promise.     *)
(***************************************************************************)
EXTENDS RecordSave, TLAPS

Ids == Nat \union {Null}
Props == {"title", "course", "course_id"}
Recs == [new : BOOLEAN, id : Ids, title : {0, 1}, course : Courses \union {Null},
         course_id : Ids, dirty : SUBSET Props, saving : BOOLEAN]
Pcs == {"relations", "assign", "write", "collection"}
Frames == [of : Objects, insert : BOOLEAN, pc : Pcs, rest : Seq(Lectures)]
RowRecs == [of : Objects, id : Nat, title : {0, 1}, course_id : Ids]

New(o) == o.new \/ o.id = Null

\* Calls of _doSave are for different objects, all marked as being saved; what is to
\* be inserted is new until it is.
FrameOK(f, o) ==
  /\ o[f.of].saving
  /\ f.insert /\ f.pc # "collection" => New(o[f.of])
  /\ f.pc = "assign" => f.of \in Lectures /\ o[f.of].course \in Courses
FramesOK(s, o) ==
  /\ s \in Seq(Frames)
  /\ \A i \in DOMAIN s : FrameOK(s[i], o)
  /\ \A i, j \in DOMAIN s : s[i].of = s[j].of => i = j

\* An object has one row at most, and a new one none.
TableOK(R, o, n) ==
  /\ R \subseteq RowRecs
  /\ \A r \in R : r.id \in 1 .. n - 1 /\ ~ New(o[r.of])
  /\ \A q, r \in R : q.of = r.of => q = r

IInv ==
  /\ obj \in [Objects -> Recs]
  /\ added \in [Courses -> Seq(Lectures)]
  /\ next_id \in Nat \ {0} /\ in_tx \in BOOLEAN
  /\ request \in {"open", "done", "failed"}
  /\ ~ in_tx => rows = stored
  /\ FramesOK(stack, obj)
  /\ TableOK(rows, obj, next_id) /\ TableOK(stored, obj, next_id)

-----------------------------------------------------------------------------
\* A change of the fields of an object that is none of its state.
Kept(o, p) == p \in Recs /\ p.new = o.new /\ p.id = o.id /\ p.saving = o.saving

LEMMA WithCourseKept ==
  ASSUME NEW o \in Recs, NEW c \in Courses \union {Null}
  PROVE  Kept(o, WithCourse(o, c)) /\ WithCourse(o, c).course = c
BY DEF Recs, Kept, WithCourse, Props

LEMMA WithCourseIdKept ==
  ASSUME NEW o \in Recs, NEW i \in Ids
  PROVE  Kept(o, WithCourseId(o, i)) /\ WithCourseId(o, i).course = o.course
BY DEF Recs, Kept, WithCourseId, Props

\* A sequence with one more element in front.
LEMMA InFront ==
  ASSUME NEW S, NEW f \in S, NEW s \in Seq(S)
  PROVE  LET t == <<f>> \o s
         IN /\ t \in Seq(S) /\ Len(t) = Len(s) + 1 /\ t[1] = f
            /\ \A i \in DOMAIN s : t[i + 1] = s[i]
            /\ \A j \in DOMAIN t : j = 1 \/ (j - 1 \in DOMAIN s /\ t[j] = s[j - 1])
<1>1. <<f>> \in Seq(S) /\ Len(<<f>>) = 1 /\ <<f>>[1] = f
  OBVIOUS
<1> QED BY <1>1

\* What does not change the state of the objects leaves the calls well formed.
LEMMA FramesKept ==
  ASSUME NEW s, NEW o, NEW p, FramesOK(s, o),
         \A x \in Objects : /\ o[x].saving => p[x].saving
                            /\ New(o[x]) => New(p[x])
                            /\ p[x].course = o[x].course
  PROVE  FramesOK(s, p)
<1>1. \A i \in DOMAIN s : s[i].of \in Objects
  <2>1. s \in Seq(Frames)
    BY DEF FramesOK
  <2>2. \A i \in DOMAIN s : s[i] \in Frames
    BY <2>1
  <2>3. \A f \in Frames : f.of \in Objects
    BY DEF Frames
  <2> QED BY <2>2, <2>3
<1>2. ASSUME NEW i \in DOMAIN s PROVE FrameOK(s[i], p)
  <2>1. FrameOK(s[i], o)
    BY DEF FramesOK
  <2> QED BY <1>1, <2>1 DEF FrameOK
<1> QED BY <1>2 DEF FramesOK

\* A call that begins is for an object that no call on the stack is for.
LEMMA CallFrames ==
  ASSUME NEW x \in Objects, NEW o \in [Objects -> Recs], NEW s, FramesOK(s, o),
         New(o[x]) <=> IsNew(x), Call(x, o, s)
  PROVE  /\ obj' \in [Objects -> Recs] /\ FramesOK(stack', obj')
         /\ \A y \in Objects : obj'[y].new = o[y].new /\ obj'[y].id = o[y].id
<1>1. CASE Saving(x, o)
  BY <1>1 DEF Call
<1>2. CASE ~ Saving(x, o)
  <2> DEFINE f == Frame(x)
             p == [o EXCEPT ![x].saving = TRUE]
             t == <<f>> \o s
  <2>1. obj' = p /\ stack' = t
    BY <1>2 DEF Call
  <2>2. p \in [Objects -> Recs]
    BY DEF Recs
  <2>3. /\ p[x].saving /\ \A y \in Objects : /\ o[y].saving => p[y].saving
                                             /\ p[y].new = o[y].new /\ p[y].id = o[y].id
                                             /\ p[y].course = o[y].course
    BY DEF Recs
  <2>4. f \in Frames /\ f.of = x /\ f.pc = "relations" /\ (f.insert <=> New(o[x]))
    <3>1. IsNew(x) \in BOOLEAN
      BY DEF IsNew
    <3> QED BY <3>1 DEF Frame, Frames, Pcs
  <2>5. s \in Seq(Frames) /\ \A i \in DOMAIN s : s[i].of # x
    BY <1>2 DEF FramesOK, FrameOK, Saving
  <2> HIDE DEF f, p
  <2>6. /\ t \in Seq(Frames) /\ Len(t) = Len(s) + 1 /\ t[1] = f
        /\ \A j \in DOMAIN t : j = 1 \/ (j - 1 \in DOMAIN s /\ t[j] = s[j - 1])
    BY <2>4, <2>5, InFront
  <2> HIDE DEF t
  <2>7. FramesOK(s, p)
    BY <2>3, FramesKept DEF New
  <2>8. FramesOK(t, p)
    <3>1. \A j \in DOMAIN t : FrameOK(t[j], p)
      <4>1. FrameOK(f, p)
        BY <2>3, <2>4 DEF FrameOK, New
      <4> QED BY <2>6, <2>7, <4>1 DEF FramesOK
    <3>2. \A i, j \in DOMAIN t : t[i].of = t[j].of => i = j
      <4> SUFFICES ASSUME NEW i \in DOMAIN t, NEW j \in DOMAIN t, t[i].of = t[j].of
                   PROVE  i = j
        OBVIOUS
      <4>1. i \in Int /\ j \in Int
        BY <2>6
      <4>2. CASE i = 1
        BY <2>4, <2>5, <2>6, <4>1, <4>2
      <4>3. CASE j = 1
        BY <2>4, <2>5, <2>6, <4>1, <4>3
      <4>4. CASE i # 1 /\ j # 1
        <5>1. i - 1 \in DOMAIN s /\ j - 1 \in DOMAIN s /\ s[i - 1].of = s[j - 1].of
          BY <2>6, <4>4
        <5>2. i - 1 = j - 1
          BY <5>1, <2>7 DEF FramesOK
        <5> QED BY <4>1, <5>2
      <4> QED BY <4>2, <4>3, <4>4
    <3> QED BY <2>6, <3>1, <3>2 DEF FramesOK
  <2> QED BY <2>1, <2>2, <2>3, <2>8
<1> QED BY <1>1, <1>2

\* The innermost call goes on, or returns, and the state of the other objects is kept.
OthersKept(s, o, p) ==
  \A y \in Objects \ {s[1].of} :
    (o[y].saving => p[y].saving) /\ (New(o[y]) => New(p[y])) /\ p[y].course = o[y].course

LEMMA FrameParts ==
  ASSUME NEW s, NEW o, FramesOK(s, o)
  PROVE  /\ s \in Seq(Frames)
         /\ \A i \in DOMAIN s : s[i] \in Frames /\ s[i].of \in Objects /\ FrameOK(s[i], o)
         /\ \A i, j \in DOMAIN s : s[i].of = s[j].of => i = j
<1>1. s \in Seq(Frames)
  BY DEF FramesOK
<1>2. \A i \in DOMAIN s : s[i] \in Frames
  BY <1>1
<1>3. \A f \in Frames : f.of \in Objects
  BY DEF Frames
<1> QED BY <1>1, <1>2, <1>3 DEF FramesOK

LEMMA OtherFrames ==
  ASSUME NEW s, NEW o, NEW p, FramesOK(s, o), s # <<>>, OthersKept(s, o, p)
  PROVE  \A i \in DOMAIN s \ {1} : FrameOK(s[i], p)
<1>1. /\ \A i \in DOMAIN s : s[i] \in Frames /\ s[i].of \in Objects /\ FrameOK(s[i], o)
      /\ \A i, j \in DOMAIN s : s[i].of = s[j].of => i = j
      /\ 1 \in DOMAIN s
  BY FrameParts
<1>2. \A i \in DOMAIN s \ {1} : s[i].of \in Objects \ {s[1].of}
  BY <1>1
<1> QED BY <1>1, <1>2 DEF OthersKept, FrameOK

LEMMA TopChanged ==
  ASSUME NEW s, NEW o, NEW p, FramesOK(s, o), s # <<>>, OthersKept(s, o, p),
         NEW f \in Frames, f.of = s[1].of, FrameOK(f, p)
  PROVE  FramesOK([s EXCEPT ![1] = f], p)
<1> DEFINE t == [s EXCEPT ![1] = f]
<1>1. s \in Seq(Frames) /\ 1 \in DOMAIN s
      /\ \A i, j \in DOMAIN s : s[i].of = s[j].of => i = j
  BY FrameParts
<1>2. t \in Seq(Frames) /\ DOMAIN t = DOMAIN s /\ t[1] = f
      /\ \A i \in DOMAIN s \ {1} : t[i] = s[i]
  BY <1>1
<1>3. \A i \in DOMAIN s : t[i].of = s[i].of
  BY <1>2
<1>4. \A i \in DOMAIN t : FrameOK(t[i], p)
  BY <1>2, OtherFrames
<1> HIDE DEF t
<1>5. FramesOK(t, p)
  BY <1>1, <1>2, <1>3, <1>4 DEF FramesOK
<1> QED BY <1>5 DEF t

LEMMA TopGone ==
  ASSUME NEW s, NEW o, NEW p, FramesOK(s, o), s # <<>>, OthersKept(s, o, p)
  PROVE  FramesOK(Tail(s), p)
<1>1. s \in Seq(Frames) /\ 1 \in DOMAIN s
      /\ \A i, j \in DOMAIN s : s[i].of = s[j].of => i = j
  BY FrameParts
<1>2. /\ Tail(s) \in Seq(Frames)
      /\ \A i \in DOMAIN Tail(s) : i + 1 \in DOMAIN s \ {1} /\ Tail(s)[i] = s[i + 1] /\ i \in Int
  BY <1>1
<1>3. \A i \in DOMAIN Tail(s) : FrameOK(Tail(s)[i], p)
  BY <1>2, OtherFrames
<1>4. \A i, j \in DOMAIN Tail(s) : Tail(s)[i].of = Tail(s)[j].of => i = j
  <2> SUFFICES ASSUME NEW i \in DOMAIN Tail(s), NEW j \in DOMAIN Tail(s),
                      Tail(s)[i].of = Tail(s)[j].of
               PROVE  i = j
    OBVIOUS
  <2>1. i + 1 = j + 1
    BY <1>1, <1>2
  <2> QED BY <1>2, <2>1
<1> QED BY <1>2, <1>3, <1>4 DEF FramesOK

\* A table stays as it is while no object becomes new again.
LEMMA TableKept ==
  ASSUME NEW R, NEW o, NEW p, NEW n \in Nat, NEW m \in Nat, n <= m, TableOK(R, o, n),
         \A y \in Objects : New(p[y]) => New(o[y])
  PROVE  TableOK(R, p, m)
<1>1. \A r \in R : r.of \in Objects /\ r.id \in Nat
  BY DEF TableOK, RowRecs
<1> QED BY <1>1 DEF TableOK

\* A step that leaves the tables alone.
LEMMA TablesLeft ==
  ASSUME IInv, UNCHANGED tables, request' \in {"open", "done", "failed"},
         obj' \in [Objects -> Recs], added' \in [Courses -> Seq(Lectures)],
         FramesOK(stack', obj'), \A y \in Objects : New(obj'[y]) => New(obj[y])
  PROVE  IInv'
<1>1. next_id \in Nat /\ next_id <= next_id /\ UNCHANGED <<rows, stored, in_tx, next_id>>
  BY DEF IInv, tables
<1>2. TableOK(rows, obj', next_id) /\ TableOK(stored, obj', next_id)
  BY <1>1, TableKept DEF IInv
<1> QED BY <1>1, <1>2 DEF IInv

-----------------------------------------------------------------------------
\* What the caller does between saves.
LEMMA NoFrames ==
  ASSUME NEW o
  PROVE  FramesOK(<<>>, o)
BY DEF FramesOK

LEMMA ObjectSet ==
  ASSUME IInv, NEW x \in Objects, NEW p, Kept(obj[x], p)
  PROVE  /\ [obj EXCEPT ![x] = p] \in [Objects -> Recs]
         /\ \A y \in Objects : New([obj EXCEPT ![x] = p][y]) <=> New(obj[y])
         /\ New([obj EXCEPT ![x] = p][x]) <=> IsNew(x)
BY DEF IInv, Kept, New, IsNew

LEMMA SetTitleIInv ==
  ASSUME IInv, NEW x \in Objects, SetTitle(x)
  PROVE  IInv'
<1> DEFINE p == [obj[x] EXCEPT !.title = 1,
                               !.dirty = IF obj[x].title = 1 THEN obj[x].dirty
                                         ELSE obj[x].dirty \union {"title"}]
<1>1. obj[x] \in Recs
  BY DEF IInv
<1>2. Kept(obj[x], p)
  BY <1>1 DEF Kept, Recs, Props
<1>3. obj' = [obj EXCEPT ![x] = p]
  BY <1>1 DEF SetTitle, Recs
<1> HIDE DEF p
<1> QED
  BY <1>2, <1>3, ObjectSet, NoFrames, TablesLeft DEF SetTitle, Free, IInv

LEMMA SetCourseIInv ==
  ASSUME IInv, NEW l \in Lectures, NEW c \in Courses \union {Null}, SetCourse(l, c)
  PROVE  IInv'
<1>1. obj[l] \in Recs /\ l \in Objects /\ obj' = [obj EXCEPT ![l] = WithCourse(obj[l], c)]
  BY DEF IInv, SetCourse, Objects
<1>2. Kept(obj[l], WithCourse(obj[l], c))
  BY <1>1, WithCourseKept
<1> QED
  BY <1>1, <1>2, ObjectSet, NoFrames, TablesLeft DEF SetCourse, Free, IInv

LEMMA SetCourseIdIInv ==
  ASSUME IInv, NEW l \in Lectures, NEW i \in {obj[c].id : c \in Courses}, SetCourseId(l, i)
  PROVE  IInv'
<1>1. obj[l] \in Recs /\ l \in Objects /\ obj' = [obj EXCEPT ![l] = WithCourseId(obj[l], i)]
  BY DEF IInv, SetCourseId, Objects
<1>2. i \in Ids
  BY DEF IInv, Objects, Recs
<1>3. Kept(obj[l], WithCourseId(obj[l], i))
  BY <1>1, <1>2, WithCourseIdKept
<1> QED
  BY <1>1, <1>3, ObjectSet, NoFrames, TablesLeft DEF SetCourseId, Free, IInv

LEMMA SaveIInv ==
  ASSUME IInv, NEW x \in Objects, NEW try \in BOOLEAN, Save(x, try)
  PROVE  IInv'
<1>1. Call(x, obj, <<>>) /\ UNCHANGED <<added, tables, request>>
  BY DEF Save
<1>2. New(obj[x]) <=> IsNew(x)
  BY DEF New, IsNew
<1>3. /\ obj' \in [Objects -> Recs] /\ FramesOK(stack', obj')
      /\ \A y \in Objects : obj'[y].new = obj[y].new /\ obj'[y].id = obj[y].id
  BY <1>1, <1>2, NoFrames, CallFrames DEF IInv
<1> QED BY <1>1, <1>3, TablesLeft DEF IInv, New

LEMMA AddLectureIInv ==
  ASSUME IInv, NEW c \in Courses, NEW l \in Lectures, AddLecture(c, l)
  PROVE  IInv'
<1>1. /\ obj[l] \in Recs /\ l \in Objects /\ c \in Objects /\ obj[c].id \in Ids
      /\ UNCHANGED <<tables, request>>
  BY DEF IInv, AddLecture, Objects, Recs
<1> DEFINE p == WithCourse(obj[l], c)
           q == WithCourseId(p, obj[c].id)
<1>2. Kept(obj[l], p) /\ p \in Recs
  BY <1>1, WithCourseKept DEF Kept
<1>3. Kept(obj[l], q)
  BY <1>1, <1>2, WithCourseIdKept DEF Kept
<1> HIDE DEF p, q
<1>4. CASE IsNew(c) \/ added[c] # <<>>
  <2>1. obj' = [obj EXCEPT ![l] = p] /\ added' = [added EXCEPT ![c] = Append(added[c], l)]
        /\ stack' = <<>>
    BY <1>4 DEF AddLecture, Free, p
  <2>2. added' \in [Courses -> Seq(Lectures)]
    BY <2>1 DEF IInv
  <2> QED BY <1>1, <1>2, <2>1, <2>2, ObjectSet, NoFrames, TablesLeft DEF IInv
<1>5. CASE ~ (IsNew(c) \/ added[c] # <<>>)
  <2> DEFINE o == [obj EXCEPT ![l] = q]
  <2>1. Call(l, o, <<>>) /\ added' = added
    BY <1>5 DEF AddLecture, p, q
  <2>2. /\ o \in [Objects -> Recs] /\ \A y \in Objects : New(o[y]) <=> New(obj[y])
        /\ New(o[l]) <=> IsNew(l)
    BY <1>1, <1>3, ObjectSet
  <2> HIDE DEF o
  <2>3. /\ obj' \in [Objects -> Recs] /\ FramesOK(stack', obj')
        /\ \A y \in Objects : obj'[y].new = o[y].new /\ obj'[y].id = o[y].id
    BY <1>1, <2>1, <2>2, NoFrames, CallFrames
  <2>4. \A y \in Objects : New(obj'[y]) => New(obj[y])
    BY <2>2, <2>3 DEF New
  <2> QED BY <1>1, <2>1, <2>3, <2>4, TablesLeft DEF IInv
<1> QED BY <1>4, <1>5

-----------------------------------------------------------------------------
\* The innermost call.
LEMMA Top ==
  ASSUME IInv, NEW x, NEW pc, At(x, pc)
  PROVE  /\ stack \in Seq(Frames) /\ stack # <<>> /\ 1 \in DOMAIN stack
         /\ stack[1] \in Frames /\ stack[1].of = x /\ stack[1].pc = pc
         /\ x \in Objects /\ FrameOK(stack[1], obj) /\ obj[x] \in Recs
<1>1. /\ stack \in Seq(Frames) /\ stack # <<>>
      /\ \A i \in DOMAIN stack :
           stack[i] \in Frames /\ stack[i].of \in Objects /\ FrameOK(stack[i], obj)
  BY FrameParts DEF IInv, At
<1>2. 1 \in DOMAIN stack
  BY <1>1
<1> QED BY <1>1, <1>2 DEF At, IInv

\* It goes on.
LEMMA GoesOn ==
  ASSUME IInv, NEW x, NEW pc \in Pcs, NEW to \in Pcs, At(x, pc), pc # "collection",
         NEW o \in [Objects -> Recs], OthersKept(stack, obj, o),
         o[x].saving, to # "collection" => (New(obj[x]) => New(o[x])),
         to = "assign" => x \in Lectures /\ o[x].course \in Courses
  PROVE  FramesOK([stack EXCEPT ![1].pc = to], o)
<1> DEFINE f == [stack[1] EXCEPT !.pc = to]
<1>1. /\ stack \in Seq(Frames) /\ stack # <<>> /\ 1 \in DOMAIN stack
      /\ stack[1] \in Frames /\ stack[1].of = x /\ stack[1].pc = pc
      /\ FrameOK(stack[1], obj)
  BY Top
<1>2. f \in Frames /\ f.of = x /\ f.pc = to /\ f.insert = stack[1].insert
  BY <1>1 DEF Frames
<1>3. [stack EXCEPT ![1].pc = to] = [stack EXCEPT ![1] = f]
  OBVIOUS
<1> HIDE DEF f
<1>4. FrameOK(f, o)
  BY <1>1, <1>2 DEF FrameOK
<1>5. FramesOK([stack EXCEPT ![1] = f], o)
  BY <1>1, <1>2, <1>4, TopChanged DEF IInv
<1> QED BY <1>3, <1>5

LEMMA NoRelationsIInv ==
  ASSUME IInv, NEW x \in Objects, NoRelations(x)
  PROVE  IInv'
<1>1. At(x, "relations") /\ stack' = [stack EXCEPT ![1].pc = "write"]
      /\ UNCHANGED <<added, tables, request>>
  BY DEF NoRelations, GoTo
<1>2. /\ stack[1].of = x /\ obj[x] \in Recs /\ obj[x].saving /\ obj \in [Objects -> Recs]
  BY <1>1, Top DEF FrameOK, IInv
<1>3. /\ obj' \in [Objects -> Recs] /\ \A y \in Objects \ {x} : obj'[y] = obj[y]
      /\ obj'[x].saving /\ obj'[x].new = obj[x].new /\ obj'[x].id = obj[x].id
  <2>1. CASE obj' = obj
    BY <1>2, <2>1
  <2>2. CASE obj' = [obj EXCEPT ![x].course = Null]
    BY <1>2, <2>2 DEF Recs
  <2> QED BY <2>1, <2>2 DEF NoRelations
<1>4. OthersKept(stack, obj, obj')
  BY <1>2, <1>3 DEF OthersKept
<1>5. FramesOK(stack', obj')
  BY <1>1, <1>3, <1>4, GoesOn DEF Pcs, New
<1>6. \A y \in Objects : New(obj'[y]) => New(obj[y])
  BY <1>3 DEF New
<1> QED BY <1>1, <1>3, <1>5, <1>6, TablesLeft DEF IInv

LEMMA ForgetCourseIInv ==
  ASSUME IInv, NEW x \in Objects, ForgetCourse(x)
  PROVE  IInv'
<1>1. /\ At(x, "relations") /\ stack' = [stack EXCEPT ![1].pc = "write"]
      /\ obj' = [obj EXCEPT ![x].course_id = Null,
                            ![x].dirty = obj[x].dirty \union {"course_id"}]
      /\ UNCHANGED <<added, tables, request>>
  <2>1. At(x, "relations") /\ stack' = [stack EXCEPT ![1].pc = "write"]
        /\ UNCHANGED <<added, tables, request>>
    BY DEF ForgetCourse, GoTo
  <2>2. obj \in [Objects -> Recs]
    BY DEF IInv
  <2> QED BY <2>1, <2>2 DEF ForgetCourse, Recs
<1>2. /\ stack[1].of = x /\ obj[x] \in Recs /\ obj[x].saving /\ obj \in [Objects -> Recs]
  BY <1>1, Top DEF FrameOK, IInv
<1>3. /\ obj' \in [Objects -> Recs] /\ \A y \in Objects \ {x} : obj'[y] = obj[y]
      /\ obj'[x].saving /\ obj'[x].new = obj[x].new /\ obj'[x].id = obj[x].id
  BY <1>1, <1>2 DEF Recs, Props, Ids
<1>4. OthersKept(stack, obj, obj')
  BY <1>2, <1>3 DEF OthersKept
<1>5. FramesOK(stack', obj')
  BY <1>1, <1>3, <1>4, GoesOn DEF Pcs, New
<1>6. \A y \in Objects : New(obj'[y]) => New(obj[y])
  BY <1>3 DEF New
<1> QED BY <1>1, <1>3, <1>5, <1>6, TablesLeft DEF IInv

\* The lecture waits for its course.
LEMMA SaveCourseIInv ==
  ASSUME IInv, NEW x \in Objects, SaveCourse(x)
  PROVE  IInv'
<1> DEFINE frames == [stack EXCEPT ![1].pc = "assign"]
           c == obj[x].course
<1>1. At(x, "relations") /\ x \in Lectures /\ c # Null /\ UNCHANGED <<added, tables, request>>
  BY DEF SaveCourse
<1>2. /\ stack[1].of = x /\ obj[x].saving /\ obj \in [Objects -> Recs]
      /\ c \in Courses /\ c \in Objects
  BY <1>1, Top DEF FrameOK, IInv, Recs, Objects
<1>3. FramesOK(frames, obj)
  BY <1>1, <1>2, GoesOn DEF Pcs, OthersKept
<1>4. CASE ~ IsNew(c)
  BY <1>1, <1>2, <1>3, <1>4, TablesLeft DEF SaveCourse, IInv
<1>5. CASE IsNew(c)
  <2>1. Call(c, obj, frames)
    BY <1>5 DEF SaveCourse
  <2> HIDE DEF frames, c
  <2>2. /\ obj' \in [Objects -> Recs] /\ FramesOK(stack', obj')
        /\ \A y \in Objects : obj'[y].new = obj[y].new /\ obj'[y].id = obj[y].id
    BY <1>2, <1>3, <2>1, CallFrames DEF New, IsNew
  <2> QED BY <1>1, <2>2, TablesLeft DEF IInv, New
<1> QED BY <1>4, <1>5

LEMMA AssignCourseIInv ==
  ASSUME IInv, NEW x \in Objects, AssignCourse(x)
  PROVE  IInv'
<1> DEFINE p == WithCourseId(obj[x], obj[obj[x].course].id)
<1>1. /\ At(x, "assign") /\ stack' = [stack EXCEPT ![1].pc = "write"]
      /\ obj' = [obj EXCEPT ![x] = p]
      /\ UNCHANGED <<added, tables, request>>
  BY DEF AssignCourse, GoTo
<1>2. /\ stack[1].of = x /\ obj[x] \in Recs /\ obj[x].saving /\ obj \in [Objects -> Recs]
      /\ obj[x].course \in Objects
  BY <1>1, Top DEF FrameOK, IInv, Objects
<1>3. Kept(obj[x], p)
  BY <1>2, WithCourseIdKept DEF Recs
<1> HIDE DEF p
<1>4. /\ obj' \in [Objects -> Recs] /\ \A y \in Objects \ {x} : obj'[y] = obj[y]
      /\ obj'[x].saving /\ obj'[x].new = obj[x].new /\ obj'[x].id = obj[x].id
  BY <1>1, <1>2, <1>3 DEF Kept
<1>5. OthersKept(stack, obj, obj')
  BY <1>2, <1>4 DEF OthersKept
<1>6. FramesOK(stack', obj')
  BY <1>1, <1>4, <1>5, GoesOn DEF Pcs, New
<1>7. \A y \in Objects : New(obj'[y]) => New(obj[y])
  BY <1>4 DEF New
<1> QED BY <1>1, <1>4, <1>6, <1>7, TablesLeft DEF IInv

\* The innermost object has been written; its row, or the column, is there already.
LEMMA Collects ==
  ASSUME IInv, NEW x, NEW pc, At(x, pc), Collect(x), NEW o, o[x].saving,
         OthersKept(stack, obj, o)
  PROVE  FramesOK(stack', o)
<1> DEFINE rest == IF x \in Courses THEN added[x] ELSE <<>>
           f == [[stack[1] EXCEPT !.pc = "collection"] EXCEPT !.rest = rest]
<1>1. /\ stack \in Seq(Frames) /\ stack # <<>> /\ 1 \in DOMAIN stack
      /\ stack[1] \in Frames /\ stack[1].of = x
  BY Top
<1>2. rest \in Seq(Lectures)
  BY DEF IInv
<1>3. stack' = [stack EXCEPT ![1] = f]
  <2>1. stack' = [stack EXCEPT ![1].pc = "collection", ![1].rest = rest]
    BY DEF Collect
  <2>2. [stack EXCEPT ![1].pc = "collection"][1] = [stack[1] EXCEPT !.pc = "collection"]
    BY <1>1
  <2> QED BY <1>1, <2>1, <2>2
<1> HIDE DEF rest
<1>4. f \in Frames /\ f.of = x /\ f.pc = "collection"
  BY <1>1, <1>2 DEF Frames, Pcs
<1> HIDE DEF f
<1>5. FrameOK(f, o)
  BY <1>4 DEF FrameOK
<1>6. FramesOK([stack EXCEPT ![1] = f], o)
  BY <1>1, <1>4, <1>5, TopChanged DEF IInv
<1> QED BY <1>3, <1>6

\* What is inserted is new, so that no row is its own yet.
LEMMA InsertIInv ==
  ASSUME IInv, NEW x \in Objects, Insert(x)
  PROVE  IInv'
<1> DEFINE row == [of |-> x, id |-> next_id, title |-> obj[x].title,
                   course_id |-> obj[x].course_id]
<1>1. /\ At(x, "write") /\ stack[1].insert /\ Collect(x)
      /\ obj' = [obj EXCEPT ![x].new = FALSE, ![x].id = next_id]
      /\ rows' = rows \union {[Row(x) EXCEPT !.id = next_id]}
      /\ next_id' = next_id + 1 /\ in_tx' = TRUE /\ UNCHANGED <<added, stored, request>>
  BY DEF Insert, MustInsert
<1>2. /\ stack[1].of = x /\ stack[1].pc = "write" /\ obj[x] \in Recs /\ obj[x].saving
      /\ obj \in [Objects -> Recs] /\ New(obj[x]) /\ next_id \in Nat \ {0}
  BY <1>1, Top DEF FrameOK, IInv
<1>3. [Row(x) EXCEPT !.id = next_id] = row
  BY DEF Row
<1>4. /\ obj' \in [Objects -> Recs] /\ \A y \in Objects \ {x} : obj'[y] = obj[y]
      /\ obj'[x].saving /\ ~ New(obj'[x])
  <2>1. next_id \in Ids /\ next_id # Null
    BY <1>2, RecordSaveConstants DEF Ids
  <2>2. /\ obj' \in [Objects -> Recs] /\ \A y \in Objects \ {x} : obj'[y] = obj[y]
        /\ obj'[x].saving /\ ~ obj'[x].new /\ obj'[x].id = next_id
    BY <1>1, <1>2, <2>1 DEF Recs
  <2> QED BY <2>1, <2>2 DEF New
<1>5. row \in RowRecs /\ row.of = x /\ row.id = next_id
  BY <1>2 DEF RowRecs, Recs
<1> HIDE DEF row
<1>6. FramesOK(stack', obj')
  <2>1. OthersKept(stack, obj, obj')
    BY <1>2, <1>4 DEF OthersKept
  <2> QED BY <1>1, <1>4, <2>1, Collects
<1>7. \A y \in Objects : New(obj'[y]) => New(obj[y])
  BY <1>4
<1>8. TableOK(rows, obj', next_id + 1) /\ TableOK(stored, obj', next_id + 1)
  BY <1>2, <1>7, TableKept DEF IInv
<1>9. \A r \in rows : r.of # x
  BY <1>2 DEF IInv, TableOK
<1>10. TableOK(rows \union {row}, obj', next_id + 1)
  BY <1>2, <1>4, <1>5, <1>8, <1>9 DEF TableOK
<1>11. rows' = rows \union {row} /\ next_id' = next_id + 1 /\ stored' = stored
  BY <1>1, <1>3
<1>12. TableOK(rows', obj', next_id') /\ TableOK(stored', obj', next_id')
  BY <1>8, <1>10, <1>11
<1>13. next_id' \in Nat \ {0} /\ in_tx' = TRUE /\ added' = added /\ request' = request
  BY <1>1, <1>2
<1> QED BY <1>4, <1>6, <1>12, <1>13 DEF IInv

LEMMA UpdateIInv ==
  ASSUME IInv, NEW x \in Objects, Update(x)
  PROVE  IInv'
<1> DEFINE g(r) == IF r.id = obj[x].id THEN Updated(r, x) ELSE r
<1>1. /\ At(x, "write") /\ Collect(x) /\ rows' = {g(r) : r \in rows}
      /\ in_tx' = TRUE /\ UNCHANGED <<obj, added, stored, next_id, request>>
  BY DEF Update, MustUpdate
<1>2. obj[x] \in Recs /\ obj[x].saving
  BY <1>1, Top DEF FrameOK
<1>3. \A r \in RowRecs : g(r) \in RowRecs /\ g(r).of = r.of /\ g(r).id = r.id
  <2> SUFFICES ASSUME NEW r \in RowRecs
               PROVE  Updated(r, x) \in RowRecs /\ Updated(r, x).of = r.of
                      /\ Updated(r, x).id = r.id
    OBVIOUS
  <2> DEFINE a == IF "title" \in Columns(x) THEN obj[x].title ELSE r.title
             b == IF "course_id" \in Columns(x) THEN obj[x].course_id ELSE r.course_id
  <2>1. a \in {0, 1} /\ b \in Ids
    BY <1>2 DEF Recs, RowRecs
  <2>2. Updated(r, x) = [r EXCEPT !.title = a, !.course_id = b]
    <3>1. [r EXCEPT !.title = a].course_id = r.course_id
      BY DEF RowRecs
    <3> QED BY <3>1 DEF Updated
  <2> HIDE DEF a, b
  <2> QED BY <2>1, <2>2 DEF RowRecs
<1> HIDE DEF g
<1>4. TableOK(rows', obj, next_id)
  BY <1>1, <1>3 DEF IInv, TableOK
<1>5. FramesOK(stack', obj)
  BY <1>1, <1>2, Collects DEF OthersKept
<1> QED BY <1>1, <1>4, <1>5 DEF IInv

LEMMA NothingToWriteIInv ==
  ASSUME IInv, NEW x \in Objects, NothingToWrite(x)
  PROVE  IInv'
<1>1. At(x, "write") /\ Collect(x) /\ UNCHANGED <<obj, added, tables, request>>
  BY DEF NothingToWrite
<1>2. obj[x].saving
  BY <1>1, Top DEF FrameOK
<1>3. FramesOK(stack', obj)
  BY <1>1, <1>2, Collects DEF OthersKept
<1> QED BY <1>1, <1>3, TablesLeft DEF IInv

\* The lectures of a course are saved one by one; one that is being saved is left out.
LEMMA SaveLectureIInv ==
  ASSUME IInv, NEW x \in Objects, SaveLecture(x)
  PROVE  IInv'
<1> DEFINE l == Head(stack[1].rest)
           p == WithCourseId(obj[l], obj[x].id)
           f == [stack[1] EXCEPT !.rest = Tail(stack[1].rest)]
           o == [obj EXCEPT ![l] = p]
           frames == [stack EXCEPT ![1] = f]
<1>1. /\ At(x, "collection") /\ stack[1].rest # <<>>
      /\ UNCHANGED <<added, tables, request>>
  BY DEF SaveLecture
<1>2. /\ stack \in Seq(Frames) /\ 1 \in DOMAIN stack
      /\ stack[1] \in Frames /\ stack[1].of = x /\ stack[1].pc = "collection"
      /\ obj[x].id \in Ids /\ obj[x].saving /\ obj \in [Objects -> Recs]
  BY <1>1, Top DEF FrameOK, IInv, Recs
<1>3. Call(l, o, frames)
  BY <1>1 DEF SaveLecture, Rest
<1>4. stack[1].rest \in Seq(Lectures)
  BY <1>2 DEF Frames
<1>5. l \in Lectures /\ l \in Objects /\ Tail(stack[1].rest) \in Seq(Lectures)
  BY <1>1, <1>4 DEF Objects
<1>6. f \in Frames /\ f.of = x /\ f.pc = "collection"
  BY <1>2, <1>5 DEF Frames
<1>7. Kept(obj[l], p) /\ p.course = obj[l].course
  BY <1>2, <1>5, WithCourseIdKept
<1> HIDE DEF l, p, f
<1>8. /\ o \in [Objects -> Recs] /\ \A y \in Objects : New(o[y]) <=> New(obj[y])
      /\ New(o[l]) <=> IsNew(l)
  BY <1>5, <1>7, ObjectSet
<1>9. OthersKept(stack, obj, o) /\ o[x].saving
  BY <1>2, <1>5, <1>7, <1>8 DEF OthersKept, Kept
<1> HIDE DEF o
<1>10. FrameOK(f, o)
  BY <1>6, <1>9 DEF FrameOK
<1>11. FramesOK(frames, o)
  BY <1>1, <1>2, <1>6, <1>9, <1>10, TopChanged DEF IInv, At
<1> HIDE DEF frames
<1>12. /\ obj' \in [Objects -> Recs] /\ FramesOK(stack', obj')
       /\ \A y \in Objects : obj'[y].new = o[y].new /\ obj'[y].id = o[y].id
  BY <1>3, <1>5, <1>8, <1>11, CallFrames
<1>13. \A y \in Objects : New(obj'[y]) => New(obj[y])
  BY <1>8, <1>12 DEF New
<1> QED BY <1>1, <1>12, <1>13, TablesLeft DEF IInv

LEMMA FinishIInv ==
  ASSUME IInv, NEW x \in Objects, Finish(x)
  PROVE  IInv'
<1>1. /\ At(x, "collection") /\ stack' = Tail(stack)
      /\ obj' = [obj EXCEPT ![x].dirty = {}, ![x].saving = FALSE]
      /\ added' = IF x \in Courses THEN [added EXCEPT ![x] = <<>>] ELSE added
      /\ UNCHANGED <<tables, request>>
  BY DEF Finish
<1>2. /\ stack[1].of = x /\ stack # <<>> /\ obj[x] \in Recs /\ obj \in [Objects -> Recs]
  BY <1>1, Top DEF IInv
<1>3. /\ obj' \in [Objects -> Recs] /\ \A y \in Objects \ {x} : obj'[y] = obj[y]
      /\ obj'[x].new = obj[x].new /\ obj'[x].id = obj[x].id
  BY <1>1, <1>2 DEF Recs
<1>4. FramesOK(Tail(stack), obj')
  <2>1. OthersKept(stack, obj, obj')
    BY <1>2, <1>3 DEF OthersKept
  <2> QED BY <1>2, <2>1, TopGone DEF IInv
<1>5. added' \in [Courses -> Seq(Lectures)]
  BY <1>1 DEF IInv
<1>6. \A y \in Objects : New(obj'[y]) => New(obj[y])
  BY <1>3 DEF New
<1> QED BY <1>1, <1>3, <1>4, <1>5, <1>6, TablesLeft DEF IInv

\* An exception undoes the transaction and leaves the objects.
LEMMA RaiseIInv ==
  ASSUME IInv, Raise, obj' \in [Objects -> Recs],
         \A y \in Objects : New(obj'[y]) => New(obj[y])
  PROVE  IInv'
<1>1. /\ rows' = stored /\ stored' = stored /\ in_tx' = FALSE /\ stack' = <<>>
      /\ UNCHANGED <<added, next_id>> /\ request' \in {"open", "done", "failed"}
  BY DEF Raise, IInv
<1>2. TableOK(stored, obj', next_id)
  BY TableKept DEF IInv
<1> QED BY <1>1, <1>2, NoFrames DEF IInv

LEMMA InvalidIInv ==
  ASSUME IInv, NEW x \in Objects, Invalid(x)
  PROVE  IInv'
<1>1. Raise /\ obj' = [obj EXCEPT ![x].saving = FALSE] /\ obj \in [Objects -> Recs]
  BY DEF Invalid, IInv
<1>2. /\ obj' \in [Objects -> Recs]
      /\ \A y \in Objects : obj'[y].new = obj[y].new /\ obj'[y].id = obj[y].id
  BY <1>1 DEF Recs
<1> QED BY <1>1, <1>2, RaiseIInv DEF New

LEMMA EndIInv ==
  ASSUME IInv, End
  PROVE  IInv'
<1>1. /\ stored' = rows /\ UNCHANGED <<obj, added, rows, next_id, stack>>
      /\ in_tx' = FALSE /\ request' = "done"
  BY DEF End, IInv
<1> QED BY <1>1 DEF IInv

-----------------------------------------------------------------------------
\* The invariant holds at first and every step keeps it.
LEMMA InitIInv == Init => IInv
<1> SUFFICES ASSUME Init PROVE IInv
  OBVIOUS
<1>1. PICK old \in BOOLEAN :
        LET c == CHOOSE x \in Courses : TRUE
            l == CHOOSE x \in Lectures : TRUE
        IN obj = [x \in Objects |-> CASE old /\ x = c -> Loaded(1, Null)
                                      [] old /\ x = l -> Loaded(2, 1)
                                      [] OTHER -> Fresh]
  BY DEF Init
<1>2. /\ rows = {Row(x) : x \in {y \in Objects : ~ IsNew(y)}} /\ stored = rows
      /\ added = [x \in Courses |-> <<>>] /\ in_tx = FALSE /\ next_id = 3 /\ stack = <<>>
      /\ request = "open"
  BY DEF Init
<1>3. /\ Fresh \in Recs /\ New(Fresh)
      /\ Loaded(1, Null) \in Recs /\ Loaded(1, Null).id = 1
      /\ Loaded(2, 1) \in Recs /\ Loaded(2, 1).id = 2
  BY DEF Fresh, Loaded, Recs, Props, Ids, New
<1>4. /\ obj \in [Objects -> Recs]
      /\ \A x \in Objects : New(obj[x]) \/ obj[x].id \in 1 .. 2
  BY <1>1, <1>3
<1>5. \A x \in Objects : ~ IsNew(x) => /\ Row(x) \in RowRecs /\ Row(x).of = x
                                       /\ Row(x).id \in 1 .. 2 /\ ~ New(obj[x])
  BY <1>4 DEF Row, RowRecs, Recs, IsNew, New
<1>6. TableOK(rows, obj, next_id)
  BY <1>2, <1>5 DEF TableOK
<1>7. added \in [Courses -> Seq(Lectures)] /\ FramesOK(stack, obj) /\ next_id \in Nat \ {0}
  BY <1>2, NoFrames
<1>8. TableOK(stored, obj, next_id) /\ (~ in_tx => rows = stored)
  BY <1>2, <1>6
<1>9. in_tx \in BOOLEAN /\ request \in {"open", "done", "failed"}
  BY <1>2
<1> QED BY <1>4, <1>6, <1>7, <1>8, <1>9 DEF IInv

LEMMA StepIInv == IInv /\ [Next]_vars => IInv'
<1> SUFFICES ASSUME IInv, [Next]_vars PROVE IInv'
  OBVIOUS
<1>1. ASSUME NEW x \in Objects, Step(x) PROVE IInv'
  <2>1. CASE Fail(x) \/ EmptyUpdate(x)
    BY <2>1, RaiseIInv DEF Fail, EmptyUpdate, IInv
  <2> QED
    BY <1>1, <2>1, NoRelationsIInv, ForgetCourseIInv, SaveCourseIInv, AssignCourseIInv,
       InsertIInv, UpdateIInv, NothingToWriteIInv, SaveLectureIInv, FinishIInv, InvalidIInv
       DEF Step
<1>2. CASE UNCHANGED vars
  BY <1>2 DEF vars, tables, IInv
<1> QED
  BY <1>1, <1>2, SetTitleIInv, SaveIInv, SetCourseIInv, SetCourseIdIInv, AddLectureIInv,
     EndIInv DEF Next

\* For any number of courses and lectures, however saves call each other, fail and are
\* tried again: no object is in its table twice, the calls on the stack are for
\* different objects, and outside a transaction the request sees what is committed.
THEOREM RowsAgreeAlways == Spec => []RowsAgree
<1>1. IInv => RowsAgree
  <2> SUFFICES ASSUME IInv PROVE RowsAgree
    OBVIOUS
  <2>1. \A x \in Objects :
          /\ obj[x].id \in Nat \union {Null} /\ obj[x].course_id \in Nat \union {Null}
          /\ obj[x].course \in Courses \union {Null}
          /\ obj[x].dirty \subseteq {"title", "course", "course_id"}
    BY DEF IInv, Recs, Ids, Props
  <2>2. \A r \in rows : r.of \in Objects /\ r.id \in 1 .. next_id - 1
    BY DEF IInv, TableOK, RowRecs
  <2> QED BY <2>1, <2>2 DEF IInv, FramesOK, TableOK, TypeOK, EachOnce, RowsAgree
<1> QED BY <1>1, InitIInv, StepIInv, PTL DEF Spec

-----------------------------------------------------------------------------
(***************************************************************************)
(* What is in the tables when a save returns.  The invariant SInv follows  *)
(* the calls on the stack: the objects differ from their rows in dirty     *)
(* fields only, a lecture that is to be written refers to its course, and  *)
(* a call that waits is that of a lecture whose course is being saved, or  *)
(* that of a course whose row is written.  A failed trySave breaks it: the *)
(* objects stay numbered while their rows are rolled back.                 *)
(***************************************************************************)
\* The row that an object should have, with the objects as they are in o.
RowOf(o, x) == [of |-> x, id |-> o[x].id, title |-> o[x].title, course_id |-> o[x].course_id]

\* The column was set directly, and will not be overwritten by the property.
Wins(p) == "course_id" \in p.dirty /\ "course" \notin p.dirty

\* A new object has no id yet; a column set directly holds the id of a course.
Numbered(p) == (p.new => p.id = Null) /\ (Wins(p) => p.course_id # Null)

\* The row of an object differs from it in dirty fields only.
Synced(R, o, x) ==
  ~ New(o[x]) => \E r \in R : /\ r.of = x /\ r.id = o[x].id
                              /\ r.title = o[x].title \/ "title" \in o[x].dirty
                              /\ r.course_id = o[x].course_id \/ "course_id" \in o[x].dirty

ObjectsOK(o, s, R) ==
  \A x \in Objects : /\ Numbered(o[x]) /\ Synced(R, o, x)
                     /\ o[x].saving => \E i \in DOMAIN s : s[i].of = x

\* The column of lecture l refers to course c.
Refers(o, l, c) == o[l].course_id = o[c].id /\ ~ New(o[c])

\* A lecture keeps the course that was meant, and so do those that wait.
MeantOK(o, m, l) ==
  m[l] \in Courses => o[l].course = m[l] /\ (Wins(o[l]) => Refers(o, l, m[l]))
LecturesOK(o, a, m) ==
  /\ \A l \in Lectures : MeantOK(o, m, l)
  /\ \A c \in Courses : \A i \in DOMAIN a[c] : o[a[c][i]].course = c /\ m[a[c][i]] = c

Ready(o, m, x) == x \in Lectures /\ m[x] \in Courses => Refers(o, x, m[x])

\* What each call has reached; above is the object of the call that it waits for, or
\* Null when it is the innermost.
CallOK(f, above, o, R, a, m) ==
  /\ above # Null => f.pc = "assign" \/ (f.pc = "collection" /\ f.of \in Courses)
  /\ f.of \in Lectures => f.rest = <<>>
  /\ f.of \in Courses =>
       \A k \in DOMAIN f.rest : \E j \in DOMAIN a[f.of] : f.rest[k] = a[f.of][j]
  /\ ~ f.insert => ~ New(o[f.of])
  /\ f.pc = "assign" => ~ New(o[o[f.of].course]) \/ above = o[f.of].course
  /\ f.pc = "collection" => ~ New(o[f.of]) /\ RowOf(o, f.of) \in R
  /\ f.pc \in {"write", "collection"} => Ready(o, m, f.of)

Above(s, i) == IF i = 1 THEN Null ELSE s[i - 1].of
CallsOK(s, o, R, a, m) == \A i \in DOMAIN s : CallOK(s[i], Above(s, i), o, R, a, m)

IdsOK(R) == \A q, r \in R : q.id = r.id => q = r

Sound ==
  /\ ObjectsOK(obj, stack, rows) /\ LecturesOK(obj, added, meant)
  /\ CallsOK(stack, obj, rows, added, meant) /\ IdsOK(rows)

SInv ==
  /\ meant \in [Lectures -> Courses \union Ids]
  /\ trying = FALSE
  /\ request # "open" => stack = <<>>
  /\ answer # Null => stack = <<>> /\ request = "open"
  /\ SavedMeansStored /\ KeepsCourseObject /\ CommitsAll
  /\ request # "done" => \A r \in stored : r.id < 3
  /\ request # "failed" => Sound

-----------------------------------------------------------------------------
\* A call that waits for another.
LEMMA BelowKept ==
  ASSUME NEW f \in Frames, NEW x \in Objects, f.of # x, NEW above, above # Null,
         NEW o, NEW p, NEW R, NEW Q, NEW a, NEW b, NEW m, FrameOK(f, o),
         CallOK(f, above, o, R, a, m),
         \A y \in Objects : New(p[y]) => New(o[y]),
         p[f.of].course = o[f.of].course,
         \A y \in Courses \ {x} : /\ RowOf(p, y) = RowOf(o, y) /\ b[y] = a[y]
                                  /\ RowOf(o, y) \in R => RowOf(o, y) \in Q
  PROVE  CallOK(f, above, p, Q, b, m)
<1>1. f.of \in Objects
  BY DEF Frames
<1>2. f.of \in Courses => /\ RowOf(p, f.of) = RowOf(o, f.of) /\ b[f.of] = a[f.of]
                          /\ RowOf(o, f.of) \in R => RowOf(o, f.of) \in Q
  BY <1>1
<1>3. f.pc = "assign" => o[f.of].course \in Objects
  BY DEF FrameOK, Objects
<1>4. f.pc # "write" /\ (f.pc = "collection" => f.of \in Courses /\ f.of \notin Lectures)
  BY RecordSaveConstants DEF CallOK
<1>5. ~ f.insert => ~ New(p[f.of])
  BY <1>1 DEF CallOK
<1>6. f.pc = "assign" => ~ New(p[p[f.of].course]) \/ above = p[f.of].course
  BY <1>3 DEF CallOK
<1>7. f.pc = "collection" => ~ New(p[f.of]) /\ RowOf(p, f.of) \in Q
  BY <1>1, <1>2, <1>4 DEF CallOK
<1>8. f.pc \in {"write", "collection"} => Ready(p, m, f.of)
  BY <1>4 DEF Ready
<1>9. f.of \in Courses =>
        \A k \in DOMAIN f.rest : \E j \in DOMAIN b[f.of] : f.rest[k] = b[f.of][j]
  BY <1>2 DEF CallOK
<1> QED BY <1>5, <1>6, <1>7, <1>8, <1>9 DEF CallOK

\* The same fields, but for _is_being_saved.
Alike(o, p) ==
  \A y \in Objects : /\ p[y].new = o[y].new /\ p[y].id = o[y].id /\ p[y].title = o[y].title
                     /\ p[y].course = o[y].course /\ p[y].course_id = o[y].course_id
                     /\ p[y].dirty = o[y].dirty

LEMMA AlikeObjects ==
  ASSUME NEW o, NEW p, Alike(o, p)
  PROVE  \A y \in Objects : /\ New(p[y]) <=> New(o[y])
                            /\ Numbered(p[y]) <=> Numbered(o[y])
                            /\ Wins(p[y]) <=> Wins(o[y])
                            /\ RowOf(p, y) = RowOf(o, y)
                            /\ \A R : Synced(R, p, y) <=> Synced(R, o, y)
                            /\ \A c \in Objects : Refers(o, y, c) <=> Refers(p, y, c)
<1>1. \A y \in Objects : /\ New(p[y]) <=> New(o[y])
                         /\ Wins(p[y]) <=> Wins(o[y])
                         /\ RowOf(p, y) = RowOf(o, y)
  BY DEF Alike, New, Wins, RowOf
<1>2. \A y \in Objects : Numbered(p[y]) <=> Numbered(o[y])
  BY <1>1 DEF Alike, Numbered
<1>3. \A y \in Objects : \A R : Synced(R, p, y) <=> Synced(R, o, y)
  BY <1>1 DEF Alike, Synced
<1>4. \A y, c \in Objects : Refers(o, y, c) <=> Refers(p, y, c)
  BY <1>1 DEF Alike, Refers
<1> QED BY <1>1, <1>2, <1>3, <1>4

LEMMA AlikeLectures ==
  ASSUME NEW o, NEW p, Alike(o, p), NEW a \in [Courses -> Seq(Lectures)], NEW m,
         LecturesOK(o, a, m)
  PROVE  LecturesOK(p, a, m)
<1>1. ASSUME NEW l \in Lectures PROVE MeantOK(p, m, l)
  <2>1. MeantOK(o, m, l)
    BY DEF LecturesOK
  <2>2. l \in Objects /\ Courses \subseteq Objects
    BY DEF Objects
  <2> QED BY <2>1, <2>2, AlikeObjects DEF MeantOK, Alike
<1>2. ASSUME NEW c \in Courses, NEW i \in DOMAIN a[c] PROVE p[a[c][i]].course = c
  <2>1. a[c][i] \in Objects
    BY DEF Objects
  <2> QED BY <2>1 DEF Alike, LecturesOK
<1> QED BY <1>1, <1>2 DEF LecturesOK

LEMMA AlikeCall ==
  ASSUME NEW o, NEW p, Alike(o, p), NEW f \in Frames, FrameOK(f, o), NEW above,
         NEW R, NEW a, NEW m, CallOK(f, above, o, R, a, m)
  PROVE  CallOK(f, above, p, R, a, m)
<1>1. f.of \in Objects
  BY DEF Frames
<1>2. f.pc = "assign" => o[f.of].course \in Objects
  BY DEF FrameOK, Objects
<1>3. Ready(o, m, f.of) => Ready(p, m, f.of)
  <2>1. Courses \subseteq Objects
    BY DEF Objects
  <2> QED BY <1>1, <2>1, AlikeObjects DEF Ready
<1>4. /\ New(p[f.of]) <=> New(o[f.of])
      /\ p[f.of].course = o[f.of].course /\ RowOf(p, f.of) = RowOf(o, f.of)
  BY <1>1, AlikeObjects DEF Alike
<1>5. f.pc = "assign" => (New(p[p[f.of].course]) <=> New(o[o[f.of].course]))
  BY <1>2, <1>4, AlikeObjects
<1> QED BY <1>3, <1>4, <1>5 DEF CallOK

\* A save of x may begin, from the calls s; that it is turned away has no effect.
Callable(x, o, s, R, a, m) ==
  /\ ObjectsOK(o, s, R) /\ LecturesOK(o, a, m)
  /\ s # <<>> => /\ CallOK(s[1], x, o, R, a, m)
                 /\ o[x].saving => CallOK(s[1], Null, o, R, a, m)
  /\ \A i \in DOMAIN s \ {1} : CallOK(s[i], Above(s, i), o, R, a, m)

LEMMA CallSound ==
  ASSUME NEW x \in Objects, NEW o \in [Objects -> Recs], NEW s, FramesOK(s, o),
         New(o[x]) <=> IsNew(x), Call(x, o, s), NEW R,
         NEW a \in [Courses -> Seq(Lectures)], NEW m, Callable(x, o, s, R, a, m)
  PROVE  /\ ObjectsOK(obj', stack', R) /\ LecturesOK(obj', a, m)
         /\ CallsOK(stack', obj', R, a, m)
<1> USE DEF Callable
<1>1. CASE Saving(x, o)
  <2>1. obj' = o /\ stack' = s /\ o[x].saving
    BY <1>1 DEF Call, Saving
  <2>2. ASSUME NEW i \in DOMAIN s PROVE CallOK(s[i], Above(s, i), o, R, a, m)
    <3>1. i = 1 => s # <<>> /\ Above(s, i) = Null
      BY DEF Above
    <3> QED BY <2>1, <3>1
  <2> QED BY <2>1, <2>2 DEF CallsOK
<1>2. CASE ~ Saving(x, o)
  <2> DEFINE f == Frame(x)
             p == [o EXCEPT ![x].saving = TRUE]
             t == <<f>> \o s
  <2>1. obj' = p /\ stack' = t
    BY <1>2 DEF Call
  <2>2. Alike(o, p) /\ \A y \in Objects \ {x} : p[y].saving = o[y].saving
    BY DEF Recs, Alike
  <2>3. f \in Frames /\ f.of = x /\ f.pc = "relations" /\ f.rest = <<>> /\ (f.insert <=> New(o[x]))
    <3>1. IsNew(x) \in BOOLEAN
      BY DEF IsNew
    <3> QED BY <3>1 DEF Frame, Frames, Pcs
  <2>4. /\ s \in Seq(Frames)
        /\ \A i \in DOMAIN s : s[i] \in Frames /\ s[i].of \in Objects /\ FrameOK(s[i], o)
    BY FrameParts
  <2> HIDE DEF f, p
  <2>5. /\ t \in Seq(Frames) /\ Len(t) = Len(s) + 1 /\ t[1] = f
        /\ \A i \in DOMAIN s : t[i + 1] = s[i]
        /\ \A j \in DOMAIN t : j = 1 \/ (j - 1 \in DOMAIN s /\ t[j] = s[j - 1])
    BY <2>3, <2>4, InFront
  <2> HIDE DEF t
  <2>6. ObjectsOK(p, t, R)
    <3> SUFFICES ASSUME NEW y \in Objects
                 PROVE  /\ Numbered(p[y]) /\ Synced(R, p, y)
                        /\ p[y].saving => \E i \in DOMAIN t : t[i].of = y
      BY DEF ObjectsOK
    <3>1. Numbered(p[y]) /\ Synced(R, p, y)
      BY <2>2, AlikeObjects DEF ObjectsOK
    <3>2. CASE y = x
      <4>1. 1 \in DOMAIN t /\ t[1].of = x
        BY <2>3, <2>4, <2>5
      <4> QED BY <3>1, <3>2, <4>1
    <3>3. CASE y # x /\ p[y].saving
      <4>1. PICK i \in DOMAIN s : s[i].of = y
        BY <2>2, <3>3 DEF ObjectsOK
      <4>2. i + 1 \in DOMAIN t /\ t[i + 1] = s[i]
        BY <2>4, <2>5
      <4> QED BY <3>1, <4>1, <4>2
    <3> QED BY <3>1, <3>2, <3>3
  <2>7. LecturesOK(p, a, m)
    BY <2>2, AlikeLectures
  <2>8. ASSUME NEW j \in DOMAIN t PROVE CallOK(t[j], Above(t, j), p, R, a, m)
    <3>1. CASE j = 1
      <4>1. CallOK(f, Null, p, R, a, m)
        <5>1. f.insert <=> New(p[x])
          BY <2>2, <2>3, AlikeObjects
        <5> QED BY <2>3, <5>1 DEF CallOK
      <4> QED BY <2>5, <3>1, <4>1 DEF Above
    <3>2. CASE j # 1
      <4>1. /\ j - 1 \in DOMAIN s /\ t[j] = s[j - 1] /\ j \in Int /\ j > 1
            /\ s[j - 1] \in Frames /\ FrameOK(s[j - 1], o)
        BY <2>4, <2>5, <3>2
      <4>2. CallOK(s[j - 1], Above(t, j), o, R, a, m)
        <5>1. CASE j = 2
          <6>1. Above(t, j) = x /\ s # <<>> /\ s[j - 1] = s[1]
            BY <2>3, <2>5, <4>1, <5>1 DEF Above
          <6> QED BY <6>1
        <5>2. CASE j # 2
          <6>1. /\ j - 1 \in DOMAIN s \ {1} /\ j - 1 \in DOMAIN t /\ j - 1 # 1
                /\ t[j - 1] = s[(j - 1) - 1]
            <7>1. DOMAIN t = 1 .. Len(s) + 1 /\ DOMAIN s = 1 .. Len(s) /\ Len(s) \in Nat
              BY <2>4, <2>5
            <7>2. j - 1 \in DOMAIN s \ {1} /\ j - 1 \in DOMAIN t /\ j - 1 # 1
              BY <4>1, <5>2, <7>1
            <7> QED BY <2>5, <7>2
          <6>2. Above(t, j) = Above(s, j - 1)
            BY <3>2, <6>1 DEF Above
          <6> QED BY <6>1, <6>2
        <5> QED BY <5>1, <5>2
      <4> QED BY <2>2, <4>1, <4>2, AlikeCall
    <3> QED BY <3>1, <3>2
  <2> QED BY <2>1, <2>6, <2>7, <2>8 DEF CallsOK
<1> QED BY <1>1, <1>2

-----------------------------------------------------------------------------
\* The caller's steps: no call is on the stack.
LEMMA Idle ==
  ASSUME NEW o, NEW R, NEW a, NEW m
  PROVE  CallsOK(<<>>, o, R, a, m)
BY DEF CallsOK

\* What is said of the answer is said of no other.
LEMMA Unanswered ==
  ASSUME SInv, Null \notin Objects, answer' = Null, stored' = stored,
         request' = request, request = "open", trying' = FALSE, Sound',
         meant' \in [Lectures -> Courses \union Ids]
  PROVE  SInv'
<1>1. SavedMeansStored' /\ KeepsCourseObject' /\ CommitsAll'
  <2>1. answer' \notin Lectures /\ answer' = Null /\ request' = "open"
    BY DEF Objects
  <2> QED BY <2>1 DEF SavedMeansStored, KeepsCourseObject, CommitsAll
<1> QED BY <1>1 DEF SInv

LEMMA SetTitleSound ==
  ASSUME IInv, SInv, NEW x \in Objects, SetTitle(x)
  PROVE  SInv'
<1> DEFINE p == [obj[x] EXCEPT !.title = 1,
                               !.dirty = IF obj[x].title = 1 THEN obj[x].dirty
                                         ELSE obj[x].dirty \union {"title"}]
<1>1. /\ stack = <<>> /\ request = "open" /\ answer' = Null
      /\ UNCHANGED <<added, rows, stored, stack, trying, request, meant>>
      /\ obj \in [Objects -> Recs] /\ added \in [Courses -> Seq(Lectures)]
      /\ obj' = [obj EXCEPT ![x].title = 1,
                            ![x].dirty = IF obj[x].title = 1 THEN obj[x].dirty
                                         ELSE obj[x].dirty \union {"title"}]
  BY DEF SetTitle, Free, tables, IInv
<1>2. obj' = [obj EXCEPT ![x] = p]
  BY <1>1 DEF Recs
<1>3. /\ p.new = obj[x].new /\ p.id = obj[x].id /\ p.course = obj[x].course
      /\ p.course_id = obj[x].course_id /\ p.saving = obj[x].saving
      /\ p.title = obj[x].title \/ "title" \in p.dirty
      /\ obj[x].dirty \subseteq p.dirty /\ p.dirty \subseteq obj[x].dirty \union {"title"}
  BY <1>1 DEF Recs, Props
<1> HIDE DEF p
<1>4. Sound
  BY <1>1 DEF SInv
<1>5. \A y \in Objects : /\ New(obj'[y]) <=> New(obj[y])
                         /\ Wins(obj'[y]) <=> Wins(obj[y])
                         /\ obj'[y].new = obj[y].new /\ obj'[y].id = obj[y].id
                         /\ obj'[y].course = obj[y].course
                         /\ obj'[y].course_id = obj[y].course_id
                         /\ obj'[y].saving = obj[y].saving
  BY <1>1, <1>2, <1>3 DEF New, Wins
<1>6. ObjectsOK(obj', stack, rows)
  <2> SUFFICES ASSUME NEW y \in Objects
               PROVE  /\ Numbered(obj'[y]) /\ Synced(rows, obj', y)
                      /\ obj'[y].saving => \E i \in DOMAIN stack : stack[i].of = y
    BY DEF ObjectsOK
  <2>1. Numbered(obj[y]) /\ Synced(rows, obj, y) /\ (obj[y].saving => \E i \in DOMAIN stack : stack[i].of = y)
    BY <1>4 DEF Sound, ObjectsOK
  <2>2. Numbered(obj'[y])
    BY <1>5, <2>1 DEF Numbered
  <2>3. Synced(rows, obj', y)
    <3>1. CASE y # x
      BY <1>1, <1>2, <2>1, <3>1 DEF Synced
    <3>2. CASE y = x
      <4>1. obj'[y] = p
        BY <1>1, <1>2, <3>2
      <4> QED BY <1>3, <1>5, <2>1, <3>2, <4>1 DEF Synced
    <3> QED BY <3>1, <3>2
  <2> QED BY <1>5, <2>1, <2>2, <2>3
<1>7. LecturesOK(obj', added, meant)
  <2>1. Courses \subseteq Objects /\ Lectures \subseteq Objects
    BY DEF Objects
  <2>2. ASSUME NEW l \in Lectures PROVE MeantOK(obj', meant, l)
    <3>1. MeantOK(obj, meant, l)
      BY <1>4 DEF Sound, LecturesOK
    <3> QED BY <1>5, <2>1, <3>1 DEF MeantOK, Refers
  <2>3. ASSUME NEW c \in Courses, NEW i \in DOMAIN added[c]
        PROVE  obj'[added[c][i]].course = c /\ meant[added[c][i]] = c
    <3>1. added[c][i] \in Objects
      BY <1>1, <2>1
    <3> QED BY <1>4, <1>5, <3>1 DEF Sound, LecturesOK
  <2> QED BY <2>2, <2>3 DEF LecturesOK
<1>8. Sound'
  BY <1>1, <1>4, <1>6, <1>7, Idle DEF Sound
<1> QED BY <1>1, <1>8, Unanswered, RecordSaveConstants DEF SInv

\* A lecture l that does not wait becomes p, and the objects o.
Set(l, p, o, m) ==
  /\ Kept(obj[l], p) /\ Numbered(p)
  /\ p.title = obj[l].title /\ obj[l].dirty \subseteq p.dirty
  /\ p.course_id = obj[l].course_id \/ "course_id" \in p.dirty
  /\ ~ Waiting(l) /\ o = [obj EXCEPT ![l] = p]
  /\ \A k \in Lectures \ {l} : m[k] = meant[k]
  /\ MeantOK(o, m, l)

LEMMA LectureSet ==
  ASSUME IInv, Sound, stack = <<>>, NEW l \in Lectures, NEW p, NEW o, NEW m, Set(l, p, o, m)
  PROVE  /\ ObjectsOK(o, stack, rows) /\ LecturesOK(o, added, m)
         /\ \A c \in Courses : \A i \in DOMAIN added[c] : added[c][i] \in Lectures \ {l}
         /\ \A y \in Objects \ {l} : o[y] = obj[y]
<1> USE DEF Set
<1>1. /\ obj \in [Objects -> Recs] /\ added \in [Courses -> Seq(Lectures)]
      /\ l \in Objects /\ Courses \subseteq Objects \ {l} /\ Lectures \subseteq Objects
  BY RecordSaveConstants DEF IInv, Objects
<1>2. o[l] = p /\ \A y \in Objects \ {l} : o[y] = obj[y]
  BY <1>1
<1>3. New(p) <=> New(obj[l])
  BY DEF Kept, New
<1>4. ObjectsOK(o, stack, rows)
  <2> SUFFICES ASSUME NEW y \in Objects
               PROVE  /\ Numbered(o[y]) /\ Synced(rows, o, y)
                      /\ o[y].saving => \E i \in DOMAIN stack : stack[i].of = y
    BY DEF ObjectsOK
  <2>1. Numbered(obj[y]) /\ Synced(rows, obj, y)
        /\ (obj[y].saving => \E i \in DOMAIN stack : stack[i].of = y)
    BY DEF Sound, ObjectsOK
  <2>2. CASE y # l
    BY <1>2, <2>1, <2>2 DEF Synced
  <2>3. CASE y = l
    <3>1. p.id = obj[l].id /\ p.saving = obj[l].saving
      BY DEF Kept
    <3>2. Synced(rows, o, y)
      BY <1>2, <1>3, <2>1, <2>3, <3>1 DEF Synced
    <3> QED BY <1>2, <2>1, <2>3, <3>1, <3>2
  <2> QED BY <2>2, <2>3
<1>5. \A c \in Courses : \A i \in DOMAIN added[c] : added[c][i] \in Lectures \ {l}
  <2> SUFFICES ASSUME NEW c \in Courses, NEW i \in DOMAIN added[c]
               PROVE  added[c][i] \in Lectures /\ added[c][i] # l
    OBVIOUS
  <2>1. added[c] \in Seq(Lectures)
    BY <1>1
  <2>2. added[c][i] \in Lectures
    BY <2>1
  <2>3. ~ Contains(added[c], l)
    BY DEF Waiting
  <2>4. \A j \in 1 .. Len(added[c]) : added[c][j] # l
    BY <2>3 DEF Contains
  <2> QED BY <2>1, <2>2, <2>4
<1>6. LecturesOK(o, added, m)
  <2>1. ASSUME NEW k \in Lectures PROVE MeantOK(o, m, k)
    <3>1. CASE k # l
      <4>1. MeantOK(obj, meant, k) /\ m[k] = meant[k] /\ o[k] = obj[k]
        BY <1>1, <1>2, <3>1 DEF Sound, LecturesOK
      <4> QED BY <1>1, <1>2, <4>1 DEF MeantOK, Refers
    <3> QED BY <3>1
  <2>2. ASSUME NEW c \in Courses, NEW i \in DOMAIN added[c]
        PROVE  o[added[c][i]].course = c /\ m[added[c][i]] = c
    <3>1. obj[added[c][i]].course = c /\ meant[added[c][i]] = c
      BY DEF Sound, LecturesOK
    <3> QED BY <1>1, <1>2, <1>5, <3>1
  <2> QED BY <2>1, <2>2 DEF LecturesOK
<1> QED BY <1>2, <1>4, <1>5, <1>6

\* What the property course becomes, a column that wins refers to.
LEMMA WithCourseSound ==
  ASSUME IInv, Sound, NEW l \in Lectures, NEW c \in Courses \union {Null},
         NEW p, p = WithCourse(obj[l], c)
  PROVE  /\ Kept(obj[l], p) /\ p \in Recs /\ Numbered(p) /\ p.title = obj[l].title
         /\ obj[l].dirty \subseteq p.dirty /\ p.course_id = obj[l].course_id /\ p.course = c
         /\ c \in Courses /\ Wins(p) => p.course_id = obj[c].id /\ ~ New(obj[c])
<1>1. obj[l] \in Recs /\ l \in Objects /\ Courses \subseteq Objects
  BY DEF IInv, Objects
<1>2. Kept(obj[l], p) /\ p.course = c /\ p \in Recs
  BY <1>1, WithCourseKept DEF Kept
<1>3. p.title = obj[l].title /\ p.course_id = obj[l].course_id
      /\ obj[l].dirty \subseteq p.dirty
      /\ p.dirty = IF c # Null /\ obj[c].id = obj[l].course_id THEN obj[l].dirty
                   ELSE obj[l].dirty \union {"course"}
  BY <1>1 DEF WithCourse, Recs
<1>4. Numbered(obj[l])
  BY <1>1 DEF Sound, ObjectsOK
<1>5. Wins(p) => Wins(obj[l]) /\ obj[c].id = obj[l].course_id
  BY <1>3 DEF Wins
<1>6. Numbered(p)
  BY <1>2, <1>3, <1>4, <1>5 DEF Numbered, Kept
<1>7. c \in Courses /\ Wins(p) => p.course_id = obj[c].id /\ ~ New(obj[c])
  <2> SUFFICES ASSUME c \in Courses, Wins(p) PROVE p.course_id = obj[c].id /\ ~ New(obj[c])
    OBVIOUS
  <2>1. obj[c].id = p.course_id /\ obj[c].id # Null
    BY <1>3, <1>4, <1>5 DEF Numbered
  <2>2. Numbered(obj[c])
    BY <1>1 DEF Sound, ObjectsOK
  <2> QED BY <2>1, <2>2 DEF Numbered, New
<1> QED BY <1>2, <1>3, <1>6, <1>7

LEMMA SetCourseSound ==
  ASSUME IInv, SInv, NEW l \in Lectures, NEW c \in Courses \union {Null}, SetCourse(l, c)
  PROVE  SInv'
<1> DEFINE p == WithCourse(obj[l], c)
<1>1. /\ stack = <<>> /\ request = "open" /\ answer' = Null /\ ~ Waiting(l)
      /\ UNCHANGED <<added, rows, stored, stack, trying, request>>
      /\ obj' = [obj EXCEPT ![l] = p] /\ meant' = [meant EXCEPT ![l] = c]
  BY DEF SetCourse, Free, tables
<1>2. Sound /\ meant \in [Lectures -> Courses \union Ids] /\ trying = FALSE
      /\ obj \in [Objects -> Recs] /\ l \in Objects /\ Courses \subseteq Objects \ {l}
  BY <1>1, RecordSaveConstants DEF SInv, IInv, Objects
<1> HIDE DEF p
<1>3. /\ Kept(obj[l], p) /\ p \in Recs /\ Numbered(p) /\ p.title = obj[l].title
      /\ obj[l].dirty \subseteq p.dirty /\ p.course_id = obj[l].course_id /\ p.course = c
      /\ c \in Courses /\ Wins(p) => p.course_id = obj[c].id /\ ~ New(obj[c])
  BY <1>2, WithCourseSound DEF p
<1>4. meant'[l] = c /\ \A k \in Lectures \ {l} : meant'[k] = meant[k]
  BY <1>1, <1>2
<1>5. MeantOK(obj', meant', l)
  <2>1. obj'[l] = p /\ \A y \in Courses : obj'[y] = obj[y]
    BY <1>1, <1>2
  <2> QED BY <1>3, <1>4, <2>1 DEF MeantOK, Refers
<1>6. ObjectsOK(obj', stack, rows) /\ LecturesOK(obj', added, meant')
  <2>1. Set(l, p, obj', meant')
    BY <1>1, <1>3, <1>4, <1>5 DEF Set
  <2> QED BY <1>1, <1>2, <2>1, LectureSet
<1>7. Sound'
  BY <1>1, <1>2, <1>6, Idle DEF Sound
<1>8. meant' \in [Lectures -> Courses \union Ids]
  BY <1>1, <1>2 DEF Ids
<1> QED BY <1>1, <1>2, <1>7, <1>8, Unanswered, RecordSaveConstants

LEMMA SetCourseIdSound ==
  ASSUME IInv, SInv, NEW l \in Lectures, NEW i \in {obj[c].id : c \in Courses},
         SetCourseId(l, i)
  PROVE  SInv'
<1> DEFINE p == WithCourseId(obj[l], i)
<1>1. /\ stack = <<>> /\ request = "open" /\ answer' = Null /\ ~ Waiting(l) /\ i # Null
      /\ UNCHANGED <<added, rows, stored, stack, trying, request>>
      /\ obj' = [obj EXCEPT ![l] = p]
      /\ meant' = IF "course" \in obj[l].dirty THEN meant ELSE [meant EXCEPT ![l] = i]
  BY DEF SetCourseId, Free, tables
<1>2. Sound /\ meant \in [Lectures -> Courses \union Ids] /\ trying = FALSE
      /\ obj \in [Objects -> Recs] /\ l \in Objects /\ Courses \subseteq Objects \ {l}
  BY <1>1, RecordSaveConstants DEF SInv, IInv, Objects
<1>3. i \in Ids /\ i \notin Courses /\ obj[l] \in Recs
  BY <1>1, <1>2, RecordSaveConstants DEF Recs, Ids, Objects
<1>4. /\ Kept(obj[l], p) /\ p.title = obj[l].title /\ p.course = obj[l].course
      /\ p.course_id = i /\ obj[l].dirty \subseteq p.dirty
      /\ p.course_id = obj[l].course_id \/ "course_id" \in p.dirty
  <2>1. Kept(obj[l], p) /\ p.course = obj[l].course
    BY <1>3, WithCourseIdKept
  <2> QED BY <1>3, <2>1 DEF WithCourseId, Recs
<1>5. Numbered(p)
  <2>1. Numbered(obj[l])
    BY <1>2 DEF Sound, ObjectsOK
  <2> QED BY <1>1, <1>4, <2>1 DEF Numbered, Kept
<1> HIDE DEF p
<1>6. \A k \in Lectures \ {l} : meant'[k] = meant[k]
  BY <1>1, <1>2
<1>7. MeantOK(obj', meant', l)
  <2>1. obj'[l] = p /\ \A y \in Courses : obj'[y] = obj[y]
    BY <1>1, <1>2
  <2>2. MeantOK(obj, meant, l)
    BY <1>2 DEF Sound, LecturesOK
  <2>3. CASE "course" \in obj[l].dirty
    <3>1. ~ Wins(p) /\ meant' = meant
      BY <1>1, <1>4, <2>3 DEF Wins
    <3> QED BY <1>4, <2>1, <2>2, <3>1 DEF MeantOK
  <2>4. CASE "course" \notin obj[l].dirty
    <3>1. meant'[l] = i
      BY <1>1, <1>2, <2>4
    <3> QED BY <1>3, <3>1 DEF MeantOK
  <2> QED BY <2>3, <2>4
<1>8. ObjectsOK(obj', stack, rows) /\ LecturesOK(obj', added, meant')
  <2>1. Set(l, p, obj', meant')
    BY <1>1, <1>4, <1>5, <1>6, <1>7 DEF Set
  <2> QED BY <1>1, <1>2, <2>1, LectureSet
<1>9. Sound'
  BY <1>1, <1>2, <1>8, Idle DEF Sound
<1>10. meant' \in [Lectures -> Courses \union Ids]
  BY <1>1, <1>2, <1>3
<1> QED BY <1>1, <1>2, <1>9, <1>10, Unanswered, RecordSaveConstants

LEMMA AddLectureSound ==
  ASSUME IInv, SInv, NEW c \in Courses, NEW l \in Lectures, AddLecture(c, l)
  PROVE  SInv'
<1> DEFINE p == WithCourse(obj[l], c)
           q == WithCourseId(p, obj[c].id)
<1>1. /\ stack = <<>> /\ request = "open" /\ answer' = Null /\ ~ Waiting(l)
      /\ UNCHANGED <<rows, stored, request>> /\ trying' = FALSE
      /\ meant' = [meant EXCEPT ![l] = c]
  BY DEF AddLecture, Free, tables
<1>2. /\ Sound /\ meant \in [Lectures -> Courses \union Ids]
      /\ obj \in [Objects -> Recs] /\ added \in [Courses -> Seq(Lectures)]
      /\ l \in Objects /\ c \in Objects /\ Courses \subseteq Objects \ {l}
      /\ obj[l] \in Recs /\ obj[c].id \in Ids
  BY <1>1, RecordSaveConstants DEF SInv, IInv, Objects, Recs
<1>3. /\ Kept(obj[l], p) /\ p \in Recs /\ Numbered(p) /\ p.title = obj[l].title
      /\ obj[l].dirty \subseteq p.dirty /\ p.course_id = obj[l].course_id /\ p.course = c
      /\ Wins(p) => p.course_id = obj[c].id /\ ~ New(obj[c])
  <2> HIDE DEF p
  <2>1. p = WithCourse(obj[l], c)
    BY DEF p
  <2> QED BY <1>2, <2>1, WithCourseSound
<1>4. /\ meant'[l] = c /\ \A k \in Lectures \ {l} : meant'[k] = meant[k]
      /\ meant' \in [Lectures -> Courses \union Ids]
  BY <1>1, <1>2
<1>5. CASE IsNew(c) \/ added[c] # <<>>
  <2>1. /\ obj' = [obj EXCEPT ![l] = p] /\ added' = [added EXCEPT ![c] = Append(added[c], l)]
        /\ stack' = <<>>
    BY <1>5 DEF AddLecture, Free
  <2> HIDE DEF p
  <2>2. MeantOK(obj', meant', l)
    <3>1. obj'[l] = p /\ \A y \in Courses : obj'[y] = obj[y]
      BY <1>2, <2>1
    <3> QED BY <1>3, <1>4, <3>1 DEF MeantOK, Refers
  <2>3. Set(l, p, obj', meant')
    BY <1>1, <1>3, <1>4, <2>1, <2>2 DEF Set
  <2>4. /\ ObjectsOK(obj', stack, rows) /\ LecturesOK(obj', added, meant')
    BY <1>1, <1>2, <2>3, LectureSet
  <2>5. LecturesOK(obj', added', meant')
    <3> SUFFICES ASSUME NEW d \in Courses, NEW i \in DOMAIN added'[d]
                 PROVE  obj'[added'[d][i]].course = d /\ meant'[added'[d][i]] = d
      BY <2>4 DEF LecturesOK
    <3>1. CASE d # c
      <4>1. added'[d] = added[d]
        BY <1>2, <2>1, <3>1
      <4> QED BY <2>4, <4>1 DEF LecturesOK
    <3>2. CASE d = c
      <4>1. added'[d] = Append(added[c], l) /\ added[c] \in Seq(Lectures)
        BY <1>2, <2>1, <3>2
      <4>2. \/ added'[d][i] = l
            \/ i \in DOMAIN added[c] /\ added'[d][i] = added[c][i]
        BY <4>1
      <4>3. obj'[l].course = c
        BY <1>2, <1>3, <2>1
      <4>4. CASE added'[d][i] = l
        BY <1>4, <3>2, <4>3, <4>4
      <4>5. CASE i \in DOMAIN added[c] /\ added'[d][i] = added[c][i]
        BY <2>4, <3>2, <4>5 DEF LecturesOK
      <4> QED BY <4>2, <4>4, <4>5
    <3> QED BY <3>1, <3>2
  <2>6. Sound'
    BY <1>1, <1>2, <2>1, <2>4, <2>5, Idle DEF Sound
  <2> QED BY <1>1, <1>4, <2>6, Unanswered, RecordSaveConstants
<1>6. CASE ~ (IsNew(c) \/ added[c] # <<>>)
  <2> DEFINE o == [obj EXCEPT ![l] = q]
  <2>1. Call(l, o, <<>>) /\ added' = added
    BY <1>6 DEF AddLecture
  <2>2. obj[c].id # Null /\ ~ New(obj[c])
    BY <1>6 DEF IsNew, New
  <2> HIDE DEF p
  <2>3. /\ Kept(obj[l], q) /\ q.title = obj[l].title /\ q.course = c
        /\ q.course_id = obj[c].id /\ obj[l].dirty \subseteq q.dirty
        /\ q.course_id = obj[l].course_id \/ "course_id" \in q.dirty
    <3>1. Kept(p, q) /\ q.course = p.course
      BY <1>2, <1>3, WithCourseIdKept
    <3>2. /\ q.title = p.title /\ q.course_id = obj[c].id /\ p.dirty \subseteq q.dirty
          /\ q.course_id = p.course_id \/ "course_id" \in q.dirty
      BY <1>2, <1>3 DEF WithCourseId, Recs
    <3> QED BY <1>3, <3>1, <3>2 DEF Kept
  <2>4. Numbered(q)
    <3>1. Numbered(obj[l])
      BY <1>2 DEF Sound, ObjectsOK
    <3> QED BY <2>2, <2>3, <3>1 DEF Numbered, Kept
  <2> HIDE DEF q
  <2>5. o[l] = q /\ \A y \in Courses : o[y] = obj[y]
    BY <1>2
  <2>6. o = [obj EXCEPT ![l] = q]
    OBVIOUS
  <2> HIDE DEF o
  <2>7. MeantOK(o, meant', l)
    BY <1>4, <2>2, <2>3, <2>5 DEF MeantOK, Refers
  <2>8. Set(l, q, o, meant')
    BY <1>1, <1>4, <2>3, <2>4, <2>6, <2>7 DEF Set
  <2>9. /\ ObjectsOK(o, <<>>, rows) /\ LecturesOK(o, added, meant')
    BY <1>1, <1>2, <2>8, LectureSet
  <2>10. o \in [Objects -> Recs] /\ (New(o[l]) <=> IsNew(l))
    BY <1>2, <2>3, <2>6, ObjectSet
  <2>11. /\ ObjectsOK(obj', stack', rows) /\ LecturesOK(obj', added, meant')
         /\ CallsOK(stack', obj', rows, added, meant')
    <3>1. Callable(l, o, <<>>, rows, added, meant')
      BY <2>9 DEF Callable
    <3> QED BY <1>2, <2>1, <2>10, <3>1, NoFrames, CallSound
  <2>12. Sound'
    BY <1>1, <1>2, <2>1, <2>11 DEF Sound
  <2> QED BY <1>1, <1>4, <2>12, Unanswered, RecordSaveConstants
<1> QED BY <1>5, <1>6

\* save is called and does not return at once: nothing is being saved yet.
LEMMA SaveSound ==
  ASSUME IInv, SInv, ~ Tries, NEW x \in Objects, NEW try \in BOOLEAN, Save(x, try)
  PROVE  SInv'
<1>1. /\ stack = <<>> /\ request = "open" /\ Call(x, obj, <<>>) /\ trying' = FALSE
      /\ UNCHANGED <<added, rows, stored, request, meant>>
      /\ answer' = IF Saving(x, obj) THEN x ELSE Null
  BY DEF Save, Free, tables
<1>2. /\ Sound /\ meant \in [Lectures -> Courses \union Ids]
      /\ obj \in [Objects -> Recs] /\ added \in [Courses -> Seq(Lectures)]
  BY <1>1 DEF SInv, IInv
<1>3. /\ ObjectsOK(obj, <<>>, rows) /\ LecturesOK(obj, added, meant)
  BY <1>1, <1>2 DEF Sound
<1>4. answer' = Null
  <2>1. ~ obj[x].saving
    BY <1>3 DEF ObjectsOK
  <2> QED BY <1>1, <2>1 DEF Saving
<1>5. /\ ObjectsOK(obj', stack', rows) /\ LecturesOK(obj', added, meant)
      /\ CallsOK(stack', obj', rows, added, meant)
  <2>1. Callable(x, obj, <<>>, rows, added, meant)
    BY <1>3 DEF Callable
  <2> QED BY <1>1, <1>2, <2>1, NoFrames, CallSound DEF New, IsNew
<1>6. Sound'
  BY <1>1, <1>2, <1>5 DEF Sound
<1> QED BY <1>1, <1>2, <1>4, <1>6, Unanswered, RecordSaveConstants

\* A row that agrees with an object that is not dirty is its row.
LEMMA CleanRow ==
  ASSUME NEW R \in SUBSET RowRecs, NEW o, NEW x, Synced(R, o, x), ~ New(o[x]),
         o[x].dirty = {}
  PROVE  RowOf(o, x) \in R
<1>1. PICK r \in R : r.of = x /\ r.id = o[x].id /\ r.title = o[x].title
                     /\ r.course_id = o[x].course_id
  BY DEF Synced
<1>2. r = RowOf(o, x)
  BY <1>1 DEF RowRecs, RowOf
<1> QED BY <1>2

LEMMA EndSound ==
  ASSUME IInv, SInv, End
  PROVE  SInv'
<1>1. /\ stored' = rows /\ UNCHANGED <<obj, added, rows, stack, trying, meant>>
      /\ stack = <<>> /\ request = "open" /\ request' = "done" /\ answer' = Null
  BY DEF End, Free, IInv
<1>2. Sound /\ rows \subseteq RowRecs /\ Null \notin Lectures
  BY <1>1, RecordSaveConstants DEF SInv, IInv, TableOK, Objects
<1>3. Sound'
  BY <1>1, <1>2 DEF Sound
<1>4. ASSUME NEW x \in Objects, ~ New(obj[x]), obj[x].dirty = {}
      PROVE  RowOf(obj, x) \in rows
  BY <1>2, <1>4, CleanRow DEF Sound, ObjectsOK
<1>5. CommitsAll'
  BY <1>1, <1>4 DEF CommitsAll, RowOf, Row, New, IsNew
<1>6. SavedMeansStored' /\ KeepsCourseObject'
  BY <1>1, <1>2 DEF SavedMeansStored, KeepsCourseObject
<1> QED BY <1>1, <1>3, <1>5, <1>6 DEF SInv

\* Without trySave an exception ends the request.
LEMMA RaiseSound ==
  ASSUME IInv, SInv, Raise, stack # <<>>
  PROVE  SInv'
<1>1. /\ rows' = stored /\ stack' = <<>> /\ request' = "failed" /\ answer' = Null
      /\ UNCHANGED <<stored, trying, meant>> /\ request = "open"
  BY DEF Raise, SInv, IInv
<1>2. Null \notin Lectures /\ \A r \in stored : r.id < 3
  BY <1>1, RecordSaveConstants DEF SInv, Objects
<1>3. SavedMeansStored' /\ KeepsCourseObject' /\ CommitsAll'
  BY <1>1, <1>2 DEF SavedMeansStored, KeepsCourseObject, CommitsAll
<1> QED BY <1>1, <1>2, <1>3 DEF SInv

-----------------------------------------------------------------------------
\* Of an object below the innermost one, x, a step keeps the course, and of a course
\* its row and its collection.
Later(x, o, p, R, Q, a, b) ==
  /\ \A y \in Objects : New(p[y]) => New(o[y])
  /\ \A y \in Objects \ {x} : p[y].course = o[y].course
  /\ \A y \in Courses \ {x} : /\ RowOf(p, y) = RowOf(o, y) /\ b[y] = a[y]
                              /\ RowOf(o, y) \in R => RowOf(o, y) \in Q

\* The calls below the innermost one, which is for x.
LEMMA BelowSound ==
  ASSUME NEW s, NEW o, NEW p, FramesOK(s, o), s # <<>>, NEW x, s[1].of = x,
         NEW R, NEW Q, NEW a, NEW b, NEW m, CallsOK(s, o, R, a, m),
         Later(x, o, p, R, Q, a, b)
  PROVE  \A i \in DOMAIN s \ {1} :
           Above(s, i) \in Objects /\ CallOK(s[i], Above(s, i), p, Q, b, m)
<1> USE DEF Later
<1> SUFFICES ASSUME NEW i \in DOMAIN s \ {1}
             PROVE  Above(s, i) \in Objects /\ CallOK(s[i], Above(s, i), p, Q, b, m)
  OBVIOUS
<1>1. /\ s \in Seq(Frames) /\ 1 \in DOMAIN s
      /\ \A j \in DOMAIN s : s[j] \in Frames /\ s[j].of \in Objects /\ FrameOK(s[j], o)
      /\ \A j, k \in DOMAIN s : s[j].of = s[k].of => j = k
  BY FrameParts
<1>2. i - 1 \in DOMAIN s
  BY <1>1
<1>3. Above(s, i) \in Objects /\ Above(s, i) # Null
  BY <1>1, <1>2, RecordSaveConstants DEF Above
<1>4. s[i].of # x /\ s[i].of \in Objects /\ x \in Objects
  BY <1>1
<1>5. CallOK(s[i], Above(s, i), o, R, a, m)
  BY DEF CallsOK
<1>6. p[s[i].of].course = o[s[i].of].course
  BY <1>4
<1>7. CallOK(s[i], Above(s, i), p, Q, b, m)
  BY <1>1, <1>3, <1>4, <1>5, <1>6, BelowKept
<1> QED BY <1>3, <1>7

\* The innermost call, for x, becomes f, the objects p and the table Q.
Worked(x, f, p, Q) ==
  /\ f \in Frames /\ f.of = x
  /\ \A y \in Objects \ {x} : p[y] = obj[y]
  /\ p[x].course = obj[x].course
  /\ ~ New(obj[x]) => ~ New(p[x]) /\ p[x].id = obj[x].id
  /\ Numbered(p[x]) /\ Synced(Q, p, x)
  /\ x \in Lectures => MeantOK(p, meant, x)
  /\ \A r \in rows : r.of # x => r \in Q
  /\ IdsOK(Q)
  /\ CallOK(f, Null, p, Q, added, meant)

LEMMA Running ==
  ASSUME IInv, SInv, stack # <<>>
  PROVE  /\ request = "open" /\ answer = Null /\ trying = FALSE /\ Sound
         /\ 1 \in DOMAIN stack /\ stack[1] \in Frames /\ stack[1].of \in Objects
         /\ FrameOK(stack[1], obj) /\ CallOK(stack[1], Null, obj, rows, added, meant)
         /\ Numbered(obj[stack[1].of]) /\ Synced(rows, obj, stack[1].of)
         /\ stack[1].of \in Lectures => MeantOK(obj, meant, stack[1].of)
<1>1. request = "open" /\ answer = Null /\ trying = FALSE /\ Sound
  BY DEF SInv
<1>2. /\ stack \in Seq(Frames)
      /\ \A i \in DOMAIN stack :
           stack[i] \in Frames /\ stack[i].of \in Objects /\ FrameOK(stack[i], obj)
  BY FrameParts DEF IInv
<1>3. 1 \in DOMAIN stack
  BY <1>2
<1>4. CallOK(stack[1], Null, obj, rows, added, meant)
  BY <1>1, <1>3 DEF Sound, CallsOK, Above
<1> QED BY <1>1, <1>2, <1>3, <1>4 DEF Sound, ObjectsOK, LecturesOK

\* Lectures keep their courses, and courses their ids.
LEMMA LecturesKept ==
  ASSUME NEW o, NEW p, NEW x \in Objects, NEW a \in [Courses -> Seq(Lectures)], NEW m,
         LecturesOK(o, a, m), \A y \in Objects \ {x} : p[y] = o[y],
         p[x].course = o[x].course, x \in Lectures => MeantOK(p, m, x),
         ~ New(o[x]) => ~ New(p[x]) /\ p[x].id = o[x].id
  PROVE  LecturesOK(p, a, m)
<1>1. ASSUME NEW l \in Lectures PROVE MeantOK(p, m, l)
  <2>1. CASE l # x
    <3>1. MeantOK(o, m, l) /\ p[l] = o[l]
      BY <2>1 DEF LecturesOK, Objects
    <3>2. \A c \in Courses : Refers(o, l, c) => Refers(p, l, c)
      <4> SUFFICES ASSUME NEW c \in Courses, Refers(o, l, c) PROVE Refers(p, l, c)
        OBVIOUS
      <4>1. CASE c = x
        BY <3>1, <4>1 DEF Refers
      <4>2. CASE c # x
        <5>1. p[c] = o[c]
          BY <4>2 DEF Objects
        <5> QED BY <3>1, <5>1 DEF Refers
      <4> QED BY <4>1, <4>2
    <3> QED BY <3>1, <3>2 DEF MeantOK
  <2> QED BY <2>1
<1>2. ASSUME NEW c \in Courses, NEW i \in DOMAIN a[c] PROVE p[a[c][i]].course = c
  <2>1. a[c][i] \in Objects
    BY DEF Objects
  <2> QED BY <2>1 DEF LecturesOK
<1> QED BY <1>1, <1>2 DEF LecturesOK

LEMMA WorkedSound ==
  ASSUME IInv, SInv, NEW x \in Objects, stack # <<>>, stack[1].of = x, NEW f,
         Worked(x, f, obj', rows'), stack' = [stack EXCEPT ![1] = f],
         UNCHANGED <<added, stored, trying, request, answer, meant>>
  PROVE  SInv'
<1>1. /\ request = "open" /\ answer = Null /\ trying = FALSE /\ Sound
      /\ meant \in [Lectures -> Courses \union Ids] /\ added \in [Courses -> Seq(Lectures)]
      /\ FramesOK(stack, obj)
  BY Running DEF SInv, IInv
<1>2. /\ stack \in Seq(Frames) /\ 1 \in DOMAIN stack
  BY FrameParts, <1>1
<1>3. /\ DOMAIN stack' = DOMAIN stack /\ stack'[1] = f /\ f.of = x
      /\ \A i \in DOMAIN stack \ {1} : stack'[i] = stack[i]
  BY <1>2 DEF Worked
<1>4. \A i \in DOMAIN stack : stack'[i].of = stack[i].of
  BY <1>2, <1>3
<1>5. ObjectsOK(obj', stack', rows')
  <2> SUFFICES ASSUME NEW y \in Objects
               PROVE  /\ Numbered(obj'[y]) /\ Synced(rows', obj', y)
                      /\ obj'[y].saving => \E i \in DOMAIN stack' : stack'[i].of = y
    BY DEF ObjectsOK
  <2>1. CASE y = x
    BY <1>2, <1>3, <2>1 DEF Worked
  <2>2. CASE y # x
    <3>1. /\ Numbered(obj[y]) /\ Synced(rows, obj, y) /\ obj'[y] = obj[y]
          /\ obj[y].saving => \E i \in DOMAIN stack : stack[i].of = y
          /\ \A r \in rows : r.of # x => r \in rows'
      BY <1>1, <2>2 DEF Worked, Sound, ObjectsOK
    <3>2. Synced(rows', obj', y)
      BY <2>2, <3>1 DEF Synced
    <3> QED BY <1>3, <1>4, <3>1, <3>2
  <2> QED BY <2>1, <2>2
<1>6. LecturesOK(obj', added, meant)
  BY <1>1, LecturesKept DEF Worked, Sound
<1>7. CallsOK(stack', obj', rows', added, meant)
  <2>1. /\ \A y \in Objects : New(obj'[y]) => New(obj[y])
        /\ \A y \in Objects \ {x} : obj'[y].course = obj[y].course
    BY DEF Worked
  <2>2. \A y \in Courses \ {x} : /\ RowOf(obj', y) = RowOf(obj, y)
                                 /\ RowOf(obj, y) \in rows => RowOf(obj, y) \in rows'
    BY DEF Worked, RowOf, Objects
  <2>3. \A i \in DOMAIN stack \ {1} : CallOK(stack[i], Above(stack, i), obj', rows', added, meant)
    <3>1. Later(x, obj, obj', rows, rows', added, added)
      BY <2>1, <2>2 DEF Later
    <3> QED BY <1>1, <3>1, BelowSound DEF Sound
  <2> SUFFICES ASSUME NEW i \in DOMAIN stack'
               PROVE  CallOK(stack'[i], Above(stack', i), obj', rows', added, meant)
    BY DEF CallsOK
  <2>4. CASE i = 1
    BY <1>3, <2>4 DEF Worked, Above
  <2>5. CASE i # 1
    <3>1. i \in DOMAIN stack \ {1} /\ i - 1 \in DOMAIN stack
      BY <1>2, <1>3, <2>5
    <3>2. stack'[i] = stack[i] /\ Above(stack', i) = Above(stack, i)
      BY <1>3, <1>4, <3>1 DEF Above
    <3> QED BY <2>3, <3>1, <3>2
  <2> QED BY <2>4, <2>5
<1>8. Sound'
  BY <1>1, <1>5, <1>6, <1>7 DEF Worked, Sound
<1> QED BY <1>1, <1>8, Unanswered, RecordSaveConstants

\* The innermost call goes on to write.
LEMMA ThenWrites ==
  ASSUME IInv, NEW x, NEW pc, At(x, pc), GoTo("write")
  PROVE  \E f \in Frames : /\ stack' = [stack EXCEPT ![1] = f] /\ f.of = x /\ f.pc = "write"
                           /\ f.insert = stack[1].insert /\ f.rest = stack[1].rest
<1> DEFINE f == [stack[1] EXCEPT !.pc = "write"]
<1>1. stack[1] \in Frames /\ stack[1].of = x
  BY Top
<1>2. /\ f \in Frames /\ f.of = x /\ f.pc = "write"
      /\ f.insert = stack[1].insert /\ f.rest = stack[1].rest
  BY <1>1 DEF Frames, Pcs
<1>3. stack' = [stack EXCEPT ![1] = f]
  BY DEF GoTo
<1> QED BY <1>2, <1>3

LEMMA NoRelationsSound ==
  ASSUME IInv, SInv, NEW x \in Objects, NoRelations(x)
  PROVE  SInv'
<1>1. /\ At(x, "relations") /\ GoTo("write")
      /\ UNCHANGED <<added, rows, stored, request, trying, answer, meant>>
      /\ x \in Courses \/ FieldWins(x) \/ (obj[x].course = Null /\ "course" \notin obj[x].dirty)
  BY DEF NoRelations, tables
<1>2. /\ stack # <<>> /\ stack[1].of = x /\ Sound
      /\ CallOK(stack[1], Null, obj, rows, added, meant)
      /\ Numbered(obj[x]) /\ Synced(rows, obj, x)
      /\ x \in Lectures => MeantOK(obj, meant, x)
  BY <1>1, Running DEF At
<1>3. obj' = obj
  BY <1>2 DEF NoRelations, FieldWins, Numbered, Wins
<1>4. PICK f \in Frames : /\ stack' = [stack EXCEPT ![1] = f] /\ f.of = x /\ f.pc = "write"
                          /\ f.insert = stack[1].insert /\ f.rest = stack[1].rest
  BY <1>1, ThenWrites
<1>5. Ready(obj, meant, x)
  <2> SUFFICES ASSUME x \in Lectures, meant[x] \in Courses PROVE Refers(obj, x, meant[x])
    BY DEF Ready
  <2>1. x \notin Courses /\ obj[x].course # Null
    BY <1>2, RecordSaveConstants DEF MeantOK, Objects
  <2>2. Wins(obj[x])
    BY <1>1, <2>1 DEF FieldWins, Wins
  <2> QED BY <1>2, <2>2 DEF MeantOK
<1>6. CallOK(f, Null, obj, rows, added, meant)
  BY <1>2, <1>4, <1>5 DEF CallOK
<1>7. Worked(x, f, obj', rows')
  BY <1>1, <1>2, <1>3, <1>4, <1>6 DEF Worked, Sound
<1> QED BY <1>1, <1>2, <1>4, <1>7, WorkedSound

LEMMA ForgetCourseSound ==
  ASSUME IInv, SInv, NEW x \in Objects, ForgetCourse(x)
  PROVE  SInv'
<1> DEFINE p == [obj[x] EXCEPT !.course_id = Null, !.dirty = obj[x].dirty \union {"course_id"}]
<1>1. /\ At(x, "relations") /\ GoTo("write")
      /\ UNCHANGED <<added, rows, stored, request, trying, answer, meant>>
      /\ x \in Lectures /\ obj[x].course = Null /\ "course" \in obj[x].dirty
      /\ obj \in [Objects -> Recs]
  BY DEF ForgetCourse, tables, IInv
<1>2. /\ stack # <<>> /\ stack[1].of = x /\ Sound
      /\ CallOK(stack[1], Null, obj, rows, added, meant)
      /\ Numbered(obj[x]) /\ Synced(rows, obj, x) /\ MeantOK(obj, meant, x)
  BY <1>1, Running DEF At
<1>3. obj'[x] = p /\ \A y \in Objects \ {x} : obj'[y] = obj[y]
  BY <1>1 DEF ForgetCourse, Recs
<1>4. /\ p.new = obj[x].new /\ p.id = obj[x].id /\ p.title = obj[x].title
      /\ p.course = obj[x].course /\ p.dirty = obj[x].dirty \union {"course_id"}
  BY <1>1 DEF Recs
<1> HIDE DEF p
<1>5. meant[x] \notin Courses
  BY <1>1, <1>2, RecordSaveConstants DEF MeantOK, Objects
<1>6. PICK f \in Frames : /\ stack' = [stack EXCEPT ![1] = f] /\ f.of = x /\ f.pc = "write"
                          /\ f.insert = stack[1].insert /\ f.rest = stack[1].rest
  BY <1>1, ThenWrites
<1>7. New(p) <=> New(obj[x])
  BY <1>4 DEF New
<1>8. CallOK(f, Null, obj', rows, added, meant)
  BY <1>2, <1>3, <1>5, <1>6, <1>7 DEF CallOK, Ready
<1>9. Numbered(p)
  BY <1>1, <1>2, <1>4 DEF Numbered, Wins
<1>10. Synced(rows, obj', x)
  BY <1>2, <1>3, <1>4, <1>7 DEF Synced
<1>11. Worked(x, f, obj', rows')
  BY <1>1, <1>2, <1>3, <1>4, <1>5, <1>6, <1>7, <1>8, <1>9, <1>10 DEF Worked, Sound, MeantOK
<1> QED BY <1>1, <1>2, <1>6, <1>11, WorkedSound

\* The course is not new: either it was not, or the call of its save has returned.
LEMMA AssignCourseSound ==
  ASSUME IInv, SInv, NEW x \in Objects, AssignCourse(x)
  PROVE  SInv'
<1> DEFINE i == obj[obj[x].course].id
           p == WithCourseId(obj[x], i)
<1>1. /\ At(x, "assign") /\ GoTo("write")
      /\ UNCHANGED <<added, rows, stored, request, trying, answer, meant>>
      /\ obj' = [obj EXCEPT ![x] = p] /\ obj \in [Objects -> Recs]
  BY DEF AssignCourse, tables, IInv
<1>2. /\ stack # <<>> /\ stack[1].of = x /\ stack[1].pc = "assign" /\ Sound
      /\ CallOK(stack[1], Null, obj, rows, added, meant) /\ FrameOK(stack[1], obj)
      /\ Numbered(obj[x]) /\ Synced(rows, obj, x)
      /\ x \in Lectures => MeantOK(obj, meant, x)
  BY <1>1, Running DEF At
<1>3. x \in Lectures /\ obj[x].course \in Courses /\ obj[x].course \in Objects \ {x}
  BY <1>2, RecordSaveConstants DEF FrameOK, Objects
<1>4. ~ New(obj[obj[x].course])
  BY <1>2, <1>3, RecordSaveConstants DEF CallOK
<1>5. i \in Ids /\ i # Null
  BY <1>1, <1>3, <1>4 DEF New, Recs
<1>6. /\ p.new = obj[x].new /\ p.id = obj[x].id /\ p.title = obj[x].title
      /\ p.course = obj[x].course /\ p.course_id = i
      /\ p.dirty = IF i = obj[x].course_id THEN obj[x].dirty
                   ELSE obj[x].dirty \union {"course_id"}
  BY <1>1, <1>5 DEF WithCourseId, Recs
<1> HIDE DEF p, i
<1>7. obj'[x] = p /\ \A y \in Objects \ {x} : obj'[y] = obj[y]
  BY <1>1
<1>8. PICK f \in Frames : /\ stack' = [stack EXCEPT ![1] = f] /\ f.of = x /\ f.pc = "write"
                          /\ f.insert = stack[1].insert /\ f.rest = stack[1].rest
  BY <1>1, ThenWrites
<1>9. New(p) <=> New(obj[x])
  BY <1>6 DEF New
<1>10. meant[x] \in Courses => Refers(obj', x, meant[x])
  BY <1>2, <1>3, <1>4, <1>6, <1>7 DEF MeantOK, Refers, i
<1>11. MeantOK(obj', meant, x) /\ Ready(obj', meant, x)
  BY <1>2, <1>3, <1>6, <1>7, <1>10 DEF MeantOK, Ready
<1>12. CallOK(f, Null, obj', rows, added, meant)
  BY <1>2, <1>7, <1>8, <1>9, <1>11 DEF CallOK
<1>13. Numbered(p)
  BY <1>2, <1>5, <1>6 DEF Numbered
<1>14. Synced(rows, obj', x)
  BY <1>2, <1>6, <1>7, <1>9 DEF Synced
<1>15. Worked(x, f, obj', rows')
  BY <1>1, <1>2, <1>6, <1>7, <1>8, <1>9, <1>11, <1>12, <1>13, <1>14 DEF Worked, Sound
<1> QED BY <1>1, <1>2, <1>8, <1>15, WorkedSound

\* The object has been written, and its lectures come next.
LEMMA Collected ==
  ASSUME IInv, SInv, NEW x, At(x, "write"), Collect(x)
  PROVE  \E f \in Frames : /\ stack' = [stack EXCEPT ![1] = f]
                           /\ f.of = x /\ f.pc = "collection"
                           /\ f.rest = IF x \in Courses THEN added[x] ELSE <<>>
<1> DEFINE rest == IF x \in Courses THEN added[x] ELSE <<>>
           f == [[stack[1] EXCEPT !.pc = "collection"] EXCEPT !.rest = rest]
<1>1. /\ stack \in Seq(Frames) /\ stack # <<>> /\ 1 \in DOMAIN stack
      /\ stack[1] \in Frames /\ stack[1].of = x
  BY Top
<1>2. rest \in Seq(Lectures)
  BY DEF IInv
<1>3. stack' = [stack EXCEPT ![1] = f]
  <2>1. stack' = [stack EXCEPT ![1].pc = "collection", ![1].rest = rest]
    BY DEF Collect
  <2>2. [stack EXCEPT ![1].pc = "collection"][1] = [stack[1] EXCEPT !.pc = "collection"]
    BY <1>1
  <2> QED BY <1>1, <2>1, <2>2
<1> HIDE DEF rest
<1>4. f \in Frames /\ f.of = x /\ f.pc = "collection" /\ f.rest = rest
  BY <1>1, <1>2 DEF Frames, Pcs
<1> QED BY <1>3, <1>4 DEF rest

LEMMA CollectedCall ==
  ASSUME NEW f, NEW x, NEW o, NEW R, f.of = x, f.pc = "collection",
         f.rest = IF x \in Courses THEN added[x] ELSE <<>>,
         ~ New(o[x]), RowOf(o, x) \in R, Ready(o, meant, x)
  PROVE  CallOK(f, Null, o, R, added, meant)
BY RecordSaveConstants DEF CallOK

LEMMA InsertSound ==
  ASSUME IInv, SInv, NEW x \in Objects, Insert(x)
  PROVE  SInv'
<1> DEFINE row == [of |-> x, id |-> next_id, title |-> obj[x].title,
                   course_id |-> obj[x].course_id]
<1>1. /\ At(x, "write") /\ stack[1].insert /\ Collect(x)
      /\ obj' = [obj EXCEPT ![x].new = FALSE, ![x].id = next_id]
      /\ rows' = rows \union {[Row(x) EXCEPT !.id = next_id]}
      /\ UNCHANGED <<added, stored, request, trying, answer, meant>>
  BY DEF Insert, MustInsert
<1>2. /\ stack # <<>> /\ stack[1].of = x /\ Sound
      /\ CallOK(stack[1], Null, obj, rows, added, meant) /\ FrameOK(stack[1], obj)
      /\ Numbered(obj[x]) /\ stack[1].pc = "write"
      /\ x \in Lectures => MeantOK(obj, meant, x)
  BY <1>1, Running DEF At
<1>3. /\ obj \in [Objects -> Recs] /\ New(obj[x]) /\ next_id \in Nat /\ next_id # Null
      /\ \A r \in rows : r.id # next_id
  <2>1. \A r \in rows : r.id \in 1 .. next_id - 1
    BY DEF IInv, TableOK
  <2>2. next_id \in Nat /\ obj \in [Objects -> Recs]
    BY DEF IInv
  <2> QED BY <1>1, <1>2, <2>1, <2>2, RecordSaveConstants DEF FrameOK
<1>4. rows' = rows \union {row}
  BY <1>1 DEF Row
<1>5. /\ \A y \in Objects \ {x} : obj'[y] = obj[y]
      /\ obj'[x].course = obj[x].course /\ obj'[x].dirty = obj[x].dirty
      /\ obj'[x].title = obj[x].title /\ obj'[x].course_id = obj[x].course_id
      /\ obj'[x].new = FALSE /\ obj'[x].id = next_id
  BY <1>1, <1>3 DEF Recs
<1>6. ~ New(obj'[x]) /\ RowOf(obj', x) = row
  BY <1>3, <1>5 DEF New, RowOf
<1>7. row.of = x /\ row.id = next_id /\ row.title = obj'[x].title
      /\ row.course_id = obj'[x].course_id
  BY <1>5
<1> HIDE DEF row
<1>8. PICK f \in Frames : /\ stack' = [stack EXCEPT ![1] = f]
                          /\ f.of = x /\ f.pc = "collection"
                          /\ f.rest = IF x \in Courses THEN added[x] ELSE <<>>
  BY <1>1, Collected
<1>9. \A l \in Objects, c \in Courses : Refers(obj, l, c) => Refers(obj', l, c)
  <2> SUFFICES ASSUME NEW l \in Objects, NEW c \in Courses, Refers(obj, l, c)
               PROVE  Refers(obj', l, c)
    OBVIOUS
  <2>1. c # x /\ c \in Objects
    BY <1>3 DEF Refers, Objects
  <2>2. obj'[c] = obj[c] /\ obj'[l].course_id = obj[l].course_id
    BY <1>5, <2>1
  <2> QED BY <2>2 DEF Refers
<1>10. Ready(obj', meant, x) /\ (x \in Lectures => MeantOK(obj', meant, x))
  <2>1. Ready(obj, meant, x)
    BY <1>2 DEF CallOK
  <2> QED BY <1>2, <1>5, <1>9, <2>1 DEF Ready, MeantOK, Wins
<1>11. CallOK(f, Null, obj', rows', added, meant)
  BY <1>4, <1>6, <1>8, <1>10, CollectedCall
<1>12. Numbered(obj'[x]) /\ Synced(rows', obj', x)
  BY <1>2, <1>4, <1>5, <1>7 DEF Numbered, Wins, Synced
<1>13. IdsOK(rows')
  BY <1>2, <1>3, <1>4, <1>7 DEF IdsOK, Sound
<1>14. Worked(x, f, obj', rows')
  BY <1>3, <1>4, <1>5, <1>6, <1>8, <1>10, <1>11, <1>12, <1>13 DEF Worked
<1> QED BY <1>1, <1>2, <1>8, <1>14, WorkedSound

\* Only the row of x has its id, so that no other is updated.
LEMMA UpdateSound ==
  ASSUME IInv, SInv, NEW x \in Objects, Update(x)
  PROVE  SInv'
<1> DEFINE g(r) == IF r.id = obj[x].id THEN Updated(r, x) ELSE r
<1>1. /\ At(x, "write") /\ ~ stack[1].insert /\ Collect(x)
      /\ rows' = {g(r) : r \in rows} /\ obj' = obj
      /\ UNCHANGED <<added, stored, request, trying, answer, meant>>
  BY DEF Update, MustUpdate
<1>2. /\ stack # <<>> /\ stack[1].of = x /\ Sound /\ stack[1].pc = "write"
      /\ CallOK(stack[1], Null, obj, rows, added, meant)
      /\ Numbered(obj[x]) /\ Synced(rows, obj, x)
      /\ x \in Lectures => MeantOK(obj, meant, x)
  BY <1>1, Running DEF At
<1>3. obj[x] \in Recs /\ rows \subseteq RowRecs
  BY DEF IInv, TableOK
<1>4. ~ New(obj[x]) /\ Ready(obj, meant, x)
  BY <1>1, <1>2 DEF CallOK
<1>5. \A r \in RowRecs : /\ g(r) \in RowRecs /\ g(r).of = r.of /\ g(r).id = r.id
                         /\ r.id # obj[x].id => g(r) = r
                         /\ r.id = obj[x].id =>
                              /\ g(r).title = IF "title" \in obj[x].dirty THEN obj[x].title
                                              ELSE r.title
                              /\ g(r).course_id = IF "course_id" \in obj[x].dirty
                                                  THEN obj[x].course_id ELSE r.course_id
  <2> SUFFICES ASSUME NEW r \in RowRecs
               PROVE  /\ Updated(r, x) \in RowRecs /\ Updated(r, x).of = r.of
                      /\ Updated(r, x).id = r.id
                      /\ Updated(r, x).title = IF "title" \in obj[x].dirty
                                               THEN obj[x].title ELSE r.title
                      /\ Updated(r, x).course_id = IF "course_id" \in obj[x].dirty
                                                   THEN obj[x].course_id ELSE r.course_id
    OBVIOUS
  <2> DEFINE t == IF "title" \in obj[x].dirty THEN obj[x].title ELSE r.title
             i == IF "course_id" \in obj[x].dirty THEN obj[x].course_id ELSE r.course_id
  <2>1. t \in {0, 1} /\ i \in Ids
    BY <1>3 DEF Recs, RowRecs
  <2>2. Updated(r, x) = [r EXCEPT !.title = t, !.course_id = i]
    <3>1. [r EXCEPT !.title = t].course_id = r.course_id
      BY DEF RowRecs
    <3>2. "title" \in Columns(x) <=> "title" \in obj[x].dirty
      BY DEF Columns
    <3>3. "course_id" \in Columns(x) <=> "course_id" \in obj[x].dirty
      BY DEF Columns
    <3> QED BY <3>1, <3>2, <3>3 DEF Updated
  <2> HIDE DEF t, i
  <2>3. /\ Updated(r, x) \in RowRecs /\ Updated(r, x).of = r.of
        /\ Updated(r, x).id = r.id /\ Updated(r, x).title = t /\ Updated(r, x).course_id = i
    BY <2>1, <2>2 DEF RowRecs
  <2> QED BY <2>3 DEF t, i
<1> HIDE DEF g
<1>6. PICK own \in rows : /\ own.of = x /\ own.id = obj[x].id
                          /\ own.title = obj[x].title \/ "title" \in obj[x].dirty
                          /\ own.course_id = obj[x].course_id \/ "course_id" \in obj[x].dirty
  BY <1>2, <1>4 DEF Synced
<1>7. \A r \in rows : r.of # x => r.id # obj[x].id
  BY <1>2, <1>6 DEF Sound, IdsOK
<1>8. g(own) = RowOf(obj, x) /\ g(own) \in rows'
  <2>1. /\ g(own) \in RowRecs /\ g(own).of = x /\ g(own).id = obj[x].id
        /\ g(own).title = obj[x].title /\ g(own).course_id = obj[x].course_id
    BY <1>3, <1>5, <1>6
  <2>2. g(own) = RowOf(obj, x)
    BY <2>1 DEF RowRecs, RowOf
  <2> QED BY <1>1, <2>2
<1>9. \A r \in rows : r.of # x => r \in rows'
  BY <1>1, <1>3, <1>5, <1>7
<1>10. IdsOK(rows')
  BY <1>1, <1>2, <1>3, <1>5 DEF Sound, IdsOK
<1>11. Synced(rows', obj, x)
  BY <1>8 DEF Synced, RowOf
<1>12. PICK f \in Frames : /\ stack' = [stack EXCEPT ![1] = f]
                          /\ f.of = x /\ f.pc = "collection"
                          /\ f.rest = IF x \in Courses THEN added[x] ELSE <<>>
  BY <1>1, Collected
<1>13. CallOK(f, Null, obj, rows', added, meant)
  BY <1>4, <1>8, <1>12, CollectedCall
<1>14. Worked(x, f, obj', rows')
  BY <1>1, <1>2, <1>9, <1>10, <1>11, <1>12, <1>13 DEF Worked
<1> QED BY <1>1, <1>2, <1>12, <1>14, WorkedSound

LEMMA NothingToWriteSound ==
  ASSUME IInv, SInv, NEW x \in Objects, NothingToWrite(x)
  PROVE  SInv'
<1>1. /\ At(x, "write") /\ ~ stack[1].insert /\ Collect(x) /\ obj[x].dirty = {}
      /\ UNCHANGED <<obj, rows, added, stored, request, trying, answer, meant>>
  BY DEF NothingToWrite, tables
<1>2. /\ stack # <<>> /\ stack[1].of = x /\ Sound /\ stack[1].pc = "write"
      /\ CallOK(stack[1], Null, obj, rows, added, meant)
      /\ Numbered(obj[x]) /\ Synced(rows, obj, x)
      /\ x \in Lectures => MeantOK(obj, meant, x)
  BY <1>1, Running DEF At
<1>3. ~ New(obj[x]) /\ Ready(obj, meant, x)
  BY <1>1, <1>2 DEF CallOK
<1>4. RowOf(obj, x) \in rows
  BY <1>1, <1>2, <1>3, CleanRow DEF IInv, TableOK
<1>5. PICK f \in Frames : /\ stack' = [stack EXCEPT ![1] = f]
                          /\ f.of = x /\ f.pc = "collection"
                          /\ f.rest = IF x \in Courses THEN added[x] ELSE <<>>
  BY <1>1, Collected
<1>6. CallOK(f, Null, obj, rows, added, meant)
  BY <1>3, <1>4, <1>5, CollectedCall
<1>7. Worked(x, f, obj', rows')
  BY <1>1, <1>2, <1>5, <1>6 DEF Worked, Sound
<1> QED BY <1>1, <1>2, <1>5, <1>7, WorkedSound

\* A course that is being saved and still new is not saved again: its call would be
\* below, and what waits there is a lecture or has been inserted.
LEMMA NewCourseIsFree ==
  ASSUME IInv, Sound, stack # <<>>, NEW c \in Courses, c # stack[1].of, New(obj[c])
  PROVE  ~ obj[c].saving
<1> SUFFICES ASSUME obj[c].saving PROVE FALSE
  OBVIOUS
<1>1. PICK i \in DOMAIN stack : stack[i].of = c
  BY DEF Sound, ObjectsOK, Objects
<1>2. /\ stack \in Seq(Frames)
      /\ \A j \in DOMAIN stack : stack[j].of \in Objects /\ FrameOK(stack[j], obj)
  BY FrameParts DEF IInv
<1>3. i # 1 /\ i - 1 \in DOMAIN stack
  BY <1>1, <1>2
<1>4. Above(stack, i) # Null
  BY <1>2, <1>3, RecordSaveConstants DEF Above
<1>5. CallOK(stack[i], Above(stack, i), obj, rows, added, meant)
  BY DEF Sound, CallsOK
<1>6. stack[i].pc # "assign"
  BY <1>1, <1>2, RecordSaveConstants DEF FrameOK
<1> QED BY <1>1, <1>4, <1>5, <1>6 DEF CallOK

LEMMA SaveCourseSound ==
  ASSUME IInv, SInv, NEW x \in Objects, SaveCourse(x)
  PROVE  SInv'
<1> DEFINE f == [stack[1] EXCEPT !.pc = "assign"]
           frames == [stack EXCEPT ![1].pc = "assign"]
           c == obj[x].course
<1>1. /\ At(x, "relations") /\ x \in Lectures /\ c # Null
      /\ UNCHANGED <<added, rows, stored, request, trying, answer, meant>>
  BY DEF SaveCourse, tables
<1>2. /\ stack # <<>> /\ stack[1].of = x /\ stack[1].pc = "relations" /\ Sound
      /\ stack[1] \in Frames /\ obj[x].saving
      /\ CallOK(stack[1], Null, obj, rows, added, meant)
      /\ Numbered(obj[x]) /\ Synced(rows, obj, x) /\ MeantOK(obj, meant, x)
  BY <1>1, Running DEF At, FrameOK
<1>3. /\ obj \in [Objects -> Recs] /\ c \in Courses /\ c \in Objects \ {x}
      /\ added \in [Courses -> Seq(Lectures)] /\ stack \in Seq(Frames) /\ 1 \in DOMAIN stack
  BY <1>1, <1>2, Top, RecordSaveConstants DEF IInv, Recs, Objects
<1>4. /\ f \in Frames /\ f.of = x /\ f.pc = "assign"
      /\ f.insert = stack[1].insert /\ f.rest = stack[1].rest
  BY <1>2 DEF Frames, Pcs
<1>5. frames = [stack EXCEPT ![1] = f]
  OBVIOUS
<1>6. CASE ~ IsNew(c)
  <2>1. stack' = frames /\ obj' = obj
    BY <1>6 DEF SaveCourse
  <2>2. ~ New(obj[obj[x].course])
    BY <1>6 DEF IsNew, New
  <2> HIDE DEF f, frames, c
  <2>3. CallOK(f, Null, obj, rows, added, meant)
    BY <1>2, <1>4, <2>2 DEF CallOK
  <2>4. Worked(x, f, obj', rows')
    BY <1>1, <1>2, <1>4, <2>1, <2>3 DEF Worked, Sound
  <2> QED BY <1>1, <1>2, <1>5, <2>1, <2>4, WorkedSound
<1>7. CASE IsNew(c)
  <2>1. Call(c, obj, frames) /\ New(obj[c])
    BY <1>7 DEF SaveCourse, IsNew, New
  <2>2. FramesOK(frames, obj)
    BY <1>1, <1>2, <1>3, GoesOn DEF Pcs, OthersKept
  <2>3. ~ obj[c].saving
    BY <1>2, <1>3, <2>1, NewCourseIsFree
  <2>4. c = obj[x].course
    OBVIOUS
  <2> HIDE DEF f, c
  <2>5. /\ DOMAIN frames = DOMAIN stack /\ frames[1] = f
        /\ \A i \in DOMAIN stack \ {1} : frames[i] = stack[i]
        /\ \A i \in DOMAIN stack : frames[i].of = stack[i].of
    BY <1>2, <1>3, <1>4, <1>5
  <2> HIDE DEF frames
  <2>6. CallOK(f, c, obj, rows, added, meant)
    BY <1>2, <1>4, <2>4 DEF CallOK
  <2>7. \A i \in DOMAIN frames \ {1} : CallOK(frames[i], Above(frames, i), obj, rows, added, meant)
    <3> SUFFICES ASSUME NEW i \in DOMAIN frames \ {1}
                 PROVE  CallOK(frames[i], Above(frames, i), obj, rows, added, meant)
      OBVIOUS
    <3>1. i \in DOMAIN stack /\ i - 1 \in DOMAIN stack /\ frames[i] = stack[i]
      BY <1>3, <2>5
    <3>2. Above(frames, i) = Above(stack, i)
      BY <2>5, <3>1 DEF Above
    <3> QED BY <1>2, <3>1, <3>2 DEF Sound, CallsOK
  <2>8. ObjectsOK(obj, frames, rows)
    BY <1>2, <2>5 DEF Sound, ObjectsOK
  <2>9. Callable(c, obj, frames, rows, added, meant)
    BY <1>2, <2>3, <2>5, <2>6, <2>7, <2>8 DEF Callable, Sound
  <2>10. New(obj[c]) <=> IsNew(c)
    BY DEF New, IsNew
  <2>11. /\ ObjectsOK(obj', stack', rows) /\ LecturesOK(obj', added, meant)
         /\ CallsOK(stack', obj', rows, added, meant)
    BY <1>3, <2>1, <2>2, <2>9, <2>10, CallSound
  <2>12. Sound'
    BY <1>1, <1>2, <2>11 DEF Sound
  <2> QED BY <1>1, <1>2, <2>12, Running, Unanswered, RecordSaveConstants DEF SInv
<1> QED BY <1>6, <1>7

LEMMA SaveLectureSound ==
  ASSUME IInv, SInv, NEW x \in Objects, SaveLecture(x)
  PROVE  SInv'
<1> DEFINE l == Head(stack[1].rest)
           p == WithCourseId(obj[l], obj[x].id)
           f == [stack[1] EXCEPT !.rest = Tail(stack[1].rest)]
           o == [obj EXCEPT ![l] = p]
           frames == [stack EXCEPT ![1] = f]
<1>1. /\ At(x, "collection") /\ stack[1].rest # <<>>
      /\ UNCHANGED <<added, rows, stored, request, trying, answer, meant>>
  BY DEF SaveLecture, tables
<1>2. /\ stack # <<>> /\ stack[1].of = x /\ stack[1].pc = "collection" /\ Sound
      /\ stack[1] \in Frames /\ obj[x].saving
      /\ CallOK(stack[1], Null, obj, rows, added, meant)
  BY <1>1, Running DEF At, FrameOK
<1>3. /\ obj \in [Objects -> Recs] /\ added \in [Courses -> Seq(Lectures)]
      /\ stack \in Seq(Frames) /\ 1 \in DOMAIN stack /\ FramesOK(stack, obj)
      /\ meant \in [Lectures -> Courses \union Ids]
  BY <1>1, Top DEF IInv, SInv
<1>4. Call(l, o, frames)
  BY <1>1 DEF SaveLecture, Rest
<1>5. x \in Courses /\ x \notin Lectures /\ ~ New(obj[x]) /\ obj[x].id \in Ids \ {Null}
  BY <1>1, <1>2, <1>3, RecordSaveConstants DEF CallOK, Objects, New, Recs
<1>6. stack[1].rest \in Seq(Lectures)
  BY <1>2 DEF Frames
<1>7. /\ l \in Lectures /\ l \in Objects \ {x} /\ l = stack[1].rest[1]
      /\ Tail(stack[1].rest) \in Seq(Lectures) /\ 1 \in DOMAIN stack[1].rest
      /\ \A k \in DOMAIN Tail(stack[1].rest) :
           k + 1 \in DOMAIN stack[1].rest /\ Tail(stack[1].rest)[k] = stack[1].rest[k + 1]
  BY <1>1, <1>5, <1>6 DEF Objects
<1>8. obj[l].course = x /\ meant[l] = x
  <2>1. PICK j \in DOMAIN added[x] : l = added[x][j]
    BY <1>2, <1>5, <1>7 DEF CallOK
  <2> QED BY <1>2, <1>5, <2>1 DEF Sound, LecturesOK
<1>9. /\ f \in Frames /\ f.of = x /\ f.pc = "collection" /\ f.insert = stack[1].insert
      /\ f.rest = Tail(stack[1].rest)
  BY <1>2, <1>7 DEF Frames
<1>10. /\ Kept(obj[l], p) /\ p.course = x /\ p.title = obj[l].title
       /\ p.course_id = obj[x].id /\ obj[l].dirty \subseteq p.dirty
       /\ p.course_id = obj[l].course_id \/ "course_id" \in p.dirty
  <2>1. obj[l] \in Recs /\ obj[x].id \in Ids
    BY <1>3, <1>5, <1>7
  <2>2. Kept(obj[l], p) /\ p.course = x
    BY <1>8, <2>1, WithCourseIdKept
  <2> QED BY <2>1, <2>2 DEF WithCourseId, Recs
<1> HIDE DEF l, p, f
<1>11. o[l] = p /\ \A y \in Objects \ {l} : o[y] = obj[y]
  BY <1>3, <1>7
<1>12. /\ o \in [Objects -> Recs] /\ \A y \in Objects : New(o[y]) <=> New(obj[y])
       /\ New(o[l]) <=> IsNew(l)
  BY <1>7, <1>10, ObjectSet
<1>13. FrameOK(f, o) /\ OthersKept(stack, obj, o)
  BY <1>2, <1>7, <1>8, <1>9, <1>10, <1>11, <1>12 DEF FrameOK, OthersKept, Kept
<1>14. FramesOK(frames, o)
  BY <1>2, <1>3, <1>9, <1>13, TopChanged
<1>15. /\ DOMAIN frames = DOMAIN stack /\ frames[1] = f
       /\ \A i \in DOMAIN stack \ {1} : frames[i] = stack[i]
       /\ \A i \in DOMAIN stack : frames[i].of = stack[i].of
  BY <1>2, <1>3, <1>9
<1> HIDE DEF o, frames
<1>16. ObjectsOK(o, frames, rows)
  <2> SUFFICES ASSUME NEW y \in Objects
               PROVE  /\ Numbered(o[y]) /\ Synced(rows, o, y)
                      /\ o[y].saving => \E i \in DOMAIN frames : frames[i].of = y
    BY DEF ObjectsOK
  <2>1. /\ Numbered(obj[y]) /\ Synced(rows, obj, y)
        /\ obj[y].saving => \E i \in DOMAIN stack : stack[i].of = y
    BY <1>2 DEF Sound, ObjectsOK
  <2>2. o[y].saving = obj[y].saving
    BY <1>10, <1>11 DEF Kept
  <2>3. Numbered(o[y])
    BY <1>5, <1>10, <1>11, <2>1 DEF Numbered, Kept
  <2>4. Synced(rows, o, y)
    <3>1. CASE y # l
      BY <1>11, <2>1, <3>1 DEF Synced
    <3>2. CASE y = l
      <4>1. p.id = obj[l].id
        BY <1>10 DEF Kept
      <4> QED BY <1>10, <1>11, <1>12, <2>1, <3>2, <4>1 DEF Synced
    <3> QED BY <3>1, <3>2
  <2> QED BY <1>15, <2>1, <2>2, <2>3, <2>4
<1>17. LecturesOK(o, added, meant)
  <2>1. MeantOK(o, meant, l)
    BY <1>5, <1>7, <1>8, <1>10, <1>11 DEF MeantOK, Refers, Objects
  <2>2. ~ New(obj[l]) => ~ New(o[l]) /\ o[l].id = obj[l].id
    BY <1>7, <1>10, <1>11, <1>12 DEF Kept
  <2>3. o[l].course = obj[l].course
    BY <1>8, <1>10, <1>11
  <2> QED BY <1>2, <1>3, <1>7, <1>11, <2>1, <2>2, <2>3, LecturesKept DEF Sound
<1>18. CallOK(f, l, o, rows, added, meant) /\ CallOK(f, Null, o, rows, added, meant)
  <2>1. RowOf(o, x) = RowOf(obj, x) /\ ~ New(o[x])
    BY <1>5, <1>7, <1>11 DEF RowOf, New
  <2>2. \A k \in DOMAIN f.rest : \E j \in DOMAIN added[x] : f.rest[k] = added[x][j]
    <3>1. \A k \in DOMAIN stack[1].rest : \E j \in DOMAIN added[x] : stack[1].rest[k] = added[x][j]
      BY <1>2, <1>5 DEF CallOK
    <3> SUFFICES ASSUME NEW k \in DOMAIN f.rest
                 PROVE  \E j \in DOMAIN added[x] : f.rest[k] = added[x][j]
      OBVIOUS
    <3>2. k + 1 \in DOMAIN stack[1].rest /\ f.rest[k] = stack[1].rest[k + 1]
      BY <1>7, <1>9
    <3> QED BY <3>1, <3>2
  <2> QED BY <1>2, <1>5, <1>9, <2>1, <2>2 DEF CallOK, Ready
<1>19. \A i \in DOMAIN frames \ {1} : CallOK(frames[i], Above(frames, i), o, rows, added, meant)
  <2>1. \A y \in Objects : New(o[y]) => New(obj[y])
    BY <1>12
  <2>2. \A y \in Objects \ {x} : o[y].course = obj[y].course
    BY <1>8, <1>10, <1>11
  <2>3. \A y \in Courses \ {x} : RowOf(o, y) = RowOf(obj, y)
    BY <1>7, <1>11, RecordSaveConstants DEF RowOf, Objects
  <2>4. \A i \in DOMAIN stack \ {1} : CallOK(stack[i], Above(stack, i), o, rows, added, meant)
    <3>1. Later(x, obj, o, rows, rows, added, added)
      BY <2>1, <2>2, <2>3 DEF Later
    <3> QED BY <1>2, <1>3, <3>1, BelowSound DEF Sound
  <2> SUFFICES ASSUME NEW i \in DOMAIN frames \ {1}
               PROVE  CallOK(frames[i], Above(frames, i), o, rows, added, meant)
    OBVIOUS
  <2>5. i \in DOMAIN stack \ {1} /\ i - 1 \in DOMAIN stack /\ frames[i] = stack[i]
    BY <1>3, <1>15
  <2>6. Above(frames, i) = Above(stack, i)
    BY <1>15, <2>5 DEF Above
  <2> QED BY <2>4, <2>5, <2>6
<1>20. Callable(l, o, frames, rows, added, meant)
  BY <1>15, <1>16, <1>17, <1>18, <1>19 DEF Callable
<1>21. /\ ObjectsOK(obj', stack', rows) /\ LecturesOK(obj', added, meant)
       /\ CallsOK(stack', obj', rows, added, meant)
  BY <1>3, <1>4, <1>7, <1>12, <1>14, <1>20, CallSound
<1>22. Sound'
  BY <1>1, <1>2, <1>21 DEF Sound
<1> QED BY <1>1, <1>2, <1>22, Running, Unanswered, RecordSaveConstants DEF SInv

\* The innermost call returns; the lecture below that waits for its course goes on.
LEMMA FinishKept ==
  ASSUME IInv, SInv, NEW x \in Objects, Finish(x)
  PROVE  /\ Sound' /\ RowOf(obj', x) \in rows /\ Ready(obj', meant, x)
         /\ ObjectsOK(obj', stack', rows)
<1>1. /\ At(x, "collection") /\ stack' = Tail(stack)
      /\ obj' = [obj EXCEPT ![x].dirty = {}, ![x].saving = FALSE]
      /\ added' = IF x \in Courses THEN [added EXCEPT ![x] = <<>>] ELSE added
      /\ UNCHANGED <<rows, meant>>
  BY DEF Finish, tables
<1>2. /\ stack # <<>> /\ stack[1].of = x /\ stack[1].pc = "collection" /\ Sound
      /\ CallOK(stack[1], Null, obj, rows, added, meant)
      /\ Numbered(obj[x]) /\ Synced(rows, obj, x)
      /\ x \in Lectures => MeantOK(obj, meant, x)
  BY <1>1, Running DEF At
<1>3. /\ obj \in [Objects -> Recs] /\ added \in [Courses -> Seq(Lectures)]
      /\ stack \in Seq(Frames) /\ 1 \in DOMAIN stack /\ FramesOK(stack, obj)
      /\ \A i \in DOMAIN stack : stack[i].of \in Objects /\ FrameOK(stack[i], obj)
      /\ \A i, j \in DOMAIN stack : stack[i].of = stack[j].of => i = j
  BY <1>1, Top, FrameParts DEF IInv
<1>4. ~ New(obj[x]) /\ RowOf(obj, x) \in rows /\ Ready(obj, meant, x)
  BY <1>2 DEF CallOK
<1>5. /\ \A y \in Objects \ {x} : obj'[y] = obj[y]
      /\ obj'[x].new = obj[x].new /\ obj'[x].id = obj[x].id /\ obj'[x].title = obj[x].title
      /\ obj'[x].course = obj[x].course /\ obj'[x].course_id = obj[x].course_id
      /\ obj'[x].dirty = {} /\ obj'[x].saving = FALSE
  BY <1>1, <1>3 DEF Recs
<1>6. /\ \A y \in Objects : /\ New(obj'[y]) <=> New(obj[y])
                            /\ RowOf(obj', y) = RowOf(obj, y)
                            /\ obj'[y].course = obj[y].course
                            /\ obj'[y].course_id = obj[y].course_id
                            /\ obj'[y].id = obj[y].id
  BY <1>5 DEF New, RowOf
<1>7. /\ DOMAIN stack' = 1 .. Len(stack) - 1 /\ DOMAIN stack = 1 .. Len(stack)
      /\ Len(stack) \in Nat /\ \A i \in DOMAIN stack' : stack'[i] = stack[i + 1]
  BY <1>1, <1>2, <1>3
<1>8. ObjectsOK(obj', stack', rows)
  <2> SUFFICES ASSUME NEW y \in Objects
               PROVE  /\ Numbered(obj'[y]) /\ Synced(rows, obj', y)
                      /\ obj'[y].saving => \E i \in DOMAIN stack' : stack'[i].of = y
    BY DEF ObjectsOK
  <2>1. CASE y = x
    <3>1. Numbered(obj'[x])
      BY <1>2, <1>5 DEF Numbered, Wins
    <3>2. Synced(rows, obj', x)
      BY <1>4, <1>6 DEF Synced, RowOf
    <3> QED BY <1>5, <2>1, <3>1, <3>2
  <2>2. CASE y # x
    <3>1. /\ Numbered(obj[y]) /\ Synced(rows, obj, y) /\ obj'[y] = obj[y]
          /\ obj[y].saving => \E i \in DOMAIN stack : stack[i].of = y
      BY <1>2, <1>5, <2>2 DEF Sound, ObjectsOK
    <3>2. obj[y].saving => \E i \in DOMAIN stack' : stack'[i].of = y
      <4> SUFFICES ASSUME obj[y].saving PROVE \E i \in DOMAIN stack' : stack'[i].of = y
        OBVIOUS
      <4>1. PICK i \in DOMAIN stack : stack[i].of = y
        BY <3>1
      <4>2. i - 1 \in DOMAIN stack' /\ (i - 1) + 1 = i
        BY <1>2, <1>7, <2>2, <4>1
      <4> QED BY <1>7, <4>1, <4>2
    <3> QED BY <3>1, <3>2 DEF Synced
  <2> QED BY <2>1, <2>2
<1>9. LecturesOK(obj', added', meant')
  <2>1. x \in Lectures => MeantOK(obj', meant, x)
    BY <1>2, <1>5 DEF MeantOK, Wins
  <2>2. LecturesOK(obj', added, meant)
    BY <1>2, <1>3, <1>5, <1>6, <2>1, LecturesKept DEF Sound
  <2>3. \A c \in Courses : added'[c] = added[c] \/ added'[c] = <<>>
    BY <1>1, <1>3
  <2> SUFFICES ASSUME NEW c \in Courses, NEW i \in DOMAIN added'[c]
               PROVE  obj'[added'[c][i]].course = c /\ meant'[added'[c][i]] = c
    BY <1>1, <2>2 DEF LecturesOK
  <2>4. added'[c] = added[c]
    BY <2>3
  <2> QED BY <1>1, <2>2, <2>4 DEF LecturesOK
<1>10. CallsOK(stack', obj', rows, added', meant)
  <2>1. \A y \in Courses \ {x} : /\ RowOf(obj', y) = RowOf(obj, y) /\ added'[y] = added[y]
    <3>1. \A y \in Courses \ {x} : added'[y] = added[y]
      BY <1>1, <1>3
    <3> QED BY <1>6, <3>1 DEF Objects
  <2>2. \A i \in DOMAIN stack \ {1} :
          CallOK(stack[i], Above(stack, i), obj', rows, added', meant)
    <3>1. /\ \A y \in Objects : New(obj'[y]) => New(obj[y])
          /\ \A y \in Objects \ {x} : obj'[y].course = obj[y].course
      BY <1>6
    <3>2. Later(x, obj, obj', rows, rows, added, added')
      BY <2>1, <3>1 DEF Later
    <3> QED BY <1>2, <1>3, <3>2, BelowSound DEF Sound
  <2> SUFFICES ASSUME NEW i \in DOMAIN stack'
               PROVE  CallOK(stack'[i], Above(stack', i), obj', rows, added', meant)
    BY DEF CallsOK
  <2>3. /\ i \in Int /\ i >= 1 /\ i + 1 \in DOMAIN stack \ {1} /\ stack'[i] = stack[i + 1]
        /\ (i + 1) - 1 = i /\ i + 1 # 1
    BY <1>7
  <2>4. CallOK(stack[i + 1], stack[i].of, obj', rows, added', meant)
    BY <2>2, <2>3 DEF Above
  <2>5. CASE i = 1
    <3>1. ~ New(obj'[x])
      BY <1>4, <1>6
    <3>2. CallOK(stack[i + 1], Null, obj', rows, added', meant)
      BY <1>2, <2>4, <2>5, <3>1 DEF CallOK
    <3> QED BY <2>3, <2>5, <3>2 DEF Above
  <2>6. CASE i # 1
    <3>1. i - 1 \in DOMAIN stack' /\ stack'[i - 1] = stack[(i - 1) + 1] /\ (i - 1) + 1 = i
      BY <1>7, <2>3, <2>6
    <3>2. Above(stack', i) = stack[i].of
      BY <2>6, <3>1 DEF Above
    <3> QED BY <2>3, <2>4, <3>2
  <2> QED BY <2>5, <2>6
<1>11. Sound'
  BY <1>1, <1>2, <1>8, <1>9, <1>10 DEF Sound
<1>12. Ready(obj', meant, x) /\ RowOf(obj', x) \in rows
  BY <1>4, <1>6 DEF Ready, Refers, Objects
<1> QED BY <1>8, <1>11, <1>12

LEMMA FinishSound ==
  ASSUME IInv, SInv, NEW x \in Objects, Finish(x)
  PROVE  SInv'
<1>1. /\ stack # <<>> /\ stack' = Tail(stack) /\ answer' = IF Len(stack) = 1 THEN x ELSE Null
      /\ UNCHANGED <<rows, stored, trying, request, meant>>
  BY DEF Finish, At, tables
<1>2. request = "open" /\ trying = FALSE /\ meant \in [Lectures -> Courses \union Ids]
  BY <1>1, Running DEF SInv
<1>3. /\ Sound' /\ RowOf(obj', x) \in rows /\ Ready(obj', meant, x)
      /\ ObjectsOK(obj', stack', rows)
  BY FinishKept
<1>4. CASE Len(stack) = 1
  <2>1. stack' = <<>> /\ answer' = x
    <3>1. stack \in Seq(Frames)
      BY DEF IInv, FramesOK
    <3> QED BY <1>1, <1>4, <3>1
  <2>2. SavedMeansStored'
    BY <1>1, <1>3, <2>1 DEF SavedMeansStored, Row, RowOf
  <2>3. KeepsCourseObject'
    <3> SUFFICES ASSUME x \in Lectures, meant[x] \in Courses
                 PROVE  \E q, r \in rows : q.of = meant[x] /\ r.of = x /\ r.course_id = q.id
      BY <1>1, <2>1 DEF KeepsCourseObject
    <3>1. Refers(obj', x, meant[x]) /\ meant[x] \in Objects
      BY <1>3 DEF Ready, Objects
    <3>2. PICK q \in rows : q.of = meant[x] /\ q.id = obj'[meant[x]].id
      BY <1>3, <3>1 DEF ObjectsOK, Synced, Refers
    <3> QED BY <1>3, <3>1, <3>2 DEF RowOf, Refers
  <2>4. CommitsAll'
    BY <1>1, <1>2 DEF CommitsAll
  <2> QED BY <1>1, <1>2, <1>3, <2>1, <2>2, <2>3, <2>4 DEF SInv
<1>5. CASE Len(stack) # 1
  BY <1>1, <1>2, <1>3, <1>5, Unanswered, RecordSaveConstants
<1> QED BY <1>4, <1>5

\* The invariant holds at first and every step keeps it.
LEMMA InitSound == ASSUME Init PROVE SInv
<1>1. PICK old \in BOOLEAN :
        LET c == CHOOSE x \in Courses : TRUE
            l == CHOOSE x \in Lectures : TRUE
        IN obj = [x \in Objects |-> CASE old /\ x = c -> Loaded(1, Null)
                                      [] old /\ x = l -> Loaded(2, 1)
                                      [] OTHER -> Fresh]
  BY DEF Init
<1>2. /\ rows = {Row(x) : x \in {y \in Objects : ~ IsNew(y)}} /\ stored = rows
      /\ added = [x \in Courses |-> <<>>] /\ stack = <<>> /\ trying = FALSE
      /\ request = "open" /\ answer = Null
      /\ meant = [x \in Lectures |-> obj[x].course_id]
  BY DEF Init
<1>3. /\ Fresh.new /\ Fresh.id = Null /\ Fresh.dirty = {"title"} /\ Fresh.course_id = Null
      /\ Fresh.saving = FALSE
      /\ ~ Loaded(1, Null).new /\ Loaded(1, Null).id = 1 /\ Loaded(1, Null).dirty = {}
      /\ Loaded(1, Null).saving = FALSE /\ Loaded(1, Null).course_id = Null
      /\ ~ Loaded(2, 1).new /\ Loaded(2, 1).id = 2 /\ Loaded(2, 1).dirty = {}
      /\ Loaded(2, 1).saving = FALSE /\ Loaded(2, 1).course_id = 1
  BY DEF Fresh, Loaded
<1>4. \E c, l : \A x \in Objects :
        /\ ~ obj[x].saving /\ Numbered(obj[x]) /\ ~ Wins(obj[x])
        /\ ~ New(obj[x]) => \/ obj[x].id = 1 /\ x = c
                            \/ obj[x].id = 2 /\ x = l
        /\ obj[x].course_id \in Ids
  <2> DEFINE c == CHOOSE x \in Courses : TRUE
             l == CHOOSE x \in Lectures : TRUE
  <2>1. \A x \in Objects : \/ obj[x] = Loaded(1, Null) /\ x = c
                           \/ obj[x] = Loaded(2, 1) /\ x = l
                           \/ obj[x] = Fresh
    <3>1. obj = [x \in Objects |-> CASE old /\ x = c -> Loaded(1, Null)
                                      [] old /\ x = l -> Loaded(2, 1)
                                      [] OTHER -> Fresh]
      BY <1>1
    <3> HIDE DEF c, l
    <3> SUFFICES ASSUME NEW x \in Objects
                 PROVE  \/ obj[x] = Loaded(1, Null) /\ x = c
                        \/ obj[x] = Loaded(2, 1) /\ x = l
                        \/ obj[x] = Fresh
      OBVIOUS
    <3>2. obj[x] = CASE old /\ x = c -> Loaded(1, Null)
                     [] old /\ x = l -> Loaded(2, 1)
                     [] OTHER -> Fresh
      BY <3>1
    <3> QED BY <3>2
  <2> HIDE DEF c, l
  <2>2. \A x \in Objects :
          /\ ~ obj[x].saving /\ Numbered(obj[x]) /\ ~ Wins(obj[x])
          /\ ~ New(obj[x]) => \/ obj[x].id = 1 /\ x = c
                              \/ obj[x].id = 2 /\ x = l
          /\ obj[x].course_id \in Ids
    <3>1. /\ Numbered(Fresh) /\ ~ Wins(Fresh) /\ New(Fresh)
          /\ Numbered(Loaded(1, Null)) /\ ~ Wins(Loaded(1, Null))
          /\ Numbered(Loaded(2, 1)) /\ ~ Wins(Loaded(2, 1))
      BY <1>3 DEF Numbered, Wins, New
    <3> QED BY <1>3, <2>1, <3>1 DEF Ids
  <2> QED BY <2>2
<1>5. PICK c, l : \A x \in Objects :
        /\ ~ obj[x].saving /\ Numbered(obj[x]) /\ ~ Wins(obj[x])
        /\ ~ New(obj[x]) => \/ obj[x].id = 1 /\ x = c
                            \/ obj[x].id = 2 /\ x = l
        /\ obj[x].course_id \in Ids
  BY <1>4
<1>6. /\ \A x \in Objects : ~ New(obj[x]) => RowOf(obj, x) \in rows
      /\ \A r \in rows : \E x \in Objects : ~ New(obj[x]) /\ r = RowOf(obj, x)
  BY <1>2 DEF Row, RowOf, New, IsNew
<1>7. ObjectsOK(obj, stack, rows)
  <2>1. \A x \in Objects : Synced(rows, obj, x)
    BY <1>6 DEF Synced, RowOf
  <2> QED BY <1>5, <2>1 DEF ObjectsOK
<1>8. meant \in [Lectures -> Courses \union Ids] /\ \A k \in Lectures : meant[k] \notin Courses
  <2>1. \A k \in Lectures : meant[k] \in Ids
    BY <1>2, <1>5 DEF Objects
  <2> QED BY <1>2, <2>1, RecordSaveConstants DEF Ids, Objects
<1>9. LecturesOK(obj, added, meant)
  BY <1>2, <1>8 DEF LecturesOK, MeantOK
<1>10. IdsOK(rows) /\ \A r \in rows : r.id < 3
  <2>1. \A r \in rows : \E x \in Objects : /\ r = RowOf(obj, x) /\ r.id = obj[x].id
                                           /\ \/ r.id = 1 /\ x = c
                                              \/ r.id = 2 /\ x = l
    BY <1>5, <1>6 DEF RowOf
  <2> QED BY <2>1 DEF IdsOK
<1>11. Sound
  BY <1>2, <1>7, <1>9, <1>10, Idle DEF Sound
<1>12. SavedMeansStored /\ KeepsCourseObject /\ CommitsAll
  BY <1>2, RecordSaveConstants DEF SavedMeansStored, KeepsCourseObject, CommitsAll, Objects
<1> QED BY <1>2, <1>8, <1>10, <1>11, <1>12 DEF SInv

LEMMA StepSound == ASSUME IInv, SInv, ~ Tries, [Next]_vars PROVE SInv'
<1>1. ASSUME NEW x \in Objects, Step(x) PROVE SInv'
  <2>1. CASE Invalid(x) \/ Fail(x) \/ EmptyUpdate(x)
    BY <2>1, RaiseSound DEF Invalid, Fail, EmptyUpdate, MustInsert, MustUpdate, At
  <2> QED
    BY <1>1, <2>1, NoRelationsSound, ForgetCourseSound, SaveCourseSound, AssignCourseSound,
       InsertSound, UpdateSound, NothingToWriteSound, SaveLectureSound, FinishSound DEF Step
<1>2. CASE UNCHANGED vars
  BY <1>2 DEF vars, tables, SInv, Sound, SavedMeansStored, KeepsCourseObject, CommitsAll,
              Row, IsNew
<1> QED
  BY <1>1, <1>2, SetTitleSound, SaveSound, SetCourseSound, SetCourseIdSound, AddLectureSound,
     EndSound DEF Next

LEMMA SoundAlways == ASSUME ~ Tries PROVE Spec => []SInv
BY InitIInv, StepIInv, InitSound, StepSound, PTL DEF Spec

\* Unless trySave is used, whatever calls led to each other when save returns: the
\* object is in the table as it is in memory.
THEOREM SavedMeansStoredAlways == ASSUME ~ Tries PROVE Spec => []SavedMeansStored
<1>1. SInv => SavedMeansStored
  BY DEF SInv
<1> QED BY <1>1, SoundAlways, PTL

\* Unless trySave is used, a lecture that has been saved refers to the row of the course
\* that the caller gave it last by the property course, whether the lecture or the course
\* was saved first, and whatever column was set directly before.
THEOREM KeepsCourseObjectAlways == ASSUME ~ Tries PROVE Spec => []KeepsCourseObject
<1>1. SInv => KeepsCourseObject
  BY DEF SInv
<1> QED BY <1>1, SoundAlways, PTL

\* Unless trySave is used, a request that ends well has committed every object as it is
\* in memory, and one that fails has left nothing behind.
THEOREM CommitsAllAlways == ASSUME ~ Tries PROVE Spec => []CommitsAll
<1>1. SInv => CommitsAll
  BY DEF SInv
<1> QED BY <1>1, SoundAlways, PTL
=============================================================================
