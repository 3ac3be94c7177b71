----------------------------- MODULE FormUpload -----------------------------
(***************************************************************************)
(* CMS.forms.upload_file: a file is sent by a form into an iframe, and     *)
(* on_complete is told what the page in the iframe says 100 ms after the   *)
(* iframe has loaded.  Some browsers tell of the empty page too with which *)
(* an iframe starts, after the callback was bound.                         *)
(***************************************************************************)
EXTENDS Naturals, Sequences

VARIABLES
  blank, sent,   \* loads to come: of the empty page, of the answer
  inside,        \* the page in the iframe
  timers,        \* callbacks that wait
  form,          \* the form, with the iframe, is on the page
  told           \* calls of on_complete

vars == <<blank, sent, inside, timers, form, told>>

UploadTypeOK ==
  /\ blank \in BOOLEAN /\ sent \in BOOLEAN /\ form \in BOOLEAN /\ timers \in 0..2
  /\ inside \in {"empty", "file", "failure", "foreign"}
  /\ told \in Seq({"file", "error"})

Init ==
  /\ blank \in BOOLEAN /\ sent = TRUE /\ inside = "empty"
  /\ timers = 0 /\ form = TRUE /\ told = <<>>

-----------------------------------------------------------------------------
BlankLoads == form /\ blank /\ blank' = FALSE /\ timers' = timers + 1 /\ UNCHANGED <<sent, inside, form, told>>

(* The answer: the script's page, or one that may not be read, such as the *)
(* browser's own for a server that does not answer.                        *)
AnswerLoads ==
  /\ form /\ sent /\ sent' = FALSE /\ timers' = timers + 1
  /\ inside' \in {"file", "failure", "foreign"}
  /\ UNCHANGED <<blank, form, told>>

(* The callback ends early if the page may not be read or the iframe has   *)
(* left the page with the form.                                            *)
Removed == FALSE
TimerEnds ==
  /\ timers > 0 /\ timers' = timers - 1
  /\ IF form /\ inside # "foreign"
       THEN /\ told' = Append(told, IF inside = "file" THEN "file" ELSE "error")
            /\ form' = Removed
       ELSE UNCHANGED <<told, form>>
  /\ UNCHANGED <<blank, sent, inside>>

Next == BlankLoads \/ AnswerLoads \/ TimerEnds
Spec == Init /\ [][Next]_vars /\ WF_vars(TimerEnds)

-----------------------------------------------------------------------------
(* on_complete is told once, and of a file only if it came; of an error    *)
(* while it was to come only if the empty page's load was told.            *)
ToldOnce ==
  /\ Len(told) <= 1
  /\ told = <<"file">> => inside = "file"
  /\ told = <<"error">> => inside = "failure" \/ (~blank /\ sent)

(* An answer that can be read ends the upload some time.                   *)
Ends == inside \in {"file", "failure"} ~> told # <<>>
=============================================================================
