------------------------------ MODULE ClassKit ------------------------------
(***************************************************************************)
(* Limb.Classkit: one method along a chain of classes, called on an object *)
(* of the first.  An object gets a proxy of its parent class when it is    *)
(* made, whose methods work on the object itself: this.parent is the       *)
(* object's, whichever class the method that uses it is of.                *)
(***************************************************************************)
EXTENDS Naturals, Sequences, SequencesExt, FiniteSetsExt

CONSTANTS
  Depth,     \* of the chain: class 1 is the object's, Depth has no parent
  MaxCalls   \* bound: bodies on the stack

Classes == 1..Depth

VARIABLES
  body,    \* what each class does with the method
  stack,   \* classes whose bodies run, the latest last
  ran      \* classes whose bodies have run to their end

vars == <<body, stack, ran>>

KitTypeOK ==
  /\ body \in [Classes -> {"inherits", "overrides", "extends"}]
  /\ stack \in BoundedSeq(Classes, MaxCalls) /\ ran \in Seq(Classes)

Init ==
  /\ body \in {b \in [Classes -> {"inherits", "overrides", "extends"}] : b[Depth] = "overrides"}
  /\ stack = <<>> /\ ran = <<>>

(* inherit: a class has its own body, or a copy of the nearest above.      *)
Found(c) == Min({d \in c..Depth : body[d] # "inherits"})

(* makeParentProxy: a proxy of the class above the object's own.           *)
Proxied == 2

Call == stack = <<>> /\ ran = <<>> /\ stack' = <<Found(1)>> /\ UNCHANGED <<body, ran>>
CallParent ==
  /\ stack # <<>> /\ ran = <<>> /\ Len(stack) < MaxCalls
  /\ body[Last(stack)] = "extends"
  /\ stack' = Append(stack, Found(Proxied)) /\ UNCHANGED <<body, ran>>
Return ==
  /\ stack # <<>> /\ (body[Last(stack)] = "overrides" \/ ran # <<>>)
  /\ ran' = Append(ran, Last(stack)) /\ stack' = Front(stack) /\ UNCHANGED body

Next == Call \/ CallParent \/ Return
Spec == Init /\ [][Next]_vars

-----------------------------------------------------------------------------
(* The classes that have a say, up to the first that does not ask its      *)
(* parent.                                                                 *)
Asked == {c \in Classes : body[c] # "inherits" /\ \A d \in 1..c - 1 : body[d] # "overrides"}

(* The bodies run as the chain has them, each after those of Asked below   *)
(* it, the parent's to its end before the child's, if the parent's does    *)
(* not ask a parent too: else it asks for itself, for ever.                *)
ParentsRun ==
  LET begun == stack \o Reverse(ran)
  IN IF body[Found(2)] = "extends"
       THEN ran # <<>> => body[1] = "overrides"
       ELSE \A i \in DOMAIN begun :
              begun[i] \in Asked /\ {begun[j] : j \in 1..i - 1} = {c \in Asked : c < begun[i]}
=============================================================================
